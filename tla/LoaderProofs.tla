----------------------------- MODULE LoaderProofs -----------------------------
(***************************************************************************)
(* Proofs about the names of a document (Namespaces) and about what the    *)
(* loader builds from it (Loader), for documents of any size and shape.    *)
(***************************************************************************)
EXTENDS Loader, FiniteSetTheorems, Lists

\* The system tree: a system is inside an earlier one, and its path is one
\* longer than that one's.
SystemsNest ==
    /\ IsList(systems) /\ Len(systems) # 0
    /\ \A s \in 1..Len(systems) :
          /\ systems[s].parent \in 0..(s - 1)
          /\ systems[s].path \in Seq(Names) /\ Len(systems[s].path) # 0
          /\ systems[s].parent # 0 =>
                Len(systems[s].path) = Len(systems[systems[s].parent].path) + 1

\* A definition holds what an element of its kind may hold.  It is named after
\* its system, one of those within, or after its command.
Placed(d, within) ==
    /\ d.kind \in Kinds /\ d.body \in Bodies[d.kind]
    /\ d.system \in 1..Len(within)
    /\ d.path \in Seq(Names) /\ Len(d.path) # 0
    /\ IF d.owner = 0
       THEN /\ d.kind # "argument"
            /\ d.path = Append(within[d.system].path, LastOf(d.path))
       ELSE /\ d.kind \in {"argument", "container"}
            /\ Len(d.path) = Len(within[d.system].path) + 2

DefinitionsArePlaced ==
    /\ IsList(definitions)
    /\ \A i \in 1..Len(definitions) :
          /\ Placed(definitions[i], systems)
          /\ definitions[i].owner \in 0..(i - 1)
          /\ definitions[i].owner # 0 =>
                definitions[definitions[i].owner].kind = "command"

\* The commands of a system are read last: nothing that is not a command, or
\* in one, comes after what is in a command.
CommandsAreLast ==
    /\ section \in 1..8
    /\ \A i \in 1..Len(definitions) :
          definitions[i].owner # 0 =>
             /\ definitions[i].system = Len(systems) => section = 8
             /\ \A j \in (i + 1)..Len(definitions) :
                   definitions[i].system = definitions[j].system =>
                      definitions[j].owner # 0 \/ definitions[j].kind = "command"

\* What table t finds by an unqualified name, and those of name n.
Loose(t) == {i \in In(t) : definitions[i].kind # "argument"}
LooseNamed(t, n) == {i \in Loose(t) : LastOf(definitions[i].path) = n}

\* The tables hold what is registered, no more and no less: each definition at
\* its own qualified name, and the first of an unqualified name.
QualifiedAgrees(t) ==
    /\ DOMAIN qualified[t] = {definitions[i].path : i \in In(t)}
    /\ \A i \in In(t) : qualified[t][definitions[i].path] = i

LeafAgrees(t) ==
    /\ DOMAIN leaf[t] = {LastOf(definitions[i].path) : i \in Loose(t)}
    /\ \A n \in DOMAIN leaf[t] :
          /\ leaf[t][n] \in LooseNamed(t, n)
          /\ \A i \in LooseNamed(t, n) : leaf[t][n] <= i

TablesAgree == \A t \in Tables : QualifiedAgrees(t) /\ LeafAgrees(t)

NamespaceInv ==
    SystemsNest /\ DefinitionsArePlaced /\ CommandsAreLast /\ TablesAgree
-------------------------------------------------------------------------------
LEMMA IndexedHolds ==
  ASSUME NEW table, NEW keys
  PROVE  /\ \A k : k \in DOMAIN Indexed(table, keys) <=>
                     k \in DOMAIN table \/ \E i \in DOMAIN keys : keys[i] = k
         /\ \A k \in DOMAIN table : Indexed(table, keys)[k] = table[k]
         /\ \A i \in DOMAIN keys : keys[i] \notin DOMAIN table =>
               /\ Indexed(table, keys)[keys[i]] \in DOMAIN keys
               /\ keys[Indexed(table, keys)[keys[i]]] = keys[i]
  BY DEF Indexed

\* What definitions are when more are entered.
LEMMA NewPlaces ==
  ASSUME IsList(definitions), NEW new, IsList(new), definitions' = definitions \o new
  PROVE  /\ Len(definitions) \in Nat /\ Len(new) \in Nat
         /\ IsList(definitions')
         /\ Len(definitions') = Len(definitions) + Len(new)
         /\ \A i \in 1..Len(definitions) : definitions'[i] = definitions[i]
         /\ \A i \in (Len(definitions) + 1)..(Len(definitions) + Len(new)) :
               /\ i - Len(definitions) \in 1..Len(new)
               /\ definitions'[i] = new[i - Len(definitions)]
  <1> DEFINE N == Len(definitions)
             d == definitions'
  <1>1. /\ IsList(d) /\ Len(d) = N + Len(new)
        /\ \A i \in 1..N : d[i] = definitions[i]
        /\ \A i \in 1..Len(new) : d[N + i] = new[i]
    BY ListConcat
  <1>2. N \in Nat /\ Len(new) \in Nat
    BY DEF IsList
  <1>3. ASSUME NEW i \in (N + 1)..(N + Len(new))
        PROVE  i - N \in 1..Len(new) /\ d[i] = new[i - N]
    <2> HIDE DEF N, d
    <2>1. i - N \in 1..Len(new) /\ N + (i - N) = i
      BY <1>2
    <2>2. d[N + (i - N)] = new[i - N]
      BY <1>1, <2>1
    <2> QED BY <2>1, <2>2
  <1> QED BY <1>1, <1>2, <1>3

LEMMA NewIn ==
  ASSUME IsList(definitions), NEW new, IsList(new), definitions' = definitions \o new,
         NEW t
  PROVE  /\ In(t)' = In(t) \cup PlacesIn(t, new)
         /\ \A i \in In(t) : i \in 1..Len(definitions) /\ definitions'[i] = definitions[i]
         /\ \A i \in PlacesIn(t, new) :
               /\ i > Len(definitions) /\ i \in Nat
               /\ i - Len(definitions) \in 1..Len(new)
               /\ definitions'[i] = new[i - Len(definitions)]
               /\ t \in TablesOf(new[i - Len(definitions)].kind)
  <1> DEFINE N == Len(definitions)
             d == definitions'
  <1>1. /\ N \in Nat /\ Len(new) \in Nat /\ IsList(d) /\ Len(d) = N + Len(new)
        /\ \A i \in 1..N : d[i] = definitions[i]
        /\ \A i \in (N + 1)..(N + Len(new)) : i - N \in 1..Len(new) /\ d[i] = new[i - N]
    BY NewPlaces
  <1>2. DOMAIN definitions = 1..N /\ DOMAIN d = 1..Len(d)
    BY <1>1, ListDomain
  <1>3. In(t) = {i \in 1..N : t \in TablesOf(definitions[i].kind)}
    BY <1>2 DEF In
  <1>4. In(t)' = {i \in 1..Len(d) : t \in TablesOf(d[i].kind)}
    BY <1>2 DEF In
  <1>5. PlacesIn(t, new) = {i \in (N + 1)..(N + Len(new)) : t \in TablesOf(new[i - N].kind)}
    BY DEF PlacesIn
  <1> HIDE DEF N, d
  <1>6. \A i : i \in 1..Len(d) <=> i \in 1..N \/ i \in (N + 1)..(N + Len(new))
    BY <1>1
  <1>7. In(t)' = In(t) \cup PlacesIn(t, new)
    BY <1>1, <1>3, <1>4, <1>5, <1>6
  <1>8. \A i \in PlacesIn(t, new) :
           /\ i > N /\ i \in Nat /\ i - N \in 1..Len(new) /\ d[i] = new[i - N]
           /\ t \in TablesOf(new[i - N].kind)
    BY <1>1, <1>5
  <1>9. \A i \in In(t) : i \in 1..N /\ d[i] = definitions[i]
    BY <1>1, <1>3
  <1> QED BY <1>7, <1>8, <1>9 DEF N, d

\* The qualified names stay one for each definition.
LEMMA EnterQualified ==
  ASSUME IsList(definitions), NEW new, IsList(new), ~ Clashes(new), Enter(new),
         NEW t \in Tables, QualifiedAgrees(t)
  PROVE  QualifiedAgrees(t)'
  <1> DEFINE N == Len(definitions)
             d == definitions'
             P == PlacesIn(t, new)
             I == In(t)
             keys == [i \in P |-> new[i - N].path]
             old == qualified[t]
             now == Indexed(old, keys)
  <1>1. definitions' = definitions \o new /\ qualified'[t] = now
    BY DEF Enter
  <1>2. /\ In(t)' = I \cup P
        /\ \A i \in I : i \in 1..N /\ d[i] = definitions[i]
        /\ \A i \in P : /\ i > N /\ i \in Nat /\ i - N \in 1..Len(new)
                        /\ d[i] = new[i - N] /\ t \in TablesOf(new[i - N].kind)
    BY <1>1, NewIn
  <1>3. DOMAIN old = {definitions[i].path : i \in I} /\ \A i \in I : old[definitions[i].path] = i
    BY DEF QualifiedAgrees
  <1>4. N \in Nat /\ Len(new) \in Nat /\ DOMAIN new = 1..Len(new)
    BY ListDomain DEF IsList
  <1>5. \A i \in 1..Len(new) : t \in TablesOf(new[i].kind) =>
           /\ new[i].path \notin DOMAIN old
           /\ \A j \in 1..(i - 1) : ~ (new[j].path = new[i].path /\ t \in TablesOf(new[j].kind))
    BY <1>4 DEF Clashes
  <1>6. DOMAIN keys = P /\ \A i \in P : keys[i] = d[i].path /\ keys[i] \notin DOMAIN old
    BY <1>2, <1>5
  <1>7. ASSUME NEW i \in P, NEW j \in P, keys[i] = keys[j] PROVE i = j
    <2>1. new[i - N].path = new[j - N].path
      BY <1>7
    <2> HIDE DEF N, d, P, I, keys, old, now
    <2>2. ~ (i - N \in 1..(j - N - 1)) /\ ~ (j - N \in 1..(i - N - 1))
      BY <1>2, <1>5, <2>1
    <2>3. i - N \in 1..Len(new) /\ j - N \in 1..Len(new) /\ i \in Nat /\ j \in Nat
      BY <1>2
    <2> QED BY <2>2, <2>3, <1>4
  <1>8. /\ \A k : k \in DOMAIN now <=> k \in DOMAIN old \/ \E i \in DOMAIN keys : keys[i] = k
        /\ \A k \in DOMAIN old : now[k] = old[k]
        /\ \A i \in DOMAIN keys : keys[i] \notin DOMAIN old =>
              now[keys[i]] \in DOMAIN keys /\ keys[now[keys[i]]] = keys[i]
    <2> HIDE DEF N, d, P, I, old, keys
    <2> QED BY IndexedHolds
  <1>9. QualifiedAgrees(t)' <=>
           /\ DOMAIN now = {d[i].path : i \in I \cup P}
           /\ \A i \in I \cup P : now[d[i].path] = i
    BY <1>1, <1>2 DEF QualifiedAgrees
  <1> HIDE DEF N, d, P, I, keys, old, now
  <1>10. DOMAIN old = {d[i].path : i \in I}
    BY <1>2, <1>3
  <1>11. DOMAIN now = {d[i].path : i \in I \cup P}
    <2>1. \A k : k \in DOMAIN now <=> \E i \in I \cup P : k = d[i].path
      BY <1>6, <1>8, <1>10
    <2> QED BY <2>1
  <1>12. \A i \in I : now[d[i].path] = i
    BY <1>2, <1>3, <1>8, <1>10
  <1>13. ASSUME NEW i \in P PROVE now[d[i].path] = i
    <2>1. now[keys[i]] \in P /\ keys[now[keys[i]]] = keys[i]
      BY <1>6, <1>8
    <2>2. now[keys[i]] = i
      BY <1>7, <2>1
    <2> QED BY <1>6, <2>2
  <1> QED BY <1>9, <1>11, <1>12, <1>13

\* The unqualified names stay those of the first definition that has each.
LEMMA EnterLeaf ==
  ASSUME IsList(definitions), NEW new, IsList(new), ~ Clashes(new), Enter(new),
         NEW t \in Tables, LeafAgrees(t),
         \A i, j \in FoundByLeaf(t, new) : i = j
  PROVE  LeafAgrees(t)'
  <1> DEFINE N == Len(definitions)
             d == definitions'
             P == FoundByLeaf(t, new)
             I == Loose(t)
             keys == [i \in P |-> LastOf(new[i - N].path)]
             old == leaf[t]
             now == Indexed(old, keys)
  <1>1. definitions' = definitions \o new /\ leaf'[t] = now
    BY DEF Enter
  <1>2. /\ In(t)' = In(t) \cup PlacesIn(t, new)
        /\ \A i \in In(t) : i \in 1..N /\ d[i] = definitions[i]
        /\ \A i \in PlacesIn(t, new) :
              /\ i > N /\ i \in Nat /\ i - N \in 1..Len(new)
              /\ d[i] = new[i - N] /\ t \in TablesOf(new[i - N].kind)
    BY <1>1, NewIn
  <1>3. Loose(t)' = I \cup P
    <2>1. P = {i \in PlacesIn(t, new) : new[i - N].kind # "argument"}
      BY DEF FoundByLeaf
    <2>2. I = {i \in In(t) : definitions[i].kind # "argument"}
      BY DEF Loose
    <2>3. Loose(t)' = {i \in In(t)' : d[i].kind # "argument"}
      BY DEF Loose
    <2> HIDE DEF N, d, P, I
    <2> QED BY <1>2, <2>1, <2>2, <2>3
  <1>4. /\ \A i \in I : i \in 1..N /\ d[i] = definitions[i]
        /\ \A i \in P : i > N /\ i \in Nat /\ d[i] = new[i - N]
    BY <1>2 DEF Loose, FoundByLeaf
  <1>5. /\ DOMAIN old = {LastOf(definitions[i].path) : i \in I}
        /\ \A n \in DOMAIN old :
              /\ old[n] \in I /\ LastOf(definitions[old[n]].path) = n
              /\ \A i \in I : LastOf(definitions[i].path) = n => old[n] <= i
    BY DEF LeafAgrees, LooseNamed
  <1>6. DOMAIN keys = P /\ \A i \in P : keys[i] = LastOf(d[i].path)
    BY <1>4
  <1>7. /\ \A k : k \in DOMAIN now <=> k \in DOMAIN old \/ \E i \in DOMAIN keys : keys[i] = k
        /\ \A k \in DOMAIN old : now[k] = old[k]
        /\ \A i \in DOMAIN keys : keys[i] \notin DOMAIN old =>
              now[keys[i]] \in DOMAIN keys /\ keys[now[keys[i]]] = keys[i]
    <2> HIDE DEF N, d, P, I, old, keys
    <2> QED BY IndexedHolds
  <1> DEFINE Named(n) == LooseNamed(t, n)'
  <1>8. LeafAgrees(t)' <=>
           /\ DOMAIN now = {LastOf(d[i].path) : i \in I \cup P}
           /\ \A n \in DOMAIN now :
                 now[n] \in Named(n) /\ \A i \in Named(n) : now[n] <= i
    <2> HIDE DEF I, P, old, keys, now
    <2> QED BY <1>1, <1>3 DEF LeafAgrees
  <1>16. \A n, i : i \in Named(n) <=> i \in I \cup P /\ LastOf(d[i].path) = n
    <2> HIDE DEF I, P, old, keys, now
    <2> QED BY <1>3 DEF LooseNamed
  <1>9. N \in Nat /\ \A i, j \in P : i = j
    BY DEF IsList
  <1> DEFINE Name(i) == LastOf(d[i].path)
  <1>10. /\ \A k : k \in DOMAIN old <=> \E i \in I : k = Name(i)
         /\ \A n \in DOMAIN old : /\ old[n] \in I /\ Name(old[n]) = n
                                  /\ \A i \in I : Name(i) = n => old[n] <= i
    BY <1>4, <1>5
  <1>11. DOMAIN keys = P /\ \A i \in P : keys[i] = Name(i)
    BY <1>6
  <1> HIDE DEF N, d, P, I, keys, old, now, Name, Named
  <1>12. \A k : k \in DOMAIN now <=> \E i \in I \cup P : k = Name(i)
    BY <1>7, <1>10, <1>11
  <1>13. DOMAIN now = {Name(i) : i \in I \cup P}
    BY <1>12
  <1>14. ASSUME NEW n \in DOMAIN now
         PROVE  /\ now[n] \in I \cup P /\ Name(now[n]) = n
                /\ \A i \in I \cup P : Name(i) = n => now[n] <= i
    <2>1. CASE n \in DOMAIN old
      <3>1. now[n] = old[n] /\ old[n] \in I /\ Name(old[n]) = n
        BY <1>7, <1>10, <2>1
      <3>2. \A i \in I : Name(i) = n => old[n] <= i
        BY <1>10, <2>1
      <3>3. \A i \in P : old[n] <= i
        BY <1>4, <1>9, <3>1
      <3> QED BY <3>1, <3>2, <3>3
    <2>2. CASE n \notin DOMAIN old
      <3>1. PICK i \in P : n = Name(i)
        BY <1>7, <1>11, <2>2
      <3>2. now[n] \in P /\ Name(now[n]) = n
        BY <1>7, <1>11, <2>2, <3>1
      <3>3. \A j \in I : Name(j) # n
        BY <1>10, <2>2
      <3>4. \A j \in P : now[n] = j /\ j <= j
        BY <1>4, <1>9, <3>2
      <3> QED BY <3>2, <3>3, <3>4
    <2> QED BY <2>1, <2>2
  <1>15. /\ DOMAIN now = {LastOf(d[i].path) : i \in I \cup P}
         /\ \A n \in DOMAIN now :
                /\ now[n] \in I \cup P /\ LastOf(d[now[n]].path) = n
                /\ \A i \in I \cup P : LastOf(d[i].path) = n => now[n] <= i
    BY <1>13, <1>14 DEF Name
  <1> QED BY <1>8, <1>15, <1>16

\* What is entered together, when section at is read: one definition, or a
\* command with what is in it.
Fits(new, at) ==
    /\ IsList(new)
    /\ at \in section..8
    /\ \A i \in 1..Len(new) :
          /\ new[i].system = Len(systems)
          /\ IF at = 8
             THEN \/ new[i].owner = 0 /\ new[i].kind = "command"
                  \/ /\ new[i].owner = Len(definitions) + 1
                     /\ i # 1 /\ new[1].kind = "command"
             ELSE new[i].owner = 0
          /\ \A j \in 1..Len(new) :
                /\ new[i].kind # "argument" /\ new[j].kind # "argument"
                /\ TablesOf(new[i].kind) \cap TablesOf(new[j].kind) # {}
                => i = j
    /\ ~ Clashes(new) => \A i \in 1..Len(new) : Placed(new[i], systems)

LEMMA EnterPlaced ==
  ASSUME DefinitionsArePlaced, section \in 1..8, systems' = systems,
         NEW new, NEW at, Fits(new, at), ~ Clashes(new), Enter(new)
  PROVE  DefinitionsArePlaced'
  <1> DEFINE N == Len(definitions)
             d == definitions'
  <1>1. IsList(new) /\ d = definitions \o new /\ IsList(definitions)
    BY DEF Enter, Fits, DefinitionsArePlaced
  <1>2. /\ N \in Nat /\ Len(new) \in Nat /\ IsList(d) /\ Len(d) = N + Len(new)
        /\ \A i \in 1..N : d[i] = definitions[i]
        /\ \A i \in (N + 1)..(N + Len(new)) : i - N \in 1..Len(new) /\ d[i] = new[i - N]
    BY <1>1, NewPlaces
  <1>4. \A i \in 1..N : /\ Placed(definitions[i], systems) /\ definitions[i].owner \in 0..(i - 1)
                        /\ definitions[i].owner # 0 =>
                              definitions[definitions[i].owner].kind = "command"
    BY DEF DefinitionsArePlaced
  <1>5. \A i \in 1..Len(new) :
           /\ Placed(new[i], systems)
           /\ \/ new[i].owner = 0
              \/ new[i].owner = N + 1 /\ i # 1 /\ new[1].kind = "command"
    BY DEF Fits
  <1>6. DefinitionsArePlaced' <=>
           /\ IsList(d)
           /\ \A i \in 1..Len(d) :
                 /\ Placed(d[i], systems) /\ d[i].owner \in 0..(i - 1)
                 /\ d[i].owner # 0 => d[d[i].owner].kind = "command"
    BY DEF DefinitionsArePlaced
  <1> HIDE DEF N, d
  <1>7. ASSUME NEW i \in 1..Len(d)
        PROVE  /\ Placed(d[i], systems) /\ d[i].owner \in 0..(i - 1)
               /\ d[i].owner # 0 => d[d[i].owner].kind = "command"
    <2>1. CASE i \in 1..N
      <3>1. d[i] = definitions[i] /\ Placed(definitions[i], systems)
        BY <1>2, <1>4, <2>1
      <3>2. Placed(d[i], systems)
        BY <3>1
      <3>3. d[i].owner \in 0..(i - 1) /\ (d[i].owner # 0 => d[i].owner \in 1..N)
        BY <1>2, <1>4, <2>1, <3>1
      <3> QED BY <1>2, <1>4, <2>1, <3>1, <3>2, <3>3
    <2>2. CASE i \notin 1..N
      <3>1. i \in (N + 1)..(N + Len(new))
        BY <1>2, <2>2
      <3>2. i - N \in 1..Len(new) /\ d[i] = new[i - N]
        BY <1>2, <3>1
      <3>3. Placed(d[i], systems)
        BY <1>5, <3>2
      <3>4. CASE new[i - N].owner = 0
        BY <1>2, <3>1, <3>2, <3>3, <3>4
      <3>5. CASE new[i - N].owner = N + 1 /\ i - N # 1 /\ new[1].kind = "command"
        <4>1. N + 1 \in (N + 1)..(N + Len(new)) /\ N + 1 - N = 1
          BY <1>2, <3>1
        <4>2. d[N + 1] = new[1]
          BY <1>2, <4>1
        <4> QED BY <1>2, <3>1, <3>2, <3>3, <3>5, <4>2
      <3> QED BY <1>5, <3>2, <3>4, <3>5
    <2> QED BY <2>1, <2>2
  <1> QED BY <1>2, <1>6, <1>7

LEMMA EnterLast ==
  ASSUME DefinitionsArePlaced, CommandsAreLast, systems' = systems,
         NEW new, NEW at, Fits(new, at), ~ Clashes(new), Enter(new), section' = at
  PROVE  CommandsAreLast'
  <1> DEFINE N == Len(definitions)
             d == definitions'
             L == Len(systems)
  <1>1. IsList(new) /\ d = definitions \o new /\ IsList(definitions)
    BY DEF Enter, Fits, DefinitionsArePlaced
  <1>2. /\ N \in Nat /\ Len(new) \in Nat /\ IsList(d) /\ Len(d) = N + Len(new)
        /\ \A i \in 1..N : d[i] = definitions[i]
        /\ \A i \in (N + 1)..(N + Len(new)) : i - N \in 1..Len(new) /\ d[i] = new[i - N]
    BY <1>1, NewPlaces
  <1>3. /\ section \in 1..8 /\ at \in section..8
        /\ \A i \in 1..N : definitions[i].owner # 0 =>
              /\ definitions[i].system = L => section = 8
              /\ \A j \in (i + 1)..N : definitions[i].system = definitions[j].system =>
                    definitions[j].owner # 0 \/ definitions[j].kind = "command"
    BY DEF CommandsAreLast, Fits
  <1>4. \A i \in 1..Len(new) :
           /\ new[i].system = L
           /\ at # 8 => new[i].owner = 0
           /\ at = 8 => new[i].owner # 0 \/ new[i].kind = "command"
    BY <1>2 DEF Fits
  <1>5. CommandsAreLast' <=>
           /\ at \in 1..8
           /\ \A i \in 1..Len(d) : d[i].owner # 0 =>
              /\ d[i].system = L => at = 8
              /\ \A j \in (i + 1)..Len(d) : d[i].system = d[j].system =>
                    d[j].owner # 0 \/ d[j].kind = "command"
    BY DEF CommandsAreLast
  <1> HIDE DEF N, d, L
  <1>6. at \in 1..8 /\ (section = 8 => at = 8)
    BY <1>3
  <1>7. ASSUME NEW i \in 1..Len(d), d[i].owner # 0
        PROVE  d[i].system = L => at = 8
    <2>1. CASE i \in 1..N
      BY <1>2, <1>3, <1>6, <1>7, <2>1
    <2>2. CASE i \in (N + 1)..(N + Len(new))
      BY <1>2, <1>4, <1>7, <2>2
    <2> QED BY <1>2, <2>1, <2>2
  <1>8. ASSUME NEW i \in 1..Len(d), d[i].owner # 0,
               NEW j \in (i + 1)..Len(d), d[i].system = d[j].system
        PROVE  d[j].owner # 0 \/ d[j].kind = "command"
    <2>1. CASE j \in 1..N
      <3>1. i \in 1..N /\ j \in (i + 1)..N
        BY <1>2, <2>1
      <3> QED BY <1>2, <1>3, <1>8, <2>1, <3>1
    <2>2. CASE j \in (N + 1)..(N + Len(new))
      <3>1. j - N \in 1..Len(new) /\ d[j] = new[j - N]
        BY <1>2, <2>2
      <3>2. at = 8
        BY <1>4, <1>7, <1>8, <3>1
      <3> QED BY <1>4, <3>1, <3>2
    <2> QED BY <1>2, <2>1, <2>2
  <1> QED BY <1>5, <1>6, <1>7, <1>8

\* Entering definitions keeps the invariant, whether it succeeds or not.
LEMMA EnterKeeps ==
  ASSUME NamespaceInv, systems' = systems,
         NEW new, NEW at, Fits(new, at), Enter(new), section' = at
  PROVE  NamespaceInv'
  <1> USE DEF NamespaceInv
  <1>1. SystemsNest'
    BY DEF SystemsNest
  <1>2. CASE Clashes(new)
    <2>1. UNCHANGED <<definitions, qualified, leaf>>
      BY <1>2 DEF Enter
    <2>2. DefinitionsArePlaced'
      BY <2>1 DEF DefinitionsArePlaced, Placed
    <2>3. TablesAgree'
      BY <2>1 DEF TablesAgree, QualifiedAgrees, LeafAgrees, LooseNamed, Loose, In
    <2>4. CommandsAreLast'
      <3>1. section \in 1..8 /\ at \in section..8
        BY DEF CommandsAreLast, Fits
      <3>2. at \in 1..8 /\ (section = 8 => at = 8)
        BY <3>1
      <3> QED BY <2>1, <3>2 DEF CommandsAreLast
    <2> QED BY <1>1, <2>2, <2>3, <2>4
  <1>3. CASE ~ Clashes(new)
    <2>1. IsList(new) /\ IsList(definitions)
      BY DEF Fits, DefinitionsArePlaced
    <2>2. DefinitionsArePlaced'
      BY <1>3, EnterPlaced DEF CommandsAreLast
    <2>3. CommandsAreLast'
      BY <1>3, EnterLast
    <2>4. ASSUME NEW t \in Tables PROVE \A i, j \in FoundByLeaf(t, new) : i = j
      <3> DEFINE N == Len(definitions)
      <3>1. N \in Nat /\ Len(new) \in Nat
        BY <2>1 DEF IsList
      <3>2. \A i \in FoundByLeaf(t, new) :
               /\ i \in (N + 1)..(N + Len(new)) /\ t \in TablesOf(new[i - N].kind)
               /\ new[i - N].kind # "argument"
        BY DEF FoundByLeaf, PlacesIn
      <3>3. \A i, j \in 1..Len(new) :
               /\ new[i].kind # "argument" /\ new[j].kind # "argument"
               /\ t \in TablesOf(new[i].kind) /\ t \in TablesOf(new[j].kind)
               => i = j
        <4> SUFFICES ASSUME NEW i \in 1..Len(new), NEW j \in 1..Len(new),
                            new[i].kind # "argument", new[j].kind # "argument",
                            t \in TablesOf(new[i].kind), t \in TablesOf(new[j].kind)
                     PROVE  i = j
          OBVIOUS
        <4>1. TablesOf(new[i].kind) \cap TablesOf(new[j].kind) # {}
          OBVIOUS
        <4> QED BY <4>1 DEF Fits
      <3> HIDE DEF N
      <3>4. ASSUME NEW i \in FoundByLeaf(t, new), NEW j \in FoundByLeaf(t, new)
            PROVE  i = j
        <4>1. /\ i - N \in 1..Len(new) /\ j - N \in 1..Len(new) /\ i \in Int /\ j \in Int
          BY <3>1, <3>2
        <4>2. i - N = j - N
          BY <3>2, <3>3, <4>1
        <4> QED BY <3>1, <4>1, <4>2
      <3> QED BY <3>4
    <2>5. TablesAgree'
      BY <1>3, <2>1, <2>4, EnterQualified, EnterLeaf DEF TablesAgree
    <2> QED BY <1>1, <2>2, <2>3, <2>5
  <1> QED BY <1>2, <1>3

LEMMA LastAppended ==
  ASSUME NEW S, NEW s \in Seq(S), NEW x
  PROVE  /\ LastOf(Append(s, x)) = x
         /\ Len(Append(s, x)) = Len(s) + 1 /\ Len(s) \in Nat
         /\ x \in S => Append(s, x) \in Seq(S)
  <1>1. IsList(s)
    BY SeqIsList
  <1> QED BY <1>1, ListAppend DEF LastOf

\* The system that is read has a path of names.
LEMMA PathInHand ==
  ASSUME SystemsNest
  PROVE  /\ Len(systems) \in 1..Len(systems)
         /\ systems[Len(systems)].path \in Seq(Names)
         /\ \A name : Path(name) = Append(systems[Len(systems)].path, name)
  <1>1. Len(systems) \in 1..Len(systems)
    BY DEF SystemsNest, IsList
  <1> QED BY <1>1 DEF SystemsNest, Path, LastOf

LEMMA InitNames == NamespaceInit => NamespaceInv
  <1> SUFFICES ASSUME NamespaceInit PROVE NamespaceInv
    OBVIOUS
  <1>1. PICK root \in Names : systems = <<[path |-> <<root>>, parent |-> 0]>>
    BY DEF NamespaceInit
  <1>2. /\ IsList(systems) /\ Len(systems) = 1
        /\ systems[1].path = <<root>> /\ systems[1].parent = 0
    BY <1>1 DEF IsList
  <1>3. <<root>> \in Seq(Names) /\ Len(<<root>>) = 1
    OBVIOUS
  <1>4. SystemsNest
    <2>2. 1..Len(systems) = {1}
      BY <1>2
    <2>3. Len(systems) # 0 /\ IsList(systems)
      BY <1>2
    <2>4. 0 \in 0..(1 - 1)
      OBVIOUS
    <2>5. ASSUME NEW s \in 1..Len(systems)
          PROVE  /\ systems[s].parent \in 0..(s - 1) /\ systems[s].parent = 0
                 /\ systems[s].path \in Seq(Names) /\ Len(systems[s].path) # 0
      <3>1. s = 1
        BY <2>2
      <3>2. 0 \in 0..(s - 1)
        BY <3>1
      <3>3. systems[s].parent = 0 /\ systems[s].path = <<root>>
        BY <1>2, <3>1
      <3> QED BY <1>3, <3>2, <3>3
    <2> QED BY <2>3, <2>5 DEF SystemsNest
  <1>5. definitions = <<>> /\ section = 1 /\ IsList(definitions) /\ Len(definitions) = 0
    BY DEF NamespaceInit, IsList
  <1>6. DefinitionsArePlaced /\ CommandsAreLast
    BY <1>5 DEF DefinitionsArePlaced, CommandsAreLast
  <1>7. \A t \in Tables : In(t) = {} /\ qualified[t] = <<>> /\ leaf[t] = <<>>
    BY <1>5 DEF In, NamespaceInit
  <1>8. ASSUME NEW t \in Tables PROVE QualifiedAgrees(t) /\ LeafAgrees(t)
    <2>1. Loose(t) = {} /\ DOMAIN qualified[t] = {} /\ DOMAIN leaf[t] = {}
      BY <1>7 DEF Loose
    <2> QED BY <1>7, <2>1 DEF QualifiedAgrees, LeafAgrees
  <1> QED BY <1>4, <1>6, <1>8 DEF NamespaceInv, TablesAgree

LEMMA OpenSystemKeeps ==
  ASSUME NamespaceInv, NEW name \in Names, NEW parent \in 1..Len(systems),
         OpenSystem(name, parent)
  PROVE  NamespaceInv'
  <1> DEFINE L == Len(systems)
             path == Append(systems[parent].path, name)
             s == systems'
  <1>1. s = Append(systems, [path |-> path, parent |-> parent]) /\ section' = 1
    BY DEF OpenSystem
  <1>2. UNCHANGED <<definitions, qualified, leaf>>
    BY DEF OpenSystem
  <1>3. IsList(systems) /\ L \in Nat \ {0}
    BY DEF NamespaceInv, SystemsNest, IsList
  <1>4. /\ IsList(s) /\ Len(s) = L + 1
        /\ \A i \in 1..L : s[i] = systems[i]
        /\ s[L + 1] = [path |-> path, parent |-> parent]
    BY <1>1, <1>3, ListAppend
  <1>5. /\ systems[parent].path \in Seq(Names)
        /\ path \in Seq(Names) /\ Len(path) = Len(systems[parent].path) + 1 /\ Len(path) # 0
    <2>1. systems[parent].path \in Seq(Names)
      BY DEF NamespaceInv, SystemsNest
    <2> QED BY <2>1, LastAppended
  <1>6. \A i \in 1..L :
           /\ systems[i].parent \in 0..(i - 1)
           /\ systems[i].path \in Seq(Names) /\ Len(systems[i].path) # 0
           /\ systems[i].parent # 0 =>
                 Len(systems[i].path) = Len(systems[systems[i].parent].path) + 1
    BY DEF NamespaceInv, SystemsNest
  <1>7. SystemsNest'
    <2>1. SystemsNest' <=>
             /\ IsList(s) /\ Len(s) # 0
             /\ \A i \in 1..Len(s) :
                   /\ s[i].parent \in 0..(i - 1)
                   /\ s[i].path \in Seq(Names) /\ Len(s[i].path) # 0
                   /\ s[i].parent # 0 => Len(s[i].path) = Len(s[s[i].parent].path) + 1
      BY DEF SystemsNest
    <2> HIDE DEF L, path, s
    <2>2. parent \in 1..L
      BY DEF L
    <2>3. ASSUME NEW i \in 1..Len(s)
          PROVE  /\ s[i].parent \in 0..(i - 1)
                 /\ s[i].path \in Seq(Names) /\ Len(s[i].path) # 0
                 /\ s[i].parent # 0 => Len(s[i].path) = Len(s[s[i].parent].path) + 1
      <3>1. CASE i \in 1..L
        <4>1. s[i] = systems[i] /\ systems[i].parent \in 0..(i - 1)
          BY <1>4, <1>6, <3>1
        <4>2. s[i].parent # 0 => s[i].parent \in 1..L
          BY <1>3, <3>1, <4>1
        <4> QED BY <1>4, <1>6, <3>1, <4>1, <4>2
      <3>2. CASE i = L + 1
        BY <1>3, <1>4, <1>5, <2>2, <3>2
      <3> QED BY <1>3, <1>4, <3>1, <3>2
    <2> QED BY <1>3, <1>4, <2>1, <2>3
  <1>8. DefinitionsArePlaced'
    <2>1. ASSUME NEW x, Placed(x, systems) PROVE Placed(x, s)
      <3> HIDE DEF L, path, s
      <3>1. x.system \in 1..L
        BY <2>1 DEF Placed, L
      <3>2. x.system \in 1..Len(s) /\ s[x.system] = systems[x.system]
        BY <1>3, <1>4, <3>1
      <3> QED BY <2>1, <3>2 DEF Placed
    <2> HIDE DEF s
    <2>2. \A i \in 1..Len(definitions) : Placed(definitions[i], s)
      BY <2>1 DEF NamespaceInv, DefinitionsArePlaced
    <2> QED BY <1>2, <2>2 DEF NamespaceInv, DefinitionsArePlaced, s
  <1>9. CommandsAreLast'
    <2>1. \A i \in 1..Len(definitions) : definitions[i].system # Len(s)
      <3>1. \A i \in 1..Len(definitions) : definitions[i].system \in 1..L
        BY DEF NamespaceInv, DefinitionsArePlaced, Placed
      <3> HIDE DEF L, s
      <3> QED BY <1>3, <1>4, <3>1
    <2>2. 1 \in 1..8
      OBVIOUS
    <2> QED BY <1>1, <1>2, <2>1, <2>2 DEF NamespaceInv, CommandsAreLast
  <1>10. TablesAgree'
    BY <1>2 DEF NamespaceInv, TablesAgree, QualifiedAgrees, LeafAgrees, LooseNamed, Loose, In
  <1> QED BY <1>7, <1>8, <1>9, <1>10 DEF NamespaceInv

LEMMA DefineKeeps ==
  ASSUME NamespaceInv, NEW kind \in Kinds \ {"argument", "command"}, NEW at \in 1..7,
         NEW name \in Names \cup {NoName}, NEW body \in Bodies[kind],
         Define(kind, at, name, body)
  PROVE  NamespaceInv'
  <1> DEFINE L == Len(systems)
             one == [kind |-> kind, path |-> Path(name), system |-> L,
                     shared |-> at = 7, owner |-> 0, body |-> body]
             new == <<one>>
  <1>1. systems' = systems /\ section' = at /\ section <= at /\ Enter(new)
    BY DEF Define
  <1>2. /\ L \in 1..L /\ systems[L].path \in Seq(Names)
        /\ Path(name) = Append(systems[L].path, name)
    BY PathInHand DEF NamespaceInv
  <1>3. IsList(new) /\ Len(new) = 1 /\ new[1] = one
    BY DEF IsList
  <1>4. /\ one.kind = kind /\ one.system = L /\ one.owner = 0 /\ one.path = Path(name)
        /\ one.body = body
    OBVIOUS
  <1> HIDE DEF one, L
  <1>5. /\ LastOf(Path(name)) = name /\ Len(Path(name)) # 0
        /\ name \in Names => Path(name) \in Seq(Names)
    BY <1>2, LastAppended
  <1> HIDE DEF new
  <1>6. ~ Clashes(new) => Placed(one, systems)
    <2>1. SUFFICES ASSUME ~ Clashes(new) PROVE Placed(one, systems)
      OBVIOUS
    <2>2. DOMAIN new = 1..1
      BY <1>3, ListDomain
    <2>3. name # NoName
      BY <1>3, <1>4, <1>5, <2>1, <2>2 DEF Clashes
    <2> QED BY <1>2, <1>4, <1>5, <2>3 DEF Placed, L
  <1>7. \A i, j \in 1..1 : i = 1 /\ i = j
    OBVIOUS
  <1>8. section \in 1..8 /\ at \in section..8 /\ at # 8
    BY <1>1 DEF NamespaceInv, CommandsAreLast
  <1>9. Fits(new, at)
    BY <1>3, <1>4, <1>6, <1>7, <1>8 DEF Fits, L
  <1> QED BY <1>1, <1>9, EnterKeeps

LEMMA InnerList ==
  ASSUME NEW kind, NEW command, NEW n, n \in Int, NEW parts \in Parts(kind, n)
  PROVE  /\ IsList(Inner(kind, command, parts))
         /\ Len(Inner(kind, command, parts)) \in 0..n
         /\ Len(Inner(kind, command, parts)) \in Nat
         /\ DOMAIN parts = 1..Len(Inner(kind, command, parts))
         /\ \A i \in DOMAIN parts :
               parts[i].name \in Names \cup {NoName} /\ parts[i].body \in Bodies[kind]
  <1> DEFINE inner == Inner(kind, command, parts)
             rest(i) == [kind |-> kind, path |-> Append(Path(command), parts[i].name),
                         system |-> Len(systems), shared |-> FALSE,
                         owner |-> Len(definitions) + 1, body |-> parts[i].body]
  <1>1. PICK k \in 0..n : parts \in [1..k -> [name : Names \cup {NoName}, body : Bodies[kind]]]
    BY DEF Parts
  <1>2. /\ DOMAIN parts = 1..k
        /\ \A i \in 1..k :
              parts[i].name \in Names \cup {NoName} /\ parts[i].body \in Bodies[kind]
    BY <1>1
  <1>3. inner = [i \in 1..k |-> rest(i)]
    BY <1>2 DEF Inner
  <1> HIDE DEF inner, rest
  <1>4. k \in Nat /\ Len(inner) = k
    <2>1. k \in Nat /\ DOMAIN inner = 1..k /\ inner \in Seq({rest(i) : i \in 1..k})
      BY <1>1, <1>3
    <2> QED BY <2>1
  <1>5. IsList(inner)
    BY <1>3, <1>4 DEF IsList
  <1> QED BY <1>2, <1>4, <1>5 DEF inner

LEMMA InnerFields ==
  ASSUME NEW kind, NEW command, NEW parts, NEW i \in DOMAIN parts
  PROVE  /\ Inner(kind, command, parts)[i].path = Append(Path(command), parts[i].name)
         /\ Inner(kind, command, parts)[i].kind = kind
         /\ Inner(kind, command, parts)[i].system = Len(systems)
         /\ Inner(kind, command, parts)[i].owner = Len(definitions) + 1
         /\ Inner(kind, command, parts)[i].body = parts[i].body
  BY DEF Inner

\* One and two lists after it.
Joined(one, A, B) == <<one>> \o A \o B
LEMMA ListJoined ==
  ASSUME NEW one, NEW A, IsList(A), NEW B, IsList(B)
  PROVE  /\ IsList(Joined(one, A, B))
         /\ Len(Joined(one, A, B)) = 1 + Len(A) + Len(B)
         /\ Joined(one, A, B)[1] = one
         /\ \A i \in 1..Len(Joined(one, A, B)) :
               \/ i = 1
               \/ \E j \in 1..Len(A) : i = 1 + j /\ Joined(one, A, B)[i] = A[j]
               \/ \E j \in 1..Len(B) : i = 1 + Len(A) + j /\ Joined(one, A, B)[i] = B[j]
  <1> DEFINE unit == <<one>>
             front == unit \o A
             all == front \o B
  <1>1. Len(A) \in Nat /\ Len(B) \in Nat
    BY DEF IsList
  <1>2. IsList(unit)
    BY DEF IsList
  <1>unit. Len(unit) = 1 /\ unit[1] = one
    OBVIOUS
  <1> HIDE DEF unit
  <1>3. IsList(front) /\ Len(front) = Len(unit) + Len(A)
    BY <1>2, ListConcat
  <1>4. \A i \in 1..Len(unit) : front[i] = unit[i]
    BY <1>2, ListConcat
  <1>5. \A i \in 1..Len(A) : front[Len(unit) + i] = A[i]
    BY <1>2, ListConcat
  <1> HIDE DEF front
  <1>6. IsList(all) /\ Len(all) = Len(front) + Len(B)
    BY <1>3, ListConcat
  <1>7. \A i \in 1..Len(front) : all[i] = front[i]
    BY <1>3, ListConcat
  <1>8. \A i \in 1..Len(B) : all[Len(front) + i] = B[i]
    BY <1>3, ListConcat
  <1> HIDE DEF all
  <1>9. 1 \in 1..Len(unit) /\ 1 \in 1..Len(front)
    BY <1>1, <1>unit, <1>3
  <1>10. \A i \in 1..Len(A) : 1 + i \in 1..Len(front)
    BY <1>1, <1>unit, <1>3
  <1>11. all[1] = one /\ \A i \in 1..Len(A) : all[1 + i] = A[i]
    BY <1>unit, <1>4, <1>5, <1>7, <1>9, <1>10
  <1>12. Len(all) = 1 + Len(A) + Len(B) /\ \A i \in 1..Len(B) : all[1 + Len(A) + i] = B[i]
    BY <1>1, <1>unit, <1>3, <1>6, <1>8
  <1>13. ASSUME NEW i \in 1..Len(all)
         PROVE  \/ i = 1
                \/ \E j \in 1..Len(A) : i = 1 + j /\ all[i] = A[j]
                \/ \E j \in 1..Len(B) : i = 1 + Len(A) + j /\ all[i] = B[j]
    <2>1. \/ i = 1
          \/ i - 1 \in 1..Len(A) /\ i = 1 + (i - 1)
          \/ i - (1 + Len(A)) \in 1..Len(B) /\ i = 1 + Len(A) + (i - (1 + Len(A)))
      BY <1>1, <1>12
    <2> QED BY <1>11, <1>12, <2>1
  <1> QED BY <1>6, <1>11, <1>12, <1>13 DEF Joined, all, front, unit

LEMMA DefineCommandKeeps ==
  ASSUME NamespaceInv, NEW name \in Names \cup {NoName}, NEW body \in Bodies["command"],
         NEW args \in Parts("argument", Room - 1), NEW container \in Parts("container", 1),
         DefineCommand(name, body, args, container)
  PROVE  NamespaceInv'
  <1> DEFINE L == Len(systems)
             N == Len(definitions)
             one == [kind |-> "command", path |-> Path(name), system |-> L,
                     shared |-> FALSE, owner |-> 0, body |-> body]
             A == Inner("argument", name, args)
             B == Inner("container", name, container)
             new == <<one>> \o A \o B
  <1>1. systems' = systems /\ section' = 8 /\ Enter(new)
    BY DEF DefineCommand
  <1>2. /\ L \in 1..L /\ systems[L].path \in Seq(Names)
        /\ Path(name) = Append(systems[L].path, name)
    BY PathInHand DEF NamespaceInv
  <1>3. IsList(<<one>>) /\ Len(<<one>>) = 1 /\ <<one>>[1] = one
    BY DEF IsList
  <1>4. /\ one.kind = "command" /\ one.system = L /\ one.owner = 0 /\ one.path = Path(name)
        /\ one.body = body
    OBVIOUS
  <1>5. N \in Nat /\ L \in Nat /\ Room - 1 \in Int
    <2>1. N \in Nat /\ L \in Nat
      BY DEF NamespaceInv, SystemsNest, DefinitionsArePlaced, IsList
    <2> QED BY <2>1, BoundAssumption DEF Room
  <1>6. /\ IsList(A)
        /\ \A i \in 1..Len(A) :
               /\ args[i].name \in Names \cup {NoName}
               /\ A[i].path = Append(Path(name), args[i].name)
               /\ A[i].kind = "argument" /\ A[i].system = L /\ A[i].owner = N + 1
               /\ A[i].body \in Bodies["argument"]
    <2> DEFINE n == Room - 1
    <2>1. n \in Int /\ args \in Parts("argument", n)
      BY <1>5
    <2> HIDE DEF n, L, N
    <2>2. /\ IsList(A) /\ Len(A) \in 0..n /\ DOMAIN args = 1..Len(A)
          /\ \A i \in DOMAIN args :
                args[i].name \in Names \cup {NoName} /\ args[i].body \in Bodies["argument"]
      BY <2>1, InnerList
    <2>3. \A i \in DOMAIN args :
             /\ A[i].path = Append(Path(name), args[i].name)
             /\ A[i].kind = "argument" /\ A[i].system = Len(systems)
             /\ A[i].owner = Len(definitions) + 1
             /\ A[i].body = args[i].body
      BY InnerFields
    <2> QED BY <2>2, <2>3 DEF L, N
  <1>7. /\ IsList(B) /\ Len(B) \in 0..1
        /\ \A i \in 1..Len(B) :
               /\ container[i].name \in Names \cup {NoName}
               /\ B[i].path = Append(Path(name), container[i].name)
               /\ B[i].kind = "container" /\ B[i].system = L /\ B[i].owner = N + 1
               /\ B[i].body \in Bodies["container"]
    <2>1. 1 \in Int
      OBVIOUS
    <2>2. /\ IsList(B) /\ Len(B) \in 0..1 /\ DOMAIN container = 1..Len(B)
          /\ \A i \in DOMAIN container :
                /\ container[i].name \in Names \cup {NoName}
                /\ container[i].body \in Bodies["container"]
      BY <2>1, InnerList
    <2>3. \A i \in DOMAIN container :
             /\ B[i].path = Append(Path(name), container[i].name)
             /\ B[i].kind = "container" /\ B[i].system = Len(systems)
             /\ B[i].owner = Len(definitions) + 1
             /\ B[i].body = container[i].body
      BY InnerFields
    <2> QED BY <2>2, <2>3 DEF L, N
  <1> HIDE DEF one, A, B
  <1>8. /\ IsList(new) /\ Len(new) = 1 + Len(A) + Len(B) /\ new[1] = one
        /\ Len(A) \in Nat /\ Len(B) \in Nat
    <2>1. IsList(A) /\ IsList(B)
      BY <1>6, <1>7
    <2>2. new = Joined(one, A, B)
      BY DEF Joined
    <2>3. Len(A) \in Nat /\ Len(B) \in Nat
      BY <2>1 DEF IsList
    <2> HIDE DEF new
    <2> QED BY <2>1, <2>2, <2>3, ListJoined
  <1>9. \A i \in 1..Len(new) :
           \/ i = 1 /\ new[i] = one
           \/ \E j \in 1..Len(A) : i = 1 + j /\ new[i] = A[j]
           \/ \E j \in 1..Len(B) : i = 1 + Len(A) + j /\ new[i] = B[j]
    <2>1. IsList(A) /\ IsList(B)
      BY <1>6, <1>7
    <2>2. new = Joined(one, A, B)
      BY DEF Joined
    <2> HIDE DEF new
    <2> QED BY <1>8, <2>1, <2>2, ListJoined
  <1> HIDE DEF new
  <1>10. /\ LastOf(Path(name)) = name /\ Len(Path(name)) = Len(systems[L].path) + 1
         /\ Len(systems[L].path) \in Nat
         /\ name \in Names => Path(name) \in Seq(Names)
    BY <1>2, LastAppended
  <1>11. ~ Clashes(new) => \A i \in 1..Len(new) : Placed(new[i], systems)
    <2> SUFFICES ASSUME ~ Clashes(new), NEW i \in 1..Len(new) PROVE Placed(new[i], systems)
      OBVIOUS
    <2>1. \A j \in 1..Len(new) : LastOf(new[j].path) # NoName
      BY <1>8, ListDomain DEF Clashes
    <2>2. name \in Names
      BY <1>4, <1>8, <1>9, <1>10, <2>1
    <2>3. CASE new[i] = one
      <3>1. "command" \in Kinds /\ "command" # "argument" /\ Len(Path(name)) # 0
        BY <1>10 DEF Kinds
      <3>2. Path(name) = Append(systems[L].path, LastOf(Path(name)))
        BY <1>2, <1>10
      <3> QED BY <1>2, <1>4, <1>10, <2>2, <2>3, <3>1, <3>2 DEF Placed, L
    <2>4. ASSUME NEW part \in Names \cup {NoName}, new[i].path = Append(Path(name), part),
                 new[i].kind \in {"argument", "container"}, new[i].system = L,
                 new[i].owner = N + 1, new[i].body \in Bodies[new[i].kind]
          PROVE  Placed(new[i], systems)
      <3>1. /\ LastOf(new[i].path) = part /\ Len(new[i].path) = Len(systems[L].path) + 2
            /\ part \in Names => new[i].path \in Seq(Names)
            /\ Len(new[i].path) # 0
        <4> DEFINE p == Path(name)
        <4>1. p \in Seq(Names)
          BY <1>10, <2>2
        <4> HIDE DEF p
        <4>2. /\ LastOf(Append(p, part)) = part /\ Len(Append(p, part)) = Len(p) + 1
              /\ part \in Names => Append(p, part) \in Seq(Names)
          BY <4>1, LastAppended
        <4> QED BY <1>10, <2>4, <4>2 DEF p
      <3>2. part \in Names
        BY <2>1, <3>1
      <3>3. N + 1 # 0 /\ {"argument", "container"} \subseteq Kinds
        BY <1>5 DEF Kinds
      <3> QED BY <1>2, <2>4, <3>1, <3>2, <3>3 DEF Placed, L
    <2>5. ASSUME NEW j \in 1..Len(A), new[i] = A[j] PROVE Placed(new[i], systems)
      BY <1>6, <2>4, <2>5
    <2>6. ASSUME NEW j \in 1..Len(B), new[i] = B[j] PROVE Placed(new[i], systems)
      BY <1>7, <2>4, <2>6
    <2> QED BY <1>9, <2>3, <2>5, <2>6
  <1>12. ASSUME NEW i \in 1..Len(new)
         PROVE  /\ new[i].system = L
                /\ \/ new[i].owner = 0 /\ new[i].kind = "command"
                   \/ new[i].owner = N + 1 /\ i # 1 /\ new[1].kind = "command"
    <2>1. CASE new[i] = one
      BY <1>4, <2>1
    <2>2. ASSUME NEW j \in 1..Len(A), new[i] = A[j], i = 1 + j
          PROVE  new[i].system = L /\ new[i].owner = N + 1 /\ i # 1
      <3>1. i # 1
        BY <1>8, <2>2
      <3> QED BY <1>6, <2>2, <3>1
    <2>3. ASSUME NEW j \in 1..Len(B), new[i] = B[j], i = 1 + Len(A) + j
          PROVE  new[i].system = L /\ new[i].owner = N + 1 /\ i # 1
      <3>1. i # 1
        BY <1>8, <2>3
      <3> QED BY <1>7, <2>3, <3>1
    <2> QED BY <1>4, <1>8, <1>9, <2>1, <2>2, <2>3
  <1>13. ASSUME NEW i \in 1..Len(new), NEW j \in 1..Len(new),
                new[i].kind # "argument", new[j].kind # "argument",
                TablesOf(new[i].kind) \cap TablesOf(new[j].kind) # {}
         PROVE  i = j
    <2>1. \A k \in 1..Len(new) : new[k].kind # "argument" =>
             \/ k = 1 /\ new[k].kind = "command"
             \/ k = 1 + Len(A) + 1 /\ new[k].kind = "container"
      <3> SUFFICES ASSUME NEW k \in 1..Len(new), new[k].kind # "argument"
                   PROVE  \/ k = 1 /\ new[k].kind = "command"
                          \/ k = 1 + Len(A) + 1 /\ new[k].kind = "container"
        OBVIOUS
      <3>1. \A m \in 1..Len(B) : m = 1
        BY <1>7
      <3>2. ~ \E m \in 1..Len(A) : new[k] = A[m]
        BY <1>6
      <3>3. ASSUME NEW m \in 1..Len(B), k = 1 + Len(A) + m, new[k] = B[m]
            PROVE  k = 1 + Len(A) + 1 /\ new[k].kind = "container"
        BY <1>7, <3>1, <3>3
      <3> QED BY <1>4, <1>9, <3>2, <3>3
    <2>2. TablesOf("command") = {"command"} /\ TablesOf("container") = {"container"}
      BY DEF TablesOf
    <2> QED BY <1>13, <2>1, <2>2
  <1>14. 8 \in section..8
    BY DEF NamespaceInv, CommandsAreLast
  <1>15. Fits(new, 8)
    BY <1>8, <1>11, <1>12, <1>13, <1>14 DEF Fits, L, N
  <1> QED BY <1>1, <1>15, EnterKeeps

LEMMA RegisterKeeps == NamespaceInv /\ [Register]_namespaceVars => NamespaceInv'
  <1> SUFFICES ASSUME NamespaceInv, [Register]_namespaceVars PROVE NamespaceInv'
    OBVIOUS
  <1>1. ASSUME NEW name \in Names, NEW parent \in 1..Len(systems), OpenSystem(name, parent)
        PROVE  NamespaceInv'
    BY <1>1, OpenSystemKeeps
  <1>2. ASSUME NEW kind \in Kinds \ {"argument", "command"}, NEW at \in 1..7,
               NEW name \in Names \cup {NoName}, NEW body \in Bodies[kind],
               Define(kind, at, name, body)
        PROVE  NamespaceInv'
    BY <1>2, DefineKeeps
  <1>3. ASSUME NEW name \in Names \cup {NoName}, NEW body \in Bodies["command"],
               NEW args \in Parts("argument", Room - 1),
               NEW container \in Parts("container", 1),
               DefineCommand(name, body, args, container)
        PROVE  NamespaceInv'
    BY <1>3, DefineCommandKeeps
  <1>4. CASE UNCHANGED <<systems, section, definitions, qualified, leaf>>
    BY <1>4 DEF NamespaceInv, SystemsNest, DefinitionsArePlaced, Placed, CommandsAreLast,
                TablesAgree, QualifiedAgrees, LeafAgrees, LooseNamed, Loose, In
  <1>5. CASE Registered
    BY <1>4, <1>5 DEF Registered
  <1>6. CASE UNCHANGED namespaceVars
    BY <1>4, <1>6 DEF namespaceVars
  <1> QED BY <1>1, <1>2, <1>3, <1>5, <1>6 DEF Register

\* The tables and the document agree in every state of the registration.
THEOREM NamesAreKept == NamespaceSpec => []NamespaceInv
  BY InitNames, RegisterKeeps, PTL DEF NamespaceSpec
-------------------------------------------------------------------------------
\* Ancestors is the function its recursive definition means.
LEMMA AncestorsUnfold ==
  ASSUME SystemsNest
  PROVE  /\ Ancestors(0) = {}
         /\ \A s \in 1..Len(systems) : Ancestors(s) = {s} \cup Ancestors(systems[s].parent)
  <1> DEFINE L == Len(systems)
             V == SUBSET (1..L)
             parent == [k \in 1..L |-> systems[k].parent]
             step == [x \in (1..L) \X V |-> {x[1]} \cup x[2]]
             Solves(g) == g = [x \in 0..L |-> IF x = 0 THEN {}
                                              ELSE {x} \cup g[systems[x].parent]]
             above == CHOOSE g : Solves(g)
  <1>1. L \in Nat /\ \A k \in 1..L : systems[k].parent \in 0..(k - 1)
    BY DEF SystemsNest, IsList
  <1>2. \A s \in 0..L : Ancestors(s) = above[s]
    BY DEF Ancestors
  <1>3. \E g : Solves(g)
    <2>1. \A k \in 1..L : parent[k] = systems[k].parent
      OBVIOUS
    <2>2. \A k \in 1..L : \A v \in V : step[<<k, v>>] = {k} \cup v /\ step[<<k, v>>] \in V
      OBVIOUS
    <2>3. {} \in V
      OBVIOUS
    <2> HIDE DEF V, parent, step, L
    <2>4. Earlier(parent, L) /\ StaysIn(V, step, L)
      BY <1>1, <2>1, <2>2 DEF Earlier, StaysIn
    <2>5. PICK g \in [0..L -> V] : Follows(g, {}, parent, step, L)
      BY <1>1, <2>3, <2>4, TreeRecursion
    <2>6. g[0] = {} /\ \A k \in 1..L : g[k] = step[<<k, g[parent[k]]>>]
      BY <2>5 DEF Follows
    <2>7. \A k \in 1..L : g[k] = {k} \cup g[systems[k].parent]
      <3> SUFFICES ASSUME NEW k \in 1..L PROVE g[k] = {k} \cup g[systems[k].parent]
        OBVIOUS
      <3>1. systems[k].parent \in 0..L /\ parent[k] = systems[k].parent
        BY <1>1, <2>1
      <3>2. g[systems[k].parent] \in V
        BY <2>5, <3>1
      <3>3. g[k] = step[<<k, g[systems[k].parent]>>]
        BY <2>6, <3>1
      <3> QED BY <2>2, <3>2, <3>3
    <2>8. \A k \in 0..L : k = 0 \/ k \in 1..L
      BY <1>1
    <2>9. Solves(g)
      BY <2>5, <2>6, <2>7, <2>8
    <2> QED BY <2>9
  <1> HIDE DEF Solves
  <1>4. Solves(above)
    BY <1>3
  <1> HIDE DEF above
  <1>5. above = [x \in 0..L |-> IF x = 0 THEN {} ELSE {x} \cup above[systems[x].parent]]
    BY <1>4 DEF Solves
  <1>6. 0 \in 0..L /\ \A k \in 1..L : k \in 0..L /\ k # 0 /\ systems[k].parent \in 0..L
    BY <1>1
  <1>7. above[0] = {} /\ \A k \in 1..L : above[k] = {k} \cup above[systems[k].parent]
    BY <1>5, <1>6
  <1> QED BY <1>2, <1>6, <1>7
\* A table answers with the definition that has the name, if there is one.
LEMMA LookupAt ==
  ASSUME IsList(definitions), NEW t, QualifiedAgrees(t), NEW path
  PROVE  /\ At(path, t) = {} => Lookup(qualified[t], path) = 0
         /\ At(path, t) # {} => /\ Lookup(qualified[t], path) \in At(path, t)
                                /\ Lookup(qualified[t], path) # 0
  <1>1. At(path, t) = {i \in In(t) : definitions[i].path = path}
    BY DEF At
  <1>2. \A i \in In(t) : i # 0
    <2>1. In(t) \subseteq 1..Len(definitions)
      BY ListDomain DEF In
    <2> QED BY <2>1
  <1>3. /\ path \in DOMAIN qualified[t] <=> \E i \in In(t) : definitions[i].path = path
        /\ \A i \in In(t) : qualified[t][definitions[i].path] = i
    BY DEF QualifiedAgrees
  <1>4. CASE At(path, t) = {}
    BY <1>1, <1>3, <1>4 DEF Lookup
  <1>5. CASE At(path, t) # {}
    <2>1. PICK i \in In(t) : definitions[i].path = path
      BY <1>1, <1>5
    <2>2. Lookup(qualified[t], path) = i
      BY <1>3, <2>1 DEF Lookup
    <2> QED BY <1>1, <1>2, <2>1, <2>2
  <1> QED BY <1>4, <1>5

LEMMA LookupIn ==
  ASSUME IsList(definitions), NEW t, QualifiedAgrees(t), NEW path
  PROVE  Lookup(qualified[t], path) \in In(t) \cup {0}
  BY LookupAt DEF At

\* A list of names and nothing else is where it says.
LEMMA NamesAreLocated ==
  ASSUME NEW ref, ref.segments \in Seq(Names), NEW within
  PROVE  Located(within, ref) = (IF ref.absolute THEN <<>> ELSE within) \o ref.segments
  <1>1. \A i \in DOMAIN ref.segments : ref.segments[i] \in Names
    OBVIOUS
  <1>2. ~ NeedsNormalising(ref)
    BY <1>1, NamesAreNoSegments DEF NeedsNormalising
  <1> QED BY <1>2 DEF Located

\* Climb is the function its recursive definition means.
LEMMA ClimbUnfold ==
  ASSUME SystemsNest, IsList(definitions), NEW t, QualifiedAgrees(t), NEW ref
  PROVE  /\ Climb(ref, 0, t) = 0
         /\ \A s \in 1..Len(systems) :
               LET found == Lookup(qualified[t], Located(systems[s].path, ref))
               IN  Climb(ref, s, t) = IF found # 0 THEN found
                                      ELSE Climb(ref, systems[s].parent, t)
  <1> DEFINE L == Len(systems)
             V == In(t) \cup {0}
             Answer(s) == Lookup(qualified[t], Located(systems[s].path, ref))
             parent == [k \in 1..L |-> systems[k].parent]
             step == [x \in (1..L) \X V |-> IF Answer(x[1]) # 0 THEN Answer(x[1]) ELSE x[2]]
             Solves(g) == g = [s \in 0..L |-> IF s = 0 THEN 0
                                 ELSE LET found == Answer(s)
                                      IN  IF found # 0 THEN found ELSE g[systems[s].parent]]
             climb == CHOOSE g : Solves(g)
  <1>1. L \in Nat /\ \A k \in 1..L : systems[k].parent \in 0..(k - 1)
    BY DEF SystemsNest, IsList
  <1>2. \A s \in 0..L : Climb(ref, s, t) = climb[s]
    BY DEF Climb
  <1>3. \A s : Answer(s) \in V
    BY LookupIn
  <1> HIDE DEF Answer
  <1>4. \E g : Solves(g)
    <2>1. \A k \in 1..L : parent[k] = systems[k].parent
      OBVIOUS
    <2>2. \A k \in 1..L : \A v \in V :
             /\ step[<<k, v>>] = IF Answer(k) # 0 THEN Answer(k) ELSE v
             /\ step[<<k, v>>] \in V
      <3> HIDE DEF V, L
      <3> QED BY <1>3
    <2>3. 0 \in V
      OBVIOUS
    <2> HIDE DEF V, parent, step, L
    <2>4. Earlier(parent, L) /\ StaysIn(V, step, L)
      BY <1>1, <2>1, <2>2 DEF Earlier, StaysIn
    <2>5. PICK g \in [0..L -> V] : Follows(g, 0, parent, step, L)
      BY <1>1, <2>3, <2>4, TreeRecursion
    <2>6. g[0] = 0 /\ \A k \in 1..L : g[k] = step[<<k, g[parent[k]]>>]
      BY <2>5 DEF Follows
    <2>7. \A k \in 1..L : g[k] = IF Answer(k) # 0 THEN Answer(k) ELSE g[systems[k].parent]
      <3> SUFFICES ASSUME NEW k \in 1..L
                   PROVE  g[k] = IF Answer(k) # 0 THEN Answer(k) ELSE g[systems[k].parent]
        OBVIOUS
      <3>1. systems[k].parent \in 0..L
        BY <1>1
      <3>2. g[systems[k].parent] \in V
        BY <2>5, <3>1
      <3>3. g[k] = step[<<k, g[systems[k].parent]>>]
        BY <2>1, <2>6
      <3> QED BY <2>2, <3>2, <3>3
    <2>8. \A k \in 0..L : k = 0 \/ k \in 1..L
      BY <1>1
    <2>9. Solves(g)
      BY <2>5, <2>6, <2>7, <2>8
    <2> QED BY <2>9
  <1> HIDE DEF Solves
  <1>5. Solves(climb)
    BY <1>4
  <1> HIDE DEF climb
  <1>6. climb = [s \in 0..L |-> IF s = 0 THEN 0
                   ELSE IF Answer(s) # 0 THEN Answer(s) ELSE climb[systems[s].parent]]
    BY <1>5 DEF Solves
  <1>7. 0 \in 0..L /\ \A k \in 1..L : k \in 0..L /\ k # 0 /\ systems[k].parent \in 0..L
    BY <1>1
  <1>8. climb[0] = 0 /\ \A k \in 1..L :
           climb[k] = IF Answer(k) # 0 THEN Answer(k) ELSE climb[systems[k].parent]
    BY <1>6, <1>7
  <1> QED BY <1>2, <1>7, <1>8 DEF Answer

\* Every definition is found from everywhere by its qualified name, in each
\* table it is for.
LEMMA FoundByPath ==
  ASSUME NamespaceInv, NEW t \in Tables, NEW i \in In(t), NEW s
  PROVE  Resolve([absolute |-> TRUE, segments |-> definitions[i].path], s, t) = i
  <1> DEFINE path == definitions[i].path
             ref == [absolute |-> TRUE, segments |-> path]
  <1>1. IsList(definitions) /\ QualifiedAgrees(t)
    BY DEF NamespaceInv, DefinitionsArePlaced, TablesAgree
  <1>2. i \in 1..Len(definitions)
    BY <1>1, ListDomain DEF In
  <1>3. path \in Seq(Names)
    BY <1>2 DEF NamespaceInv, DefinitionsArePlaced, Placed
  <1>4. Lookup(qualified[t], path) = i /\ i # 0
    BY <1>1, <1>2 DEF QualifiedAgrees, Lookup
  <1> HIDE DEF path
  <1>5. ref.absolute = TRUE /\ ref.segments = path
    OBVIOUS
  <1> HIDE DEF ref
  <1>6. Located(systems[s].path, ref) = <<>> \o path
    BY <1>3, <1>5, NamesAreLocated
  <1>7. <<>> \o path = path
    BY <1>3, ConcatEmptySeq
  <1>8. IsPath(ref)
    BY <1>5 DEF IsPath
  <1>9. Resolve(ref, s, t) = i
    BY <1>4, <1>6, <1>7, <1>8 DEF Resolve, ResolveByPath
  <1> QED BY <1>9 DEF ref, path
LEMMA PlainIsLocated ==
  ASSUME NEW name \in Names, NEW within \in Seq(Names)
  PROVE  Located(within, Plain(name)) = Append(within, name)
  <1>1. /\ Plain(name).segments = <<name>> /\ Plain(name).absolute = FALSE
        /\ <<name>> \in Seq(Names)
    BY DEF Plain
  <1>2. Located(within, Plain(name)) = within \o <<name>>
    BY <1>1, NamesAreLocated
  <1> QED BY <1>2, AppendIsConcat

\* The innermost system that has a plain name decides what Climb answers.
LEMMA ClimbIsScoped ==
  ASSUME NamespaceInv, NEW t \in Tables, NEW name \in Names
  PROVE  \A s \in 1..Len(systems) :
            LET having == {x \in Ancestors(s) : At(Append(systems[x].path, name), t) # {}}
            IN  /\ having = {} => Climb(Plain(name), s, t) = 0
                /\ having # {} =>
                      \E x \in having :
                         /\ \A y \in having : Len(systems[y].path) <= Len(systems[x].path)
                         /\ Climb(Plain(name), s, t) \in At(Append(systems[x].path, name), t)
                         /\ Climb(Plain(name), s, t) # 0
  <1> DEFINE L == Len(systems)
             Long(x) == Len(systems[x].path)
             Has(x) == At(Append(systems[x].path, name), t)
             C(s) == Climb(Plain(name), s, t)
             Having(s) == {x \in Ancestors(s) : Has(x) # {}}
             Scoped(s) == /\ \A x \in Ancestors(s) : x \in 1..L /\ Long(x) <= Long(s)
                          /\ Having(s) = {} => C(s) = 0
                          /\ Having(s) # {} =>
                                \E x \in Having(s) :
                                   /\ \A y \in Having(s) : Long(y) <= Long(x)
                                   /\ C(s) \in Has(x) /\ C(s) # 0
             S == {s \in 0..L : Scoped(s)}
  <1>1. L \in Nat /\ \A s \in 1..L : /\ systems[s].parent \in 0..(s - 1)
                                     /\ systems[s].path \in Seq(Names)
                                     /\ systems[s].parent # 0 =>
                                           Long(s) = Long(systems[s].parent) + 1
    BY DEF NamespaceInv, SystemsNest, IsList
  <1>2. /\ Ancestors(0) = {}
        /\ \A s \in 1..L : Ancestors(s) = {s} \cup Ancestors(systems[s].parent)
    BY AncestorsUnfold DEF NamespaceInv
  <1>3. IsList(definitions) /\ QualifiedAgrees(t) /\ SystemsNest
    BY DEF NamespaceInv, DefinitionsArePlaced, TablesAgree
  <1>4. C(0) = 0
    BY <1>3, ClimbUnfold
  <1>5. ASSUME NEW s \in 1..L
        PROVE  /\ Has(s) # {} => C(s) \in Has(s) /\ C(s) # 0
               /\ Has(s) = {} => C(s) = C(systems[s].parent)
    <2> DEFINE path == Append(systems[s].path, name)
               found == Lookup(qualified[t], path)
    <2>1. Located(systems[s].path, Plain(name)) = path
      BY <1>1, PlainIsLocated
    <2>2. C(s) = IF found # 0 THEN found ELSE C(systems[s].parent)
      BY <1>3, <2>1, ClimbUnfold
    <2>3. /\ Has(s) = {} => found = 0
          /\ Has(s) # {} => found \in Has(s) /\ found # 0
      BY <1>3, LookupAt
    <2> QED BY <2>2, <2>3
  <1>6. \A s \in 1..L : Long(s) \in Nat
    BY <1>1
  <1> HIDE DEF L, Long, Has, C
  <1>7. Scoped(0)
    BY <1>2, <1>4
  <1>8. ASSUME NEW s \in 1..L, Scoped(systems[s].parent)
        PROVE  Scoped(s)
    <2> DEFINE p == systems[s].parent
    <2>1. p \in 0..L /\ (p = 0 \/ (p \in 1..L /\ Long(s) = Long(p) + 1))
      BY <1>1
    <2>2. Ancestors(s) = {s} \cup Ancestors(p)
      BY <1>2
    <2>3. \A x \in Ancestors(p) : x \in 1..L /\ Long(x) <= Long(s)
      <3> SUFFICES ASSUME NEW x \in Ancestors(p) PROVE x \in 1..L /\ Long(x) <= Long(s)
        OBVIOUS
      <3>1. p # 0 /\ x \in 1..L /\ Long(x) <= Long(p)
        BY <1>2, <1>8
      <3> QED BY <1>6, <2>1, <3>1
    <2>4. \A x \in Ancestors(s) : x \in 1..L /\ Long(x) <= Long(s)
      BY <1>6, <2>2, <2>3
    <2>5. CASE Has(s) # {}
      <3>1. s \in Having(s) /\ C(s) \in Has(s) /\ C(s) # 0
        BY <1>5, <2>2, <2>5
      <3>2. \A y \in Having(s) : Long(y) <= Long(s)
        BY <2>4
      <3> QED BY <2>4, <3>1, <3>2
    <2>6. CASE Has(s) = {}
      <3>1. Having(s) = Having(p) /\ C(s) = C(p)
        BY <1>5, <2>2, <2>6
      <3> QED BY <1>8, <2>4, <3>1
    <2> QED BY <2>5, <2>6
  <1>9. 0..L \subseteq S
    <2>1. ASSUME NEW k \in 0..L, 0..(k - 1) \subseteq S PROVE k \in S
      <3>1. CASE k = 0
        BY <1>7, <3>1
      <3>2. CASE k # 0
        <4>1. k \in 1..L /\ systems[k].parent \in 0..(k - 1)
          BY <1>1, <3>2
        <4>2. Scoped(systems[k].parent)
          BY <2>1, <4>1
        <4>3. Scoped(k)
          BY <1>8, <4>1, <4>2
        <4> QED BY <4>3
      <3> QED BY <3>1, <3>2
    <2> HIDE DEF S
    <2> QED BY <1>1, <2>1, CourseOfValues
  <1>10. \A s \in 1..L : Scoped(s)
    <2>1. \A s \in 1..L : s \in 0..L
      BY <1>1
    <2> HIDE DEF Scoped
    <2> QED BY <1>9, <2>1
  <1> QED BY <1>10 DEF L, Long, Has, C
\* An unqualified name is the first definition's that has it.
LEMMA FirstByLeaf ==
  ASSUME NamespaceInv, NEW t \in Tables, NEW name
  PROVE  /\ Lookup(leaf[t], name) = SetMin(LooseNamed(t, name))
         /\ LooseNamed(t, name) # {} =>
               /\ Lookup(leaf[t], name) \in LooseNamed(t, name)
               /\ \A i \in LooseNamed(t, name) : Lookup(leaf[t], name) <= i
  <1> DEFINE S == LooseNamed(t, name)
             m == leaf[t][name]
  <1>1. S \subseteq Int
    <2>1. IsList(definitions)
      BY DEF NamespaceInv, DefinitionsArePlaced
    <2>2. In(t) \subseteq 1..Len(definitions)
      BY <2>1, ListDomain DEF In
    <2> QED BY <2>2 DEF LooseNamed, Loose
  <1>2. /\ name \in DOMAIN leaf[t] <=> S # {}
        /\ name \in DOMAIN leaf[t] => m \in S /\ \A i \in S : m <= i
    <2>1. LeafAgrees(t)
      BY DEF NamespaceInv, TablesAgree
    <2> QED BY <2>1 DEF LeafAgrees, LooseNamed
  <1>3. CASE S = {}
    BY <1>2, <1>3 DEF Lookup, SetMin
  <1>4. CASE S # {}
    <2>1. Lookup(leaf[t], name) = m /\ m \in S /\ \A i \in S : m <= i
      BY <1>2, <1>4 DEF Lookup
    <2> HIDE DEF S, m
    <2>2. SetMin(S) = CHOOSE i \in S : \A j \in S : i <= j
      BY <1>4 DEF SetMin
    <2>3. SetMin(S) \in S /\ \A j \in S : SetMin(S) <= j
      BY <2>1, <2>2
    <2>4. SetMin(S) = m
      <3>1. SetMin(S) \in Int /\ m \in Int /\ SetMin(S) <= m /\ m <= SetMin(S)
        BY <1>1, <2>1, <2>3
      <3> QED BY <3>1
    <2> QED BY <2>1, <2>4 DEF S
  <1> QED BY <1>3, <1>4

\* In a document of one system the table of unqualified names decides at once,
\* and does not miss what is in the system itself.
LEMMA OneSystem ==
  ASSUME NamespaceInv, Len(systems) = 1, NEW t \in Tables, NEW name \in Names,
         At(Append(systems[1].path, name), t) # {}
  PROVE  Lookup(leaf[t], name) \in At(Append(systems[1].path, name), t)
  <1> DEFINE N == Len(definitions)
             d == definitions
             m == Lookup(leaf[t], name)
             home == systems[1].path
  <1>1. IsList(d) /\ N \in Nat /\ DOMAIN d = 1..N
    BY ListDomain DEF NamespaceInv, DefinitionsArePlaced, IsList
  <1>2. home \in Seq(Names)
    BY DEF NamespaceInv, SystemsNest
  <1>3. /\ LastOf(Append(home, name)) = name
        /\ Len(Append(home, name)) = Len(home) + 1 /\ Len(home) \in Nat
    BY <1>2, LastAppended
  <1>4. \A i \in 1..N :
           IF d[i].owner = 0 THEN d[i].kind # "argument" /\ d[i].path = Append(home, LastOf(d[i].path))
           ELSE d[i].kind \in {"argument", "container"} /\ Len(d[i].path) = Len(home) + 2
    <2>1. \A i \in 1..N : Placed(d[i], systems)
      BY DEF NamespaceInv, DefinitionsArePlaced
    <2>2. \A i \in 1..N : d[i].system = 1
      BY <2>1 DEF Placed
    <2> QED BY <2>1, <2>2 DEF Placed
  <1>5. PICK j \in In(t) : d[j].path = Append(home, name)
    BY DEF At
  <1>6. \A i \in In(t) : i \in 1..N /\ t \in TablesOf(d[i].kind)
    BY <1>1 DEF In
  <1>7. d[j].owner = 0 /\ d[j].kind # "argument"
    <2>1. d[j].owner = 0
      BY <1>3, <1>4, <1>5, <1>6
    <2> QED BY <1>4, <1>6, <2>1
  <1>8. j \in LooseNamed(t, name)
    BY <1>3, <1>5, <1>7 DEF LooseNamed, Loose
  <1>9. m \in LooseNamed(t, name) /\ m <= j
    BY <1>8, FirstByLeaf
  <1>10. /\ m \in In(t) /\ d[m].kind # "argument" /\ LastOf(d[m].path) = name
    BY <1>9 DEF LooseNamed, Loose
  <1>11. d[m].owner = 0
    <2> SUFFICES ASSUME d[m].owner # 0 PROVE FALSE
      OBVIOUS
    <2>1. d[m].kind = "container"
      BY <1>4, <1>6, <1>10
    <2>2. t = "container"
      BY <1>6, <1>10, <2>1 DEF TablesOf
    <2>3. d[j].kind = "container"
      BY <1>5, <1>6, <1>7, <2>2 DEF TablesOf
    <2>4. m # j /\ m \in 1..N /\ j \in 1..N
      BY <1>5, <1>6, <1>7, <1>10
    <2>5. j \in (m + 1)..N
      BY <1>1, <1>9, <2>4
    <2>6. d[m].system = d[j].system
      BY <2>4 DEF NamespaceInv, DefinitionsArePlaced, Placed
    <2>7. d[j].owner # 0 \/ d[j].kind = "command"
      BY <2>4, <2>5, <2>6 DEF NamespaceInv, CommandsAreLast
    <2> QED BY <1>7, <2>3, <2>7
  <1> QED BY <1>4, <1>6, <1>10, <1>11 DEF At

\* What a plain name means is decided by where systems and definitions are.
LEMMA PlainIsScoped ==
  ASSUME NamespaceInv, NEW t \in Tables, NEW name \in Names, NEW s \in 1..Len(systems)
  PROVE  LET having == {x \in Ancestors(s) : At(Append(systems[x].path, name), t) # {}}
             loose  == {i \in In(t) : /\ LastOf(definitions[i].path) = name
                                      /\ definitions[i].kind # "argument"}
         IN  IF having # {}
             THEN \E x \in having :
                     /\ \A y \in having : Len(systems[y].path) <= Len(systems[x].path)
                     /\ Resolve(Plain(name), s, t) \in At(Append(systems[x].path, name), t)
             ELSE Resolve(Plain(name), s, t) = SetMin(loose)
  <1> DEFINE Has(x) == At(Append(systems[x].path, name), t)
             having == {x \in Ancestors(s) : Has(x) # {}}
             loose  == {i \in In(t) : /\ LastOf(definitions[i].path) = name
                                      /\ definitions[i].kind # "argument"}
             r == Resolve(Plain(name), s, t)
  <1>1. loose = LooseNamed(t, name)
    BY DEF LooseNamed, Loose
  <1>2. Lookup(leaf[t], name) = SetMin(loose)
    BY <1>1, FirstByLeaf
  <1>3. /\ Plain(name).segments = <<name>> /\ ~ Plain(name).absolute
        /\ LastOf(Plain(name).segments) = name /\ ~ IsPath(Plain(name))
    BY DEF Plain, LastOf, IsPath
  <1>4. /\ Len(systems) = 1 => r = Lookup(leaf[t], name)
        /\ Len(systems) # 1 =>
              r = IF Climb(Plain(name), s, t) # 0 THEN Climb(Plain(name), s, t)
                  ELSE Lookup(leaf[t], name)
    BY <1>3 DEF Resolve, ResolveByPath
  <1>5. /\ having = {} => Climb(Plain(name), s, t) = 0
        /\ having # {} =>
              \E x \in having :
                 /\ \A y \in having : Len(systems[y].path) <= Len(systems[x].path)
                 /\ Climb(Plain(name), s, t) \in Has(x) /\ Climb(Plain(name), s, t) # 0
    BY ClimbIsScoped
  <1> HIDE DEF r, loose
  <1>6. CASE Len(systems) # 1
    BY <1>2, <1>4, <1>5, <1>6 DEF r, loose
  <1>7. CASE Len(systems) = 1
    <2>1. having # {} => having = {1}
      <3>1. SystemsNest /\ s = 1 /\ systems[1].parent = 0
        <4>1. SystemsNest /\ s = 1
          BY <1>7 DEF NamespaceInv
        <4> QED BY <4>1 DEF SystemsNest
      <3>2. Ancestors(s) = {1}
        BY <3>1, AncestorsUnfold
      <3> QED BY <3>2
    <2>2. CASE having = {}
      BY <1>2, <1>4, <1>7, <2>2 DEF r, loose
    <2>3. CASE having # {}
      <3>1. having = {1}
        BY <2>1, <2>3
      <3>2. Has(1) # {}
        BY <3>1
      <3>3. r \in Has(1)
        BY <1>4, <1>7, <3>2, OneSystem
      <3>4. Len(systems[1].path) <= Len(systems[1].path)
        <4>1. systems[1].path \in Seq(Names)
          BY <1>7 DEF NamespaceInv, SystemsNest
        <4> QED BY <4>1
      <3> HIDE DEF Has
      <3>5. \E x \in having : /\ \A y \in having : Len(systems[y].path) <= Len(systems[x].path)
                              /\ r \in Has(x)
        BY <3>1, <3>3, <3>4
      <3> QED BY <2>3, <3>5 DEF r, loose, Has
    <2> QED BY <2>2, <2>3
  <1> QED BY <1>6, <1>7
\* One segment of a walk.
Step(w, segment) ==
    IF segment = Up THEN SubSeq(w, 1, Len(w) - 1)
    ELSE IF segment \in {Here, Blank} THEN w
    ELSE Append(w, segment)

\* Walked is the function its recursive definition means.
LEMMA WalkedUnfold ==
  ASSUME NEW S, NEW from \in Seq(S), NEW segments \in Seq(S)
  PROVE  \E walk : /\ walk[0] = from /\ Walked(from, segments) = walk[Len(segments)]
                   /\ \A k \in 1..Len(segments) : walk[k] = Step(walk[k - 1], segments[k])
  <1> DEFINE n == Len(segments)
             V == Seq(S)
             parent == [k \in 1..n |-> k - 1]
             step == [x \in (1..n) \X V |-> Step(x[2], segments[x[1]])]
             Solves(g) == g = [i \in 0..n |->
                                 IF i = 0 THEN from
                                 ELSE IF segments[i] = Up
                                      THEN SubSeq(g[i - 1], 1, Len(g[i - 1]) - 1)
                                 ELSE IF segments[i] \in {Here, Blank} THEN g[i - 1]
                                 ELSE Append(g[i - 1], segments[i])]
             walk == CHOOSE g : Solves(g)
  <1>0. n \in Nat /\ \A k \in 1..n : segments[k] \in S
    OBVIOUS
  <1>1. Walked(from, segments) = walk[n]
    BY DEF Walked
  <1> HIDE DEF n
  <1>2. \A w \in V : \A k \in 1..n : Step(w, segments[k]) \in V
    <2> SUFFICES ASSUME NEW w \in V, NEW k \in 1..n PROVE Step(w, segments[k]) \in V
      OBVIOUS
    <2>1. Append(w, segments[k]) \in V
      BY <1>0
    <2>2. SubSeq(w, 1, Len(w) - 1) \in V
      <3> DEFINE m == Len(w) - 1
      <3>1. 1 \in Int /\ m \in Int /\ \A i \in 1..m : w[i] \in S
        OBVIOUS
      <3> HIDE DEF m
      <3>2. SubSeq(w, 1, m) \in Seq(S)
        BY <3>1, SubSeqProperties
      <3> QED BY <3>2 DEF m
    <2> QED BY <2>1, <2>2 DEF Step
  <1>3. \E g \in [0..n -> V] : /\ g[0] = from
                                /\ \A k \in 1..n : g[k] = Step(g[k - 1], segments[k])
    <2>1. \A k \in 1..n : parent[k] = k - 1
      OBVIOUS
    <2>2. \A k \in 1..n : \A v \in V :
             step[<<k, v>>] = Step(v, segments[k]) /\ step[<<k, v>>] \in V
      <3> HIDE DEF V
      <3> QED BY <1>2
    <2> HIDE DEF V, parent, step
    <2>3. Earlier(parent, n) /\ StaysIn(V, step, n)
      BY <2>1, <2>2 DEF Earlier, StaysIn
    <2>4. from \in V
      BY DEF V
    <2>5. PICK g \in [0..n -> V] : Follows(g, from, parent, step, n)
      BY <1>0, <2>3, <2>4, TreeRecursion
    <2>6. g[0] = from /\ \A k \in 1..n : g[k] = step[<<k, g[parent[k]]>>]
      BY <2>5 DEF Follows
    <2>7. ASSUME NEW k \in 1..n PROVE g[k] = Step(g[k - 1], segments[k])
      <3>1. k - 1 \in 0..n /\ parent[k] = k - 1
        BY <1>0, <2>1
      <3>2. g[k - 1] \in V /\ g[k] = step[<<k, g[k - 1]>>]
        BY <2>5, <2>6, <3>1
      <3> QED BY <2>2, <3>2
    <2> QED BY <2>5, <2>6, <2>7
  <1>4. \A g : Solves(g) <=> g = [i \in 0..n |-> IF i = 0 THEN from
                                                  ELSE Step(g[i - 1], segments[i])]
    BY DEF Step
  <1>5. \E g : Solves(g)
    <2> HIDE DEF Solves
    <2>1. PICK g \in [0..n -> V] : /\ g[0] = from
                                   /\ \A k \in 1..n : g[k] = Step(g[k - 1], segments[k])
      BY <1>3
    <2>2. \A k \in 0..n : k = 0 \/ k \in 1..n
      BY <1>0
    <2>3. g = [i \in 0..n |-> IF i = 0 THEN from ELSE Step(g[i - 1], segments[i])]
      BY <2>1, <2>2
    <2> QED BY <1>4, <2>3
  <1> HIDE DEF Solves
  <1>6. Solves(walk)
    BY <1>5
  <1> HIDE DEF walk
  <1>7. walk = [i \in 0..n |-> IF i = 0 THEN from ELSE Step(walk[i - 1], segments[i])]
    BY <1>4, <1>6
  <1> HIDE DEF V
  <1>8. walk[0] = from /\ \A k \in 1..n : walk[k] = Step(walk[k - 1], segments[k])
    <2>1. 0 \in 0..n /\ \A k \in 1..n : k \in 0..n /\ k # 0
      BY <1>0
    <2> QED BY <1>7, <2>1
  <1> QED BY <1>1, <1>8 DEF n

\* What a reference can be made of.
Segments == Names \cup {Here, Up, Blank}

LEMMA WalkOfThree ==
  ASSUME NEW from \in Seq(Names), NEW x \in Segments, NEW y \in Segments, NEW z \in Segments
  PROVE  Walked(from, <<x, y, z>>) = Step(Step(Step(from, x), y), z)
  <1> DEFINE way == <<x, y, z>>
  <1>1. Len(way) = 3 /\ way[1] = x /\ way[2] = y /\ way[3] = z
    OBVIOUS
  <1>2. way \in Seq(Segments)
    OBVIOUS
  <1>3. from \in Seq(Segments)
    BY DEF Segments
  <1> HIDE DEF way
  <1>4. PICK walk :
           /\ walk[0] = from /\ Walked(from, way) = walk[Len(way)]
           /\ \A k \in 1..Len(way) : walk[k] = Step(walk[k - 1], way[k])
    BY <1>2, <1>3, WalkedUnfold
  <1>5. walk[1] = Step(walk[0], x) /\ walk[2] = Step(walk[1], y) /\ walk[3] = Step(walk[2], z)
    BY <1>1, <1>4
  <1> QED BY <1>4, <1>5 DEF way

LEMMA WalkOfFour ==
  ASSUME NEW from \in Seq(Names), NEW x \in Segments, NEW y \in Segments,
         NEW z \in Segments, NEW u \in Segments
  PROVE  Walked(from, <<x, y, z, u>>) = Step(Step(Step(Step(from, x), y), z), u)
  <1> DEFINE way == <<x, y, z, u>>
  <1>1. Len(way) = 4 /\ way[1] = x /\ way[2] = y /\ way[3] = z /\ way[4] = u
    OBVIOUS
  <1>2. way \in Seq(Segments)
    OBVIOUS
  <1>3. from \in Seq(Segments)
    BY DEF Segments
  <1> HIDE DEF way
  <1>4. PICK walk :
           /\ walk[0] = from /\ Walked(from, way) = walk[Len(way)]
           /\ \A k \in 1..Len(way) : walk[k] = Step(walk[k - 1], way[k])
    BY <1>2, <1>3, WalkedUnfold
  <1>5. /\ walk[1] = Step(walk[0], x) /\ walk[2] = Step(walk[1], y)
        /\ walk[3] = Step(walk[2], z) /\ walk[4] = Step(walk[3], u)
    BY <1>1, <1>4
  <1> QED BY <1>4, <1>5 DEF way

\* The end of a list and its front.
LEMMA StepIntoAndBack ==
  ASSUME NEW w \in Seq(Names), NEW name \in Names
  PROVE  /\ Step(w, name) = Append(w, name) /\ Append(w, name) \in Seq(Names)
         /\ Step(w, Here) = w /\ Step(w, Blank) = w
         /\ Step(Append(w, name), Up) = w
  <1>1. /\ name \notin {Here, Up, Blank} /\ Here # Up /\ Blank # Up
    BY NamesAreNoSegments
  <1>2. Append(w, name) \in Seq(Names)
    OBVIOUS
  <1>3. SubSeq(Append(w, name), 1, Len(Append(w, name)) - 1) = w
    <2> DEFINE v == Append(w, name)
               n == Len(v) - 1
    <2>1. /\ v \in Seq(Names) /\ Len(v) = Len(w) + 1 /\ Len(w) \in Nat
          /\ \A i \in 1..Len(w) : v[i] = w[i]
      BY AppendProperties
    <2>2. n = Len(w)
      BY <2>1
    <2> HIDE DEF v, n
    <2>3. 1 \in Int /\ n \in Int /\ \A i \in 1..n : v[i] \in Names
      BY <2>1, <2>2
    <2>4. /\ SubSeq(v, 1, n) \in Seq(Names)
          /\ Len(SubSeq(v, 1, n)) = IF 1 <= n THEN n - 1 + 1 ELSE 0
          /\ \A i \in 1..(n - 1 + 1) : SubSeq(v, 1, n)[i] = v[1 + i - 1]
      BY <2>3, SubSeqProperties
    <2>5. Len(SubSeq(v, 1, n)) = Len(w) /\ \A i \in 1..Len(w) : SubSeq(v, 1, n)[i] = w[i]
      BY <2>1, <2>2, <2>4
    <2>6. SubSeq(v, 1, n) = w
      BY <2>4, <2>5, SeqEqual
    <2> QED BY <2>6 DEF v, n
  <1>4. Step(w, name) = Append(w, name) /\ Step(w, Here) = w /\ Step(w, Blank) = w
    BY <1>1 DEF Step
  <1>5. Step(Append(w, name), Up) = w
    BY <1>3 DEF Step
  <1> QED BY <1>2, <1>4, <1>5

\* The detours, where they lead, and that they are paths that end alike.
Detours(name, last) ==
    {<<Here, name, last>>, <<name, Here, last>>, <<name, Blank, last>>,
     <<last, Up, name, last>>, <<name, last, Up, last>>}
Detour(way, last) ==
    /\ Len(way) > 1 /\ LastOf(way) = last
    /\ \E i \in DOMAIN way : way[i] \in {Here, Up} \/ (way[i] = Blank /\ i < Len(way))
LEMMA DetoursLead ==
  ASSUME NEW from \in Seq(Names), NEW name \in Names, NEW last \in Names
  PROVE  \A way \in Detours(name, last) :
            Walked(from, way) = Append(Append(from, name), last) /\ Detour(way, last)
  <1> DEFINE a == Append(from, name)
             b == Append(a, last)
             c == Append(from, last)
  <1>1. {name, last, Here, Up, Blank} \subseteq Segments
    BY DEF Segments
  <1>2. /\ a \in Seq(Names) /\ b \in Seq(Names) /\ c \in Seq(Names)
        /\ Step(from, name) = a /\ Step(from, last) = c /\ Step(a, last) = b
        /\ Step(from, Here) = from /\ Step(a, Here) = a /\ Step(a, Blank) = a
        /\ Step(c, Up) = from /\ Step(b, Up) = a
    BY StepIntoAndBack
  <1> HIDE DEF a, b, c
  <1>3. Walked(from, <<Here, name, last>>) = b
    BY <1>1, <1>2, WalkOfThree
  <1>4. Walked(from, <<name, Here, last>>) = b
    BY <1>1, <1>2, WalkOfThree
  <1>5. Walked(from, <<name, Blank, last>>) = b
    BY <1>1, <1>2, WalkOfThree
  <1>6. Walked(from, <<last, Up, name, last>>) = b
    BY <1>1, <1>2, WalkOfFour
  <1>7. Walked(from, <<name, last, Up, last>>) = b
    BY <1>1, <1>2, WalkOfFour
  <1>8. ASSUME NEW x, NEW y, NEW z, x = Here \/ y \in {Here, Blank}
        PROVE  Detour(<<x, y, z>>, z)
    BY <1>8 DEF LastOf, Detour
  <1>9. ASSUME NEW x, NEW y, NEW z, NEW u, y = Up \/ z = Up
        PROVE  Detour(<<x, y, z, u>>, u)
    BY <1>9 DEF LastOf, Detour
  <1> DEFINE Good(way) == Walked(from, way) = b /\ Detour(way, last)
  <1>10. /\ Good(<<Here, name, last>>) /\ Good(<<name, Here, last>>)
         /\ Good(<<name, Blank, last>>)
    BY <1>3, <1>4, <1>5, <1>8
  <1>11. Good(<<last, Up, name, last>>) /\ Good(<<name, last, Up, last>>)
    BY <1>6, <1>7, <1>9
  <1> HIDE DEF Good
  <1>12. \A way \in Detours(name, last) : Good(way)
    BY <1>10, <1>11 DEF Detours
  <1> QED BY <1>12 DEF Good, a, b

LEMMA PathResolves ==
  ASSUME NEW ref, Len(ref.segments) > 1, NEW s, NEW t
  PROVE  LET found == Lookup(qualified[t], Located(systems[s].path, ref))
         IN  Resolve(ref, s, t) = IF found # 0 THEN found
                                  ELSE Lookup(leaf[t], LastOf(ref.segments))
  BY DEF Resolve, ResolveByPath, IsPath

LEMMA DetoursAreEqual ==
  ASSUME NamespaceInv, NEW t \in Tables, NEW name \in Names, NEW last \in Names,
         NEW absolute \in BOOLEAN, NEW s \in 1..Len(systems),
         NEW way \in Detours(name, last)
  PROVE  Resolve([absolute |-> absolute, segments |-> way], s, t)
            = Resolve([absolute |-> absolute, segments |-> <<name, last>>], s, t)
  <1> DEFINE home == systems[s].path
             from == IF absolute THEN <<>> ELSE home
             there == Append(Append(from, name), last)
             ref == [absolute |-> absolute, segments |-> way]
             two == <<name, last>>
             direct == [absolute |-> absolute, segments |-> two]
  <1>1. from \in Seq(Names)
    BY DEF NamespaceInv, SystemsNest
  <1>2. /\ ref.absolute = absolute /\ ref.segments = way
        /\ direct.absolute = absolute /\ direct.segments = two
    OBVIOUS
  <1>3. Walked(from, way) = there /\ Detour(way, last)
    <2> HIDE DEF from
    <2> QED BY <1>1, DetoursLead
  <1>4. two \in Seq(Names) /\ Len(two) = 2 /\ LastOf(two) = last
    BY DEF LastOf
  <1>5. from \o two = there
    <2> HIDE DEF from
    <2> DEFINE one == <<name>>
               other == <<last>>
               both == one \o other
    <2>1. /\ one \in Seq(Names) /\ other \in Seq(Names)
          /\ Len(one) = 1 /\ Len(other) = 1 /\ one[1] = name /\ other[1] = last
          /\ two \in Seq(Names) /\ Len(two) = 2 /\ two[1] = name /\ two[2] = last
      OBVIOUS
    <2> HIDE DEF one, other, two
    <2>2. /\ both \in Seq(Names) /\ Len(both) = Len(one) + Len(other)
          /\ \A i \in 1..(Len(one) + Len(other)) :
                both[i] = IF i <= Len(one) THEN one[i] ELSE other[i - Len(one)]
      BY <2>1, ConcatProperties
    <2> HIDE DEF both
    <2>3. Len(both) = 2 /\ both[1] = name /\ both[2] = last
      BY <2>1, <2>2
    <2>4. \A i \in 1..2 : both[i] = two[i]
      BY <2>1, <2>3
    <2>5. two = both
      BY <2>1, <2>4, <2>3, <2>2, SeqEqual
    <2>6. <<name>> \in Seq(Names) /\ <<last>> \in Seq(Names) /\ two = <<name>> \o <<last>>
      BY <2>1, <2>5 DEF one, other, both
    <2>7. Append(from, name) = from \o <<name>> /\ Append(from, name) \in Seq(Names)
      BY <1>1, AppendIsConcat
    <2>8. there = (from \o <<name>>) \o <<last>>
      BY <2>7, AppendIsConcat
    <2> QED BY <1>1, <2>6, <2>8, ConcatAssociative
  <1> HIDE DEF ref, direct, two, from, there
  <1>6. Located(home, ref) = there
    <2>1. NeedsNormalising(ref)
      BY <1>2, <1>3 DEF NeedsNormalising, Detour
    <2> QED BY <1>2, <1>3, <2>1 DEF Located, from
  <1>7. Located(home, direct) = there
    <2>1. Located(home, direct) = from \o two
      BY <1>2, <1>4, NamesAreLocated DEF from
    <2> QED BY <1>5, <2>1
  <1>8. Resolve(ref, s, t) = Resolve(direct, s, t)
    <2> DEFINE found == Lookup(qualified[t], there)
    <2>1. Len(ref.segments) > 1 /\ LastOf(ref.segments) = last
      BY <1>2, <1>3 DEF Detour
    <2>2. Len(direct.segments) > 1 /\ LastOf(direct.segments) = last
      BY <1>2, <1>4
    <2>3. Resolve(ref, s, t) = IF found # 0 THEN found ELSE Lookup(leaf[t], last)
      BY <1>6, <2>1, PathResolves
    <2>4. Resolve(direct, s, t) = IF found # 0 THEN found ELSE Lookup(leaf[t], last)
      BY <1>7, <2>2, PathResolves
    <2> QED BY <2>3, <2>4
  <1> QED BY <1>8 DEF ref, direct, two
-------------------------------------------------------------------------------
\* Every definition that is registered is found from everywhere by its
\* qualified name, in each table it is for, whatever the document.
THEOREM NamesAreFound == NamespaceSpec => []DefinitionsAreFound
  <1>1. NamespaceInv => DefinitionsAreFound
    BY FoundByPath DEF DefinitionsAreFound
  <1> QED BY NamesAreKept, <1>1, PTL

\* The smallest of some numbers, 0 if there is none.
LEMMA SetMinIs ==
  ASSUME NEW S, S \subseteq Nat
  PROVE  /\ S = {} => SetMin(S) = 0
         /\ S # {} => SetMin(S) \in S /\ \A i \in S : SetMin(S) <= i
  <1>1. CASE S = {}
    BY <1>1 DEF SetMin
  <1>2. CASE S # {}
    <2>1. \E m \in S : \A i \in S : m <= i
      BY <1>2, Least
    <2>2. SetMin(S) = CHOOSE i \in S : \A j \in S : i <= j
      BY <1>2 DEF SetMin
    <2>3. SetMin(S) \in S /\ \A i \in S : SetMin(S) <= i
      BY <2>1, <2>2
    <2> QED BY <1>2, <2>3
  <1> QED BY <1>1, <1>2

\* The first definition with a name is outside of the commands, when every
\* private container with it comes after one that is.
LEMMA FirstIsOutside ==
  ASSUME NamespaceInv, NEW t \in Tables, NEW name,
         \A i \in Private(t, name) : \E j \in Outside(t, name) : j < i
  PROVE  SetMin(LooseNamed(t, name)) = SetMin(Outside(t, name))
  <1> DEFINE L == LooseNamed(t, name)
             O == Outside(t, name)
             P == Private(t, name)
  <1>1. In(t) \subseteq 1..Len(definitions) /\ Len(definitions) \in Nat
    <2>1. IsList(definitions)
      BY DEF NamespaceInv, DefinitionsArePlaced
    <2> QED BY <2>1, ListDomain DEF In, IsList
  <1>2. \A i \in In(t) :
           /\ definitions[i].owner = 0 => definitions[i].kind # "argument"
           /\ definitions[i].owner # 0 => definitions[i].kind \in {"argument", "container"}
    BY <1>1 DEF NamespaceInv, DefinitionsArePlaced, Placed
  <1>3. L = O \cup P
    BY <1>2 DEF LooseNamed, Loose, Outside, Private
  <1>4. L \subseteq Nat /\ O \subseteq Nat
    BY <1>1 DEF LooseNamed, Loose, Outside
  <1>5. \A i \in P : \E j \in O : j < i
    OBVIOUS
  <1> HIDE DEF L, O, P
  <1>6. CASE O = {}
    <2>1. L = O
      BY <1>3, <1>5, <1>6
    <2> QED BY <2>1 DEF L, O
  <1>7. CASE O # {}
    <2>1. SetMin(O) \in O /\ \A i \in O : SetMin(O) <= i
      BY <1>4, <1>7, SetMinIs
    <2>2. SetMin(L) \in L /\ \A i \in L : SetMin(L) <= i
      BY <1>3, <1>4, <1>7, SetMinIs
    <2>3. SetMin(L) \in O
      <3>1. ASSUME SetMin(L) \in P PROVE FALSE
        <4>1. PICK j \in O : j < SetMin(L)
          BY <1>5, <3>1
        <4>2. SetMin(L) <= j
          BY <1>3, <2>2, <4>1
        <4>3. SetMin(L) \in Nat /\ j \in Nat
          BY <1>4, <2>2
        <4>4. \A m, n \in Nat : ~ (m < n /\ n <= m)
          OBVIOUS
        <4> QED BY <4>1, <4>2, <4>3, <4>4
      <3> QED BY <1>3, <2>2, <3>1
    <2>4. SetMin(O) <= SetMin(L) /\ SetMin(L) <= SetMin(O)
      BY <1>3, <2>1, <2>2, <2>3
    <2>5. SetMin(L) = SetMin(O)
      <3>1. SetMin(L) \in Nat /\ SetMin(O) \in Nat
        BY <1>4, <2>1, <2>2
      <3>2. \A m, n \in Nat : m <= n /\ n <= m => m = n
        OBVIOUS
      <3> QED BY <2>4, <3>1, <3>2
    <2> QED BY <2>5 DEF L, O
  <1> QED BY <1>6, <1>7

\* The innermost system that has a plain name gives it its meaning, and when
\* none has, the first definition of the document outside of the commands, in
\* a document of any depth (resolve in lower.rs).
THEOREM ScopesHold == NamespaceSpec => []PlainNamesAreScoped
  <1>1. NamespaceInv => PlainNamesAreScoped
    <2> SUFFICES ASSUME NamespaceInv, NEW t \in Used, NEW name \in Names,
                        NEW s \in DOMAIN systems
                 PROVE  LET Has(x) == At(Append(systems[x].path, name), t)
                            having == {x \in Ancestors(s) : Has(x) # {}}
                        IN  (\A x \in having : Has(x) \subseteq Outside(t, name)) =>
                            /\ having # {} =>
                                 \E x \in having :
                                   /\ \A y \in having :
                                        Len(systems[y].path) <= Len(systems[x].path)
                                   /\ Resolve(Plain(name), s, t) \in Has(x)
                            /\ (/\ having = {}
                                /\ \A i \in Private(t, name) :
                                     \E j \in Outside(t, name) : j < i) =>
                                 Resolve(Plain(name), s, t) = SetMin(Outside(t, name))
      BY DEF PlainNamesAreScoped
    <2>1. t \in Tables /\ s \in 1..Len(systems)
      BY ListDomain DEF NamespaceInv, SystemsNest, Used
    <2> DEFINE Has(x) == At(Append(systems[x].path, name), t)
               having == {x \in Ancestors(s) : Has(x) # {}}
               loose  == {i \in In(t) : /\ LastOf(definitions[i].path) = name
                                        /\ definitions[i].kind # "argument"}
    <2>2. IF having # {}
          THEN \E x \in having :
                  /\ \A y \in having : Len(systems[y].path) <= Len(systems[x].path)
                  /\ Resolve(Plain(name), s, t) \in Has(x)
          ELSE Resolve(Plain(name), s, t) = SetMin(loose)
      BY <2>1, PlainIsScoped
    <2>3. loose = LooseNamed(t, name)
      BY DEF LooseNamed, Loose
    <2>4. (\A i \in Private(t, name) : \E j \in Outside(t, name) : j < i) =>
             SetMin(loose) = SetMin(Outside(t, name))
      BY <2>1, <2>3, FirstIsOutside
    <2> HIDE DEF having, loose
    <2> QED BY <2>2, <2>4 DEF having
  <1> QED BY NamesAreKept, <1>1, PTL

\* A detour leaves the meaning of a path alone.
THEOREM DetoursHold == NamespaceSpec => []DetoursDoNotMatter
  <1>1. NamespaceInv => DetoursDoNotMatter
    <2> SUFFICES ASSUME NamespaceInv PROVE DetoursDoNotMatter
      OBVIOUS
    <2>1. DOMAIN systems = 1..Len(systems) /\ Used \subseteq Tables
      BY ListDomain DEF NamespaceInv, SystemsNest, Used
    <2>2. ASSUME NEW t \in Used, NEW name \in Names, NEW last \in Names,
                 NEW absolute \in BOOLEAN, NEW s \in DOMAIN systems,
                 NEW way \in {<<Here, name, last>>, <<name, Here, last>>, <<name, Blank, last>>,
                              <<last, Up, name, last>>, <<name, last, Up, last>>}
          PROVE  Resolve([absolute |-> absolute, segments |-> way], s, t)
                    = Resolve([absolute |-> absolute, segments |-> <<name, last>>], s, t)
      <3>1. t \in Tables /\ s \in 1..Len(systems)
        BY <2>1
      <3> QED BY <3>1, DetoursAreEqual DEF Detours
    <2> QED BY <2>2, Zenon DEF DetoursDoNotMatter
  <1> QED BY NamesAreKept, <1>1, PTL
-------------------------------------------------------------------------------
\* What a list of fields and a list of numbers are built from.
FieldLists(S) == [ok : BOOLEAN, types : Seq(S)]

\* Together is the function its recursive definition means.
LEMMA TogetherUnfold ==
  ASSUME NEW S, NEW parts, IsList(parts),
         \A i \in 1..Len(parts) : parts[i] \in FieldLists(S)
  PROVE  \E joined \in [0..Len(parts) -> FieldLists(S)] :
           /\ Together(parts) = joined[Len(parts)]
           /\ joined[0] = [ok |-> TRUE, types |-> <<>>]
           /\ \A i \in 1..Len(parts) :
                 joined[i] = IF joined[i - 1].ok /\ parts[i].ok
                             THEN [ok |-> TRUE,
                                   types |-> joined[i - 1].types \o parts[i].types]
                             ELSE NotExpanded
  <1> DEFINE n == Len(parts)
             V == FieldLists(S)
             none == [ok |-> TRUE, types |-> <<>>]
             Next1(before, i) == IF before.ok /\ parts[i].ok
                                 THEN [ok |-> TRUE, types |-> before.types \o parts[i].types]
                                 ELSE NotExpanded
             parent == [k \in 1..n |-> k - 1]
             step == [x \in (1..n) \X V |-> Next1(x[2], x[1])]
             Solves(g) == g = [i \in 0..Len(parts) |->
                                 IF i = 0 THEN [ok |-> TRUE, types |-> <<>>]
                                 ELSE IF g[i - 1].ok /\ parts[i].ok
                                 THEN [ok |-> TRUE, types |-> g[i - 1].types \o parts[i].types]
                                 ELSE NotExpanded]
             joined == CHOOSE g : Solves(g)
  <1>1. Together(parts) = joined[n] /\ n \in Nat
    BY DEF Together, IsList
  <1> HIDE DEF n
  <1>2. none \in V /\ NotExpanded \in V
    BY DEF FieldLists, NotExpanded
  <1>3. \A k \in 1..n : \A v \in V : Next1(v, k) \in V
    <2> SUFFICES ASSUME NEW k \in 1..n, NEW v \in V PROVE Next1(v, k) \in V
      OBVIOUS
    <2>1. v.types \in Seq(S) /\ parts[k].types \in Seq(S)
      BY DEF FieldLists, n
    <2>2. v.types \o parts[k].types \in Seq(S)
      BY <2>1, ConcatProperties
    <2>3. [ok |-> TRUE, types |-> v.types \o parts[k].types] \in V
      BY <2>2 DEF FieldLists
    <2> QED BY <1>2, <2>3
  <1>4. \E g \in [0..n -> V] : g[0] = none /\ \A k \in 1..n : g[k] = Next1(g[k - 1], k)
    <2>1. \A k \in 1..n : parent[k] = k - 1 /\ k - 1 \in 0..n /\ k - 1 \in 0..(k - 1)
      BY <1>1
    <2>2. \A k \in 1..n : \A v \in V : step[<<k, v>>] = Next1(v, k)
      OBVIOUS
    <2> HIDE DEF V, parent, step, Next1, none
    <2>3. Earlier(parent, n) /\ StaysIn(V, step, n)
      BY <1>3, <2>1, <2>2 DEF Earlier, StaysIn
    <2>4. PICK g \in [0..n -> V] : Follows(g, none, parent, step, n)
      BY <1>1, <1>2, <2>3, TreeRecursion
    <2>5. g[0] = none /\ \A k \in 1..n : g[k] = step[<<k, g[parent[k]]>>]
      BY <2>4 DEF Follows
    <2>6. \A k \in 1..n : g[k] = Next1(g[k - 1], k)
      BY <2>1, <2>2, <2>4, <2>5
    <2> QED BY <2>4, <2>5, <2>6
  <1> HIDE DEF V
  <1>5. \A k \in 0..n : k = 0 \/ k \in 1..n
    BY <1>1
  <1>6. \E g : Solves(g)
    <2>1. PICK g \in [0..n -> V] : g[0] = none /\ \A k \in 1..n : g[k] = Next1(g[k - 1], k)
      BY <1>4
    <2>2. g = [i \in 0..n |-> IF i = 0 THEN none ELSE Next1(g[i - 1], i)]
      <3> HIDE DEF none, Next1
      <3> QED BY <1>5, <2>1
    <2>3. Solves(g)
      BY <2>2, Zenon DEF n
    <2> QED BY <2>3
  <1> HIDE DEF Solves
  <1>7. Solves(joined)
    BY <1>6, Zenon
  <1> HIDE DEF joined
  <1>8. joined = [i \in 0..n |-> IF i = 0 THEN none ELSE Next1(joined[i - 1], i)]
    BY <1>7 DEF Solves, n
  <1> HIDE DEF none, Next1
  <1>9. joined[0] = none /\ \A k \in 1..n : joined[k] = Next1(joined[k - 1], k)
    <2>1. 0 \in 0..n /\ \A k \in 1..n : k \in 0..n /\ k # 0
      BY <1>1
    <2> QED BY <1>8, <2>1
  <1>10. joined \in [0..n -> V]
    <2> DEFINE T == {k \in 0..n : joined[k] \in V}
    <2>1. 0 \in T
      BY <1>1, <1>2, <1>9
    <2>2. ASSUME NEW k \in 1..n, k - 1 \in T PROVE k \in T
      BY <1>1, <1>3, <1>9, <2>2
    <2> HIDE DEF T
    <2>3. 0..n \subseteq T
      BY <1>1, <2>1, <2>2, InductionTo
    <2>4. \A k \in 0..n : joined[k] \in V
      BY <2>3 DEF T
    <2>5. joined = [k \in 0..n |-> joined[k]]
      BY <1>8
    <2> QED BY <2>4, <2>5
  <1> QED BY <1>1, <1>9, <1>10 DEF none, Next1, V, n

\* The largest of a set of numbers.
LEMMA LargestIs ==
  ASSUME NEW n \in Nat, NEW s \in SUBSET (1..n), s # {}
  PROVE  /\ Max(s) \in s
         /\ \A y \in s : Max(s) >= y
  <1> DEFINE T == {k \in Nat : \A y \in s : y <= k}
  <1>1. n \in T
    OBVIOUS
  <1>2. PICK m \in T : \A k \in T : m <= k
    <2> HIDE DEF T
    <2>1. T \subseteq Nat /\ T # {}
      BY <1>1 DEF T
    <2> QED BY <2>1, Least
  <1>3. m \in s
    <2> SUFFICES ASSUME m \notin s PROVE FALSE
      OBVIOUS
    <2>1. \A y \in s : y <= m - 1 /\ y \in Nat /\ y >= 1
      BY <1>2
    <2>2. PICK y \in s : TRUE
      OBVIOUS
    <2>3. m - 1 \in Nat
      BY <1>2, <2>1, <2>2
    <2>4. m - 1 \in T
      BY <2>1, <2>3
    <2> QED BY <1>2, <2>3, <2>4
  <1>4. \E x \in s : \A y \in s : x >= y
    BY <1>2, <1>3
  <1> QED BY <1>4 DEF Max

\* Total adds up, one number after the other.
LEMMA TotalUnfold ==
  ASSUME NEW s, NEW n \in Nat, DOMAIN s = 1..n, \A i \in 1..n : s[i] \in Nat
  PROVE  \E sum \in [0..n -> Nat] :
           /\ Total(s) = sum[n] /\ sum[0] = 0
           /\ \A i \in 1..n : sum[i] = sum[i - 1] + s[i]
  <1> DEFINE D == SUBSET (1..n)
             level == [t \in D |-> Cardinality(t)]
             Plus(t, g) == IF t = {} THEN 0 ELSE s[Max(t)] + g[t \ {Max(t)}]
             step == [x \in D \X [D -> Nat] |-> Plus(x[1], x[2])]
             Solves(g) == g = [t \in D |-> IF t = {} THEN 0
                                           ELSE LET x == Max(t) IN g[t \ {x}] + s[x]]
             iter == CHOOSE g : Solves(g)
  <1>1. Total(s) = iter[1..n]
    BY DEF Total, FoldLeft, MapThenFoldSet
  <1>2. \A t \in D : /\ IsFiniteSet(t) /\ Cardinality(t) \in 0..n
                     /\ t # {} => /\ Max(t) \in t /\ t \ {Max(t)} \in D
                                  /\ Cardinality(t \ {Max(t)}) < Cardinality(t)
    <2> SUFFICES ASSUME NEW t \in D
                 PROVE  /\ IsFiniteSet(t) /\ Cardinality(t) \in 0..n
                        /\ t # {} => /\ Max(t) \in t /\ t \ {Max(t)} \in D
                                     /\ Cardinality(t \ {Max(t)}) < Cardinality(t)
      OBVIOUS
    <2>1. IsFiniteSet(1..n) /\ Cardinality(1..n) = n
      BY FS_Interval
    <2>2. IsFiniteSet(t) /\ Cardinality(t) <= n
      <3> DEFINE all == 1..n
      <3>1. t \in SUBSET all /\ IsFiniteSet(all) /\ Cardinality(all) = n
        BY <2>1
      <3> HIDE DEF all
      <3> QED BY <3>1, FS_Subset
    <2>3. Cardinality(t) \in Nat
      BY <2>2, FS_CardinalityType
    <2>4. t # {} => Max(t) \in t
      BY LargestIs
    <2>5. t # {} => Cardinality(t \ {Max(t)}) = Cardinality(t) - 1
      BY <2>2, <2>4, FS_RemoveElement
    <2>6. t \ {Max(t)} \in D
      OBVIOUS
    <2> DEFINE size == Cardinality(t)
               less == Cardinality(t \ {Max(t)})
    <2>7. size \in 0..n /\ (t # {} => less < size)
      <3>1. size \in Nat /\ size <= n /\ (t # {} => less = size - 1)
        BY <2>2, <2>3, <2>5
      <3> HIDE DEF size, less
      <3> QED BY <3>1
    <2> HIDE DEF D
    <2> QED BY <2>2, <2>4, <2>6, <2>7
  <1>3. ASSUME NEW t \in D, NEW g \in [D -> Nat] PROVE Plus(t, g) \in Nat
    <2>1. t # {} => Max(t) \in 1..n /\ t \ {Max(t)} \in D
      BY <1>2
    <2>2. t # {} => s[Max(t)] \in Nat
      BY <2>1
    <2> HIDE DEF D
    <2>3. t # {} => g[t \ {Max(t)}] \in Nat
      BY <2>1
    <2> QED BY <2>2, <2>3
  <1>4. \E g \in [D -> Nat] : \A t \in D : g[t] = Plus(t, g)
    <2>1. \A t \in D, g \in [D -> Nat] : step[<<t, g>>] = Plus(t, g)
      OBVIOUS
    <2>2. Leveled(level, D, n)
      BY <1>2 DEF Leveled
    <2>3. ASSUME NEW t \in D, NEW g \in [D -> Nat], NEW h \in [D -> Nat],
                 Alike(g, h, level, D, t)
          PROVE  Plus(t, g) = Plus(t, h)
      <3>1. t # {} => level[t \ {Max(t)}] < level[t]
        BY <1>2
      <3> QED BY <1>2, <2>3, <3>1 DEF Alike
    <2> HIDE DEF D, level, step, Plus
    <2>4. StaysWithin(step, D, Nat)
      BY <1>3, <2>1 DEF StaysWithin
    <2>5. LooksDown(step, level, D, Nat)
      BY <2>1, <2>3 DEF LooksDown
    <2>6. 0 \in Nat
      OBVIOUS
    <2>7. \E g \in [D -> Nat] : Obeys(g, step, D)
      BY <2>2, <2>4, <2>5, <2>6, LevelRecursion
    <2> QED BY <2>1, <2>7 DEF Obeys
  <1>5. \E g : Solves(g)
    <2>1. PICK g \in [D -> Nat] : \A t \in D : g[t] = Plus(t, g)
      BY <1>4
    <2>2. \A t \in D : Plus(t, g) = IF t = {} THEN 0 ELSE g[t \ {Max(t)}] + s[Max(t)]
      <3> SUFFICES ASSUME NEW t \in D
                   PROVE  Plus(t, g) = IF t = {} THEN 0 ELSE g[t \ {Max(t)}] + s[Max(t)]
        OBVIOUS
      <3>1. CASE t = {}
        BY <3>1
      <3>2. CASE t # {}
        <4>1. g[t \ {Max(t)}] \in Nat /\ s[Max(t)] \in Nat
          BY <1>2, <2>1, <3>2
        <4> QED BY <3>2, <4>1
      <3> QED BY <3>1, <3>2
    <2>3. g = [t \in D |-> IF t = {} THEN 0 ELSE g[t \ {Max(t)}] + s[Max(t)]]
      <3> HIDE DEF D, Plus
      <3> QED BY <2>1, <2>2
    <2>4. Solves(g)
      BY <2>3
    <2> QED BY <2>4
  <1> HIDE DEF Solves
  <1>6. Solves(iter)
    BY <1>5
  <1> HIDE DEF iter
  <1>7. iter = [t \in D |-> IF t = {} THEN 0 ELSE iter[t \ {Max(t)}] + s[Max(t)]]
    BY <1>6 DEF Solves
  <1>8. iter[{}] = 0 /\ \A k \in 1..n : iter[1..k] = iter[1..(k - 1)] + s[k]
    <2>1. {} \in D /\ \A k \in 1..n : 1..k \in D
      OBVIOUS
    <2>2. ASSUME NEW k \in 1..n PROVE 1..k # {} /\ Max(1..k) = k /\ (1..k) \ {k} = 1..(k - 1)
      <3>1. 1..k \in SUBSET (1..n) /\ 1..k # {} /\ k \in 1..k
        OBVIOUS
      <3>2. Max(1..k) \in 1..k /\ \A y \in 1..k : Max(1..k) >= y
        BY <3>1, LargestIs
      <3>3. Max(1..k) = k
        BY <3>1, <3>2
      <3>4. (1..k) \ {k} = 1..(k - 1)
        OBVIOUS
      <3> QED BY <3>1, <3>3, <3>4
    <2> HIDE DEF D
    <2>3. iter[{}] = 0
      BY <1>7, <2>1
    <2>4. ASSUME NEW k \in 1..n PROVE iter[1..k] = iter[1..(k - 1)] + s[k]
      <3> DEFINE t == 1..k
      <3>1. t \in D /\ t # {} /\ Max(t) = k /\ t \ {k} = 1..(k - 1)
        BY <2>1, <2>2
      <3> HIDE DEF t
      <3>2. iter[t] = iter[t \ {Max(t)}] + s[Max(t)]
        BY <1>7, <3>1
      <3> QED BY <3>1, <3>2 DEF t
    <2> QED BY <2>3, <2>4
  <1> DEFINE sum == [k \in 0..n |-> iter[1..k]]
  <1>9. sum[0] = 0 /\ sum[n] = iter[1..n]
    <2>1. 1..0 = {}
      OBVIOUS
    <2> QED BY <1>8, <2>1
  <1>10. \A k \in 1..n : sum[k] = sum[k - 1] + s[k]
    BY <1>8
  <1> HIDE DEF sum
  <1>11. \A k \in 0..n : sum[k] \in Nat
    <2> DEFINE T == {k \in 0..n : sum[k] \in Nat}
    <2>1. 0 \in T
      BY <1>9
    <2>2. ASSUME NEW k \in 1..n, k - 1 \in T PROVE k \in T
      BY <1>10, <2>2
    <2> HIDE DEF T
    <2>3. 0..n \subseteq T
      BY <2>1, <2>2, InductionTo
    <2> QED BY <2>3 DEF T
  <1>12. sum \in [0..n -> Nat]
    BY <1>11 DEF sum
  <1> QED BY <1>1, <1>9, <1>10, <1>12

\* The members of the types are types.
MembersAreTypes == \A u \in Types : members[u].types \in Seq(Types)

LEMMA MembersAre ==
  ASSUME MembersAreTypes, NEW u \in Types
  PROVE  /\ DOMAIN members[u].types = 1..Len(members[u].types)
         /\ Len(members[u].types) \in Nat
         /\ \A i \in 1..Len(members[u].types) : members[u].types[i] \in Types
  BY DEF MembersAreTypes

\* What v says of the members of a type.
OfMembers(u, v) == [i \in DOMAIN members[u].types |-> v[members[u].types[i]]]

LEMMA CountsAreNumbers ==
  ASSUME MembersAreTypes, NEW u \in Types, NEW v \in [Types -> Nat]
  PROVE  Total(OfMembers(u, v)) \in Nat
  <1> DEFINE s == OfMembers(u, v)
             n == Len(members[u].types)
  <1>1. n \in Nat /\ DOMAIN s = 1..n /\ \A i \in 1..n : s[i] \in Nat
    BY MembersAre DEF OfMembers
  <1> HIDE DEF s, n
  <1>2. PICK sum \in [0..n -> Nat] : Total(s) = sum[n]
    BY <1>1, TotalUnfold
  <1>3. n \in 0..n
    BY <1>1
  <1> QED BY <1>2, <1>3 DEF s

\* FieldsIn counts as its recursive definition says.
Counts(fields) ==
    /\ fields \in [0..Len(definitions) -> [Types -> Nat]]
    /\ \A d \in 0..Len(definitions), u \in Types :
          fields[d][u] = IF ~ IsComposite(u) THEN 1
                         ELSE IF d = 0 THEN MaxExpandedFields + 1
                         ELSE Total(OfMembers(u, fields[d - 1]))
LEMMA FieldsUnfold ==
  ASSUME Len(definitions) \in Nat, MembersAreTypes
  PROVE  \E fields : Counts(fields)
                     /\ \A u \in Types : FieldsIn(u) = fields[Len(definitions)][u]
  <1> DEFINE N == Len(definitions)
             V == [Types -> Nat]
             Next1(v) == [u \in Types |-> IF ~ IsComposite(u) THEN 1
                                          ELSE Total(OfMembers(u, v))]
             first == [u \in Types |-> IF ~ IsComposite(u) THEN 1 ELSE MaxExpandedFields + 1]
             parent == [k \in 1..N |-> k - 1]
             step == [x \in (1..N) \X V |-> Next1(x[2])]
             Solves(g) == g = [depth \in 0..Len(definitions) |->
                                 [u \in Types |->
                                    IF ~ IsComposite(u) THEN 1
                                    ELSE IF depth = 0 THEN MaxExpandedFields + 1
                                    ELSE Total([i \in DOMAIN members[u].types |->
                                                   g[depth - 1][members[u].types[i]]])]]
             fields == CHOOSE g : Solves(g)
  <1>1. \A u : FieldsIn(u) = fields[N][u]
    BY DEF FieldsIn
  <1> HIDE DEF N
  <1>2. N \in Nat
    BY DEF N
  <1>3. first \in V
    BY ExpansionAssumption
  <1>4. ASSUME NEW v \in V PROVE Next1(v) \in V
    BY CountsAreNumbers
  <1>5. \E g \in [0..N -> V] : g[0] = first /\ \A d \in 1..N : g[d] = Next1(g[d - 1])
    <2>1. \A k \in 1..N : parent[k] = k - 1 /\ k - 1 \in 0..N /\ k - 1 \in 0..(k - 1)
      BY <1>2
    <2>2. \A k \in 1..N : \A v \in V : step[<<k, v>>] = Next1(v)
      OBVIOUS
    <2> HIDE DEF V, parent, step, Next1, first
    <2>3. Earlier(parent, N) /\ StaysIn(V, step, N)
      BY <1>4, <2>1, <2>2 DEF Earlier, StaysIn
    <2>4. PICK g \in [0..N -> V] : Follows(g, first, parent, step, N)
      BY <1>2, <1>3, <2>3, TreeRecursion
    <2>5. g[0] = first /\ \A k \in 1..N : g[k] = step[<<k, g[parent[k]]>>]
      BY <2>4 DEF Follows
    <2>6. ASSUME NEW k \in 1..N PROVE g[k] = Next1(g[k - 1])
      <3>1. g[k - 1] \in V
        BY <2>1, <2>4
      <3>2. g[k] = step[<<k, g[k - 1]>>]
        BY <2>1, <2>5
      <3> QED BY <2>2, <3>1, <3>2
    <2> QED BY <2>4, <2>5, <2>6
  <1>6. \A g : Solves(g) <=> g = [d \in 0..N |-> IF d = 0 THEN first ELSE Next1(g[d - 1])]
    <2>1. ASSUME NEW g, NEW d \in 0..N
          PROVE  [u \in Types |-> IF ~ IsComposite(u) THEN 1
                                  ELSE IF d = 0 THEN MaxExpandedFields + 1
                                  ELSE Total(OfMembers(u, g[d - 1]))]
                    = IF d = 0 THEN first ELSE Next1(g[d - 1])
      OBVIOUS
    <2>2. \A g : Solves(g) <=>
             g = [d \in 0..N |-> [u \in Types |->
                                    IF ~ IsComposite(u) THEN 1
                                    ELSE IF d = 0 THEN MaxExpandedFields + 1
                                    ELSE Total(OfMembers(u, g[d - 1]))]]
      BY DEF OfMembers, N
    <2> HIDE DEF Solves, first, Next1
    <2> QED BY <2>1, <2>2
  <1> HIDE DEF Solves
  <1>7. \E g : Solves(g)
    <2>1. PICK g \in [0..N -> V] : g[0] = first /\ \A d \in 1..N : g[d] = Next1(g[d - 1])
      BY <1>5
    <2>2. \A d \in 0..N : d = 0 \/ d \in 1..N
      BY <1>2
    <2> HIDE DEF first, Next1, V
    <2>3. g = [d \in 0..N |-> IF d = 0 THEN first ELSE Next1(g[d - 1])]
      BY <2>1, <2>2
    <2> QED BY <1>6, <2>3
  <1>8. Solves(fields)
    BY <1>7
  <1> HIDE DEF fields
  <1>9. fields = [d \in 0..N |-> IF d = 0 THEN first ELSE Next1(fields[d - 1])]
    BY <1>6, <1>8
  <1>10. fields \in [0..N -> V]
    <2> DEFINE T == {d \in 0..N : fields[d] \in V}
    <2> HIDE DEF first, Next1, V
    <2>1. 0 \in 0..N /\ \A d \in 1..N : d \in 0..N /\ d # 0
      BY <1>2
    <2>2. 0 \in T /\ \A d \in 1..N : d - 1 \in T => d \in T
      BY <1>3, <1>4, <1>9, <2>1
    <2> HIDE DEF T
    <2>3. 0..N \subseteq T
      BY <1>2, <2>2, InductionTo
    <2> QED BY <1>9, <2>3 DEF T
  <1>11. ASSUME NEW d \in 0..N, NEW u \in Types
         PROVE  fields[d][u] = IF ~ IsComposite(u) THEN 1
                               ELSE IF d = 0 THEN MaxExpandedFields + 1
                               ELSE Total(OfMembers(u, fields[d - 1]))
    <2>1. fields[d] = IF d = 0 THEN first ELSE Next1(fields[d - 1])
      <3> HIDE DEF first, Next1
      <3> QED BY <1>9
    <2>2. CASE d = 0
      BY <2>1, <2>2
    <2>3. CASE d # 0
      BY <2>1, <2>3
    <2> QED BY <2>2, <2>3
  <1> HIDE DEF V
  <1> QED BY <1>1, <1>10, <1>11 DEF N, V, Counts

\* There are finitely many types.
LEMMA TypesAreFinite ==
  ASSUME IsList(definitions)
  PROVE  /\ Types \subseteq 1..Len(definitions) /\ Len(definitions) \in Nat
         /\ IsFiniteSet(Types) /\ Cardinality(Types) \in Nat
         /\ Cardinality(Types) <= Len(definitions)
  <1> DEFINE all == 1..Len(definitions)
  <1>1. Types \in SUBSET all
    BY ListDomain DEF Types, Of
  <1>2. Len(definitions) \in Nat
    BY DEF IsList
  <1>3. IsFiniteSet(all) /\ Cardinality(all) = Len(definitions)
    <2>1. \A n \in Nat : IsFiniteSet(1..n) /\ Cardinality(1..n) = n
      BY FS_Interval
    <2> QED BY <1>2, <2>1
  <1> HIDE DEF all
  <1>4. IsFiniteSet(Types) /\ Cardinality(Types) <= Cardinality(all)
    BY <1>1, <1>3, FS_Subset
  <1>5. Cardinality(Types) \in Nat
    BY <1>4, FS_CardinalityType
  <1> QED BY <1>1, <1>2, <1>3, <1>4, <1>5 DEF all

\* The types that are read as one field.
Simple == {u \in Types : ~ IsComposite(u)}

LEMMA TogetherIsFields ==
  ASSUME MembersAreTypes, NEW u \in Types, NEW v \in [Types -> FieldLists(Simple)]
  PROVE  /\ Together(OfMembers(u, v)) \in FieldLists(Simple)
         /\ IsList(OfMembers(u, v)) /\ Len(OfMembers(u, v)) = Len(members[u].types)
         /\ \A i \in 1..Len(members[u].types) : OfMembers(u, v)[i] \in FieldLists(Simple)
  <1> DEFINE s == OfMembers(u, v)
             n == Len(members[u].types)
             S == Simple
  <1>1. n \in Nat /\ DOMAIN s = 1..n /\ \A i \in 1..n : s[i] \in FieldLists(S)
    BY MembersAre DEF OfMembers
  <1>2. s = [i \in 1..n |-> s[i]]
    BY <1>1 DEF OfMembers
  <1> HIDE DEF s, n, S
  <1>3. Len(s) = n
    <2>1. s \in Seq({s[i] : i \in 1..n})
      BY <1>1, <1>2
    <2> QED BY <1>1, <2>1
  <1>4. IsList(s) /\ Len(s) \in 0..Len(s) /\ \A i \in 1..Len(s) : s[i] \in FieldLists(S)
    BY <1>1, <1>2, <1>3 DEF IsList
  <1>5. PICK joined \in [0..Len(s) -> FieldLists(S)] : Together(s) = joined[Len(s)]
    <2>1. IsList(s) /\ \A i \in 1..Len(s) : s[i] \in FieldLists(S)
      BY <1>4
    <2> QED BY <2>1, TogetherUnfold
  <1>6. Together(s) \in FieldLists(S)
    BY <1>4, <1>5
  <1>7. \A i \in 1..n : s[i] \in FieldLists(S)
    BY <1>1
  <1> QED BY <1>3, <1>4, <1>6, <1>7 DEF s, S, n

\* Leaves walks as its recursive definition says.
Walks(leaves) ==
    /\ leaves \in [SUBSET Types -> [Types -> FieldLists(Simple)]]
    /\ \A W \in SUBSET Types, u \in Types :
          leaves[W][u] = IF ~ IsComposite(u) THEN [ok |-> TRUE, types |-> <<u>>]
                         ELSE IF u \in W THEN NotExpanded
                         ELSE Together(OfMembers(u, leaves[W \cup {u}]))
LEMMA LeavesUnfold ==
  ASSUME IsList(definitions), MembersAreTypes
  PROVE  \E leaves :
           /\ Walks(leaves)
           /\ \A u \in Types : Leaves(u) = IF Len(leaves[{}][u].types) > MaxExpandedFields
                                           THEN NotExpanded ELSE leaves[{}][u]
  <1> DEFINE D == SUBSET Types
             V == [Types -> FieldLists(Simple)]
             n == Cardinality(Types)
             Walk(W, g) == [u \in Types |->
                              IF ~ IsComposite(u) THEN [ok |-> TRUE, types |-> <<u>>]
                              ELSE IF u \in W THEN NotExpanded
                              ELSE Together(OfMembers(u, g[W \cup {u}]))]
             level == [W \in D |-> Cardinality(Types \ W)]
             step == [x \in D \X [D -> V] |-> Walk(x[1], x[2])]
             Solves(g) == g = [visiting \in SUBSET Types |->
                                 [u \in Types |->
                                    IF ~ IsComposite(u) THEN [ok |-> TRUE, types |-> <<u>>]
                                    ELSE IF u \in visiting THEN NotExpanded
                                    ELSE Together([i \in DOMAIN members[u].types |->
                                            g[visiting \union {u}][members[u].types[i]]])]]
             leaves == CHOOSE g : Solves(g)
  <1>1. \A u : Leaves(u) = IF Len(leaves[{}][u].types) > MaxExpandedFields
                           THEN NotExpanded ELSE leaves[{}][u]
    BY DEF Leaves
  <1>2. \A u \in Types : ~ IsComposite(u) => [ok |-> TRUE, types |-> <<u>>] \in FieldLists(Simple)
    BY DEF FieldLists, Simple
  <1>3. NotExpanded \in FieldLists(Simple)
    BY DEF FieldLists, NotExpanded
  <1>4. ASSUME NEW W \in D, NEW g, \A u \in Types \ W : g[W \cup {u}] \in V
        PROVE  Walk(W, g) \in V
    <2>1. ASSUME NEW u \in Types, u \notin W
          PROVE  Together(OfMembers(u, g[W \cup {u}])) \in FieldLists(Simple)
      <3>1. g[W \cup {u}] \in V
        BY <1>4, <2>1
      <3> QED BY <3>1, TogetherIsFields
    <2> QED BY <1>2, <1>3, <2>1
  <1>5. ASSUME NEW W \in D
        PROVE  /\ level[W] \in 0..n
               /\ \A u \in Types : u \notin W => W \cup {u} \in D /\ level[W \cup {u}] < level[W]
    <2> DEFINE rest == Types \ W
    <2>1. rest \in SUBSET Types /\ IsFiniteSet(Types)
      BY TypesAreFinite
    <2>2. IsFiniteSet(rest) /\ Cardinality(rest) <= n
      <3> HIDE DEF rest
      <3> QED BY <2>1, FS_Subset
    <2>3. Cardinality(rest) \in Nat /\ n \in Nat
      BY <2>1, <2>2, FS_CardinalityType
    <2>4. ASSUME NEW u \in Types, u \notin W
          PROVE  W \cup {u} \in D /\ Cardinality(Types \ (W \cup {u})) < Cardinality(rest)
      <3>1. u \in rest /\ Types \ (W \cup {u}) = rest \ {u}
        BY <2>4
      <3> HIDE DEF rest
      <3>2. Cardinality(rest \ {u}) = Cardinality(rest) - 1
        BY <2>2, <3>1, FS_RemoveElement
      <3> QED BY <2>3, <3>1, <3>2
    <2> DEFINE size == Cardinality(rest)
    <2>5. level[W] = size /\ size \in 0..n
      <3>1. level[W] = size
        OBVIOUS
      <3> HIDE DEF rest, level
      <3>2. size \in Nat /\ n \in Nat /\ size <= n
        BY <2>2, <2>3
      <3> HIDE DEF size, n
      <3> QED BY <3>1, <3>2
    <2>6. \A u \in Types : u \notin W =>
             W \cup {u} \in D /\ level[W \cup {u}] = Cardinality(Types \ (W \cup {u}))
      OBVIOUS
    <2> HIDE DEF level, n, D, rest
    <2> QED BY <2>4, <2>5, <2>6
  <1>6. \E g \in [D -> V] : \A W \in D : g[W] = Walk(W, g)
    <2>1. \A W \in D, g \in [D -> V] : step[<<W, g>>] = Walk(W, g)
      OBVIOUS
    <2>2. Leveled(level, D, n)
      BY <1>5 DEF Leveled
    <2>3. ASSUME NEW W \in D, NEW g \in [D -> V], NEW h \in [D -> V],
                 Alike(g, h, level, D, W)
          PROVE  Walk(W, g) = Walk(W, h)
      <3>1. \A u \in Types : u \notin W => g[W \cup {u}] = h[W \cup {u}]
        <4> HIDE DEF D, level
        <4> QED BY <1>5, <2>3 DEF Alike
      <3> QED BY <3>1
    <2> HIDE DEF D, V, level, step, Walk, n
    <2>4. StaysWithin(step, D, V)
      <3>1. \A W \in D : \A u \in Types : W \cup {u} \in D
        BY DEF D
      <3>2. \A W \in D, g \in [D -> V] : Walk(W, g) \in V
        BY <1>4, <3>1
      <3> QED BY <2>1, <3>2 DEF StaysWithin
    <2>5. LooksDown(step, level, D, V)
      BY <2>1, <2>3 DEF LooksDown
    <2>6. n \in Nat
      BY TypesAreFinite DEF n
    <2>7. PICK v : v \in V
      <3>1. [u \in Types |-> NotExpanded] \in V
        BY <1>3 DEF V
      <3> QED BY <3>1
    <2>8. PICK g \in [D -> V] : Obeys(g, step, D)
      BY <2>2, <2>4, <2>5, <2>6, <2>7, LevelRecursion
    <2> QED BY <2>1, <2>8 DEF Obeys
  <1>7. \A g : Solves(g) <=> g = [W \in D |-> Walk(W, g)]
    BY DEF OfMembers
  <1> HIDE DEF Solves
  <1>8. Solves(leaves)
    <2>1. PICK g \in [D -> V] : \A W \in D : g[W] = Walk(W, g)
      BY <1>6
    <2> HIDE DEF D, V, Walk
    <2>2. g = [W \in D |-> Walk(W, g)]
      BY <2>1
    <2> QED BY <1>7, <2>2
  <1> HIDE DEF leaves
  <1>9. leaves = [W \in D |-> Walk(W, leaves)]
    BY <1>7, <1>8
  <1>10. leaves \in [D -> V]
    <2> DEFINE T == {k \in 0..n : \A W \in D : level[W] = k => leaves[W] \in V}
    <2> HIDE DEF D, V, Walk, level, n
    <2>1. n \in Nat
      BY TypesAreFinite DEF n
    <2>2. ASSUME NEW k \in 0..n, 0..(k - 1) \subseteq T PROVE k \in T
      <3> SUFFICES ASSUME NEW W \in D, level[W] = k PROVE leaves[W] \in V
        OBVIOUS
      <3>1. ASSUME NEW u \in Types \ W PROVE leaves[W \cup {u}] \in V
        <4>1. W \cup {u} \in D /\ level[W \cup {u}] < level[W] /\ level[W \cup {u}] \in 0..n
          BY <1>5
        <4>2. level[W \cup {u}] \in 0..(k - 1)
          BY <2>1, <4>1
        <4> QED BY <2>2, <4>1, <4>2
      <3>2. Walk(W, leaves) \in V
        BY <1>4, <3>1
      <3> QED BY <1>9, <3>2
    <2>3. 0..n \subseteq T
      <3> HIDE DEF T
      <3> QED BY <2>1, <2>2, CourseOfValues
    <2>4. \A W \in D : leaves[W] \in V
      BY <1>5, <2>3
    <2> QED BY <1>9, <2>4
  <1>11. ASSUME NEW W \in D, NEW u \in Types
         PROVE  leaves[W][u] = IF ~ IsComposite(u) THEN [ok |-> TRUE, types |-> <<u>>]
                               ELSE IF u \in W THEN NotExpanded
                               ELSE Together(OfMembers(u, leaves[W \cup {u}]))
    <2>1. leaves[W] = Walk(W, leaves)
      <3> HIDE DEF Walk, D
      <3> QED BY <1>9
    <2> QED BY <2>1
  <1> HIDE DEF D, V
  <1> QED BY <1>1, <1>10, <1>11 DEF D, V, Walks

\* How long the lists of fields in a list are.
LengthsOf(parts) == [i \in 1..Len(parts) |-> Len(parts[i].types)]

\* Fields one after the other: all of them, or none.
LEMMA TogetherJoins ==
  ASSUME NEW S, NEW parts, IsList(parts),
         \A i \in 1..Len(parts) : parts[i] \in FieldLists(S)
  PROVE  /\ Together(parts).ok <=> \A i \in 1..Len(parts) : parts[i].ok
         /\ Together(parts).ok => Len(Together(parts).types) = Total(LengthsOf(parts))
  <1> DEFINE n == Len(parts)
             s == LengthsOf(parts)
  <1>1. n \in Nat /\ DOMAIN s = 1..n /\ \A i \in 1..n : s[i] = Len(parts[i].types) /\ s[i] \in Nat
    <2>1. \A i \in 1..n : Len(parts[i].types) \in Nat
      BY DEF FieldLists
    <2> QED BY <2>1 DEF IsList, LengthsOf
  <1>2. PICK sum \in [0..n -> Nat] : /\ Total(s) = sum[n] /\ sum[0] = 0
                                     /\ \A i \in 1..n : sum[i] = sum[i - 1] + s[i]
    <2> HIDE DEF s, n
    <2> QED BY <1>1, TotalUnfold
  <1>3. PICK joined \in [0..n -> FieldLists(S)] :
           /\ Together(parts) = joined[n]
           /\ joined[0] = [ok |-> TRUE, types |-> <<>>]
           /\ \A i \in 1..n :
                 joined[i] = IF joined[i - 1].ok /\ parts[i].ok
                             THEN [ok |-> TRUE,
                                   types |-> joined[i - 1].types \o parts[i].types]
                             ELSE NotExpanded
    BY TogetherUnfold
  <1> DEFINE T == {k \in 0..n : /\ joined[k].ok <=> \A i \in 1..k : parts[i].ok
                                /\ joined[k].ok => Len(joined[k].types) = sum[k]}
  <1>4. 0 \in T
    <2>1. joined[0].ok = TRUE /\ Len(joined[0].types) = 0 /\ 0 \in 0..n /\ 1..0 = {}
      BY <1>1, <1>3
    <2> QED BY <1>2, <2>1
  <1>5. ASSUME NEW k \in 1..n, k - 1 \in T PROVE k \in T
    <2>1. k - 1 \in 0..n /\ k \in 0..n /\ \A i : i \in 1..k <=> i \in 1..(k - 1) \/ i = k
      BY <1>1
    <2>2. /\ joined[k - 1].types \in Seq(S) /\ parts[k].types \in Seq(S)
          /\ joined[k - 1].ok \in BOOLEAN /\ parts[k].ok \in BOOLEAN
      BY <1>3, <2>1 DEF FieldLists
    <2>3. CASE joined[k - 1].ok /\ parts[k].ok
      <3>1. joined[k] = [ok |-> TRUE, types |-> joined[k - 1].types \o parts[k].types]
        BY <1>3, <2>3
      <3>2. Len(joined[k - 1].types \o parts[k].types)
               = Len(joined[k - 1].types) + Len(parts[k].types)
        BY <2>2, ConcatProperties
      <3>3. Len(joined[k].types) = sum[k]
        <4>1. sum[k] = sum[k - 1] + s[k] /\ s[k] = Len(parts[k].types)
          BY <1>1, <1>2
        <4>2. Len(joined[k - 1].types) = sum[k - 1]
          BY <1>5, <2>3
        <4>3. joined[k].types = joined[k - 1].types \o parts[k].types
          <5> DEFINE both == joined[k - 1].types \o parts[k].types
          <5>1. joined[k] = [ok |-> TRUE, types |-> both]
            BY <3>1
          <5> HIDE DEF both
          <5>2. joined[k].types = both
            BY <5>1
          <5> QED BY <5>2 DEF both
        <4> HIDE DEF s, T
        <4> QED BY <3>2, <4>1, <4>2, <4>3
      <3>4. joined[k].ok /\ \A i \in 1..k : parts[i].ok
        BY <1>5, <2>1, <2>3, <3>1
      <3> QED BY <2>1, <3>3, <3>4
    <2>4. CASE ~ (joined[k - 1].ok /\ parts[k].ok)
      <3>1. joined[k].ok = FALSE
        <4>1. joined[k] = NotExpanded
          BY <1>3, <2>4
        <4> QED BY <4>1 DEF NotExpanded
      <3>2. ~ \A i \in 1..k : parts[i].ok
        BY <1>5, <2>1, <2>4
      <3> QED BY <2>1, <3>1, <3>2
    <2> QED BY <2>3, <2>4
  <1>6. n \in T
    <2> HIDE DEF T, n
    <2>1. 0..n \subseteq T
      BY <1>1, <1>4, <1>5, InductionTo
    <2> QED BY <1>1, <2>1
  <1> QED BY <1>2, <1>3, <1>6

\* No number is more than the total.
LEMMA TotalBounds ==
  ASSUME NEW s, NEW n \in Nat, DOMAIN s = 1..n, \A i \in 1..n : s[i] \in Nat,
         NEW i \in 1..n
  PROVE  s[i] <= Total(s) /\ Total(s) \in Nat
  <1>1. PICK sum \in [0..n -> Nat] : /\ Total(s) = sum[n] /\ sum[0] = 0
                                     /\ \A k \in 1..n : sum[k] = sum[k - 1] + s[k]
    BY TotalUnfold
  <1> DEFINE T == {k \in 0..n : k >= i => s[i] <= sum[k]}
  <1>2. 0 \in T
    OBVIOUS
  <1>3. ASSUME NEW k \in 1..n, k - 1 \in T PROVE k \in T
    <2>1. /\ sum[k] = sum[k - 1] + s[k] /\ sum[k - 1] \in Nat /\ s[k] \in Nat /\ s[i] \in Nat
      BY <1>1
    <2>2. CASE k = i
      BY <2>1, <2>2
    <2>3. CASE k # i
      BY <1>3, <2>1, <2>3
    <2> QED BY <2>2, <2>3
  <1>4. n \in T
    <2> HIDE DEF T
    <2>1. 0..n \subseteq T
      BY <1>2, <1>3, InductionTo
    <2> QED BY <2>1
  <1> QED BY <1>1, <1>4

\* A count within the limit is the same however much deeper one looks.
LEMMA CountsSettle ==
  ASSUME Len(definitions) \in Nat, MembersAreTypes, NEW fields, Counts(fields),
         NEW d \in 1..Len(definitions), NEW u \in Types,
         fields[d - 1][u] <= MaxExpandedFields
  PROVE  fields[d][u] = fields[d - 1][u]
  <1> DEFINE N == Len(definitions)
             Settled(k, t) == fields[k][t] <= MaxExpandedFields => fields[k + 1][t] = fields[k][t]
             T == {k \in 0..(N - 1) : \A t \in Types : Settled(k, t)}
  <1>1. \A k \in 0..N, t \in Types : fields[k][t] \in Nat
    BY DEF Counts
  <1>2. MaxExpandedFields \in Nat
    BY ExpansionAssumption
  <1>3. 0 \in T
    <2>1. 0 \in 0..N /\ 1 \in 0..N /\ 0 \in 0..(N - 1)
      OBVIOUS
    <2>2. ASSUME NEW t \in Types, fields[0][t] <= MaxExpandedFields
          PROVE  fields[1][t] = fields[0][t]
      <3>1. ~ IsComposite(t)
        BY <1>2, <2>1, <2>2 DEF Counts
      <3> QED BY <2>1, <3>1 DEF Counts
    <2> QED BY <2>1, <2>2
  <1>4. ASSUME NEW k \in 1..(N - 1), k - 1 \in T PROVE k \in T
    <2>1. k \in 0..N /\ k - 1 \in 0..N /\ k + 1 \in 0..N /\ k # 0 /\ k + 1 # 0
          /\ (k - 1) + 1 = k /\ (k + 1) - 1 = k /\ k \in 0..(N - 1)
      OBVIOUS
    <2>2. ASSUME NEW t \in Types, fields[k][t] <= MaxExpandedFields, IsComposite(t)
          PROVE  fields[k + 1][t] = fields[k][t]
      <3> DEFINE before == OfMembers(t, fields[k - 1])
                 after == OfMembers(t, fields[k])
                 n == Len(members[t].types)
      <3>1. fields[k][t] = Total(before) /\ fields[k + 1][t] = Total(after)
        <4>1. fields[k][t] = Total(before)
          BY <2>1, <2>2 DEF Counts
        <4>2. fields[k + 1][t] = Total(OfMembers(t, fields[(k + 1) - 1]))
          BY <2>1, <2>2 DEF Counts
        <4> QED BY <2>1, <4>1, <4>2
      <3>2. /\ n \in Nat /\ DOMAIN members[t].types = 1..n
            /\ \A i \in 1..n : members[t].types[i] \in Types
        BY MembersAre
      <3>3. DOMAIN before = 1..n /\ \A i \in 1..n : before[i] = fields[k - 1][members[t].types[i]]
        BY <3>2 DEF OfMembers
      <3>4. ASSUME NEW i \in 1..n
            PROVE  fields[k][members[t].types[i]] = fields[k - 1][members[t].types[i]]
        <4> DEFINE m == members[t].types[i]
        <4>1. m \in Types
          BY <3>2
        <4>2. \A j \in 1..n : before[j] \in Nat
          BY <1>1, <2>1, <3>2, <3>3
        <4>3. before[i] <= Total(before) /\ Total(before) \in Nat
          <5> HIDE DEF before, n
          <5> QED BY <3>2, <3>3, <4>2, TotalBounds
        <4>4. before[i] = fields[k - 1][m] /\ before[i] \in Nat
          BY <3>3, <4>2
        <4> HIDE DEF before, m
        <4>5. fields[k - 1][m] <= MaxExpandedFields
          BY <1>2, <2>2, <3>1, <4>3, <4>4
        <4> HIDE DEF T
        <4>6. fields[(k - 1) + 1][m] = fields[k - 1][m]
          BY <1>4, <4>1, <4>5 DEF T
        <4> QED BY <2>1, <4>6 DEF m
      <3>5. before = after
        BY <3>2, <3>4 DEF OfMembers
      <3> HIDE DEF before, after
      <3> QED BY <3>1, <3>5
    <2>3. ASSUME NEW t \in Types, ~ IsComposite(t)
          PROVE  fields[k + 1][t] = fields[k][t]
      BY <2>1, <2>3 DEF Counts
    <2>4. \A t \in Types : Settled(k, t)
      BY <2>2, <2>3
    <2> QED BY <2>1, <2>4
  <1>5. 0..(N - 1) \subseteq T
    <2> DEFINE n == N - 1
    <2>1. n \in Nat
      OBVIOUS
    <2>2. \A k \in 1..n : k - 1 \in T => k \in T
      BY <1>4
    <2> HIDE DEF T, n
    <2>3. 0..n \subseteq T
      BY <1>3, <2>1, <2>2, InductionTo
    <2> QED BY <2>3 DEF n
  <1>6. d - 1 \in 0..(N - 1) /\ (d - 1) + 1 = d
    OBVIOUS
  <1> HIDE DEF T
  <1>7. Settled(d - 1, u)
    BY <1>5, <1>6 DEF T
  <1> QED BY <1>6, <1>7

\* What is expanded has as many fields as are counted, if one counts as deep as
\* there are types that are not being visited.
LEMMA ExpandedIsCounted ==
  ASSUME IsList(definitions), MembersAreTypes, NEW fields, Counts(fields),
         NEW leaves, Walks(leaves), NEW t \in Types, leaves[{}][t].ok
  PROVE  fields[Len(definitions)][t] = Len(leaves[{}][t].types)
  <1> DEFINE N == Len(definitions)
             Rest(W) == Cardinality(Types \ W)
             Counted(d, W, u) == Rest(W) <= d /\ leaves[W][u].ok
                                    => fields[d][u] = Len(leaves[W][u].types)
             T == {d \in 0..N : \A W \in SUBSET Types, u \in Types : Counted(d, W, u)}
  <1>1. N \in Nat
    BY DEF IsList
  <1>2. IsFiniteSet(Types) /\ Cardinality(Types) <= N
    BY TypesAreFinite
  <1>3. \A W \in SUBSET Types : IsFiniteSet(Types \ W) /\ Rest(W) \in Nat
    BY <1>2, FS_Difference, FS_CardinalityType
  <1>4. ASSUME NEW W \in SUBSET Types, NEW u \in Types, u \notin W
        PROVE  W \cup {u} \in SUBSET Types /\ Rest(W) # 0 /\ Rest(W \cup {u}) = Rest(W) - 1
    <2> DEFINE rest == Types \ W
    <2>1. u \in rest /\ Types \ (W \cup {u}) = rest \ {u} /\ IsFiniteSet(rest)
      BY <1>3, <1>4
    <2>2. Cardinality(rest \ {u}) = Cardinality(rest) - 1 /\ Cardinality(rest) # 0
      <3> HIDE DEF rest
      <3>1. rest # {}
        BY <2>1
      <3> QED BY <2>1, <3>1, FS_RemoveElement, FS_EmptySet
    <2> QED BY <2>1, <2>2
  <1>5. ASSUME NEW d \in 0..N, NEW W \in SUBSET Types, NEW u \in Types, ~ IsComposite(u)
        PROVE  fields[d][u] = Len(leaves[W][u].types)
    <2>1. fields[d][u] = 1
      BY <1>5 DEF Counts
    <2>2. leaves[W][u] = [ok |-> TRUE, types |-> <<u>>]
      BY <1>5 DEF Walks
    <2> QED BY <2>1, <2>2
  <1>6. ASSUME NEW W \in SUBSET Types, NEW u \in Types, IsComposite(u), leaves[W][u].ok
        PROVE  u \notin W
    <2>1. SUFFICES ASSUME u \in W PROVE FALSE
      OBVIOUS
    <2>2. leaves[W][u] = NotExpanded
      BY <1>6, <2>1 DEF Walks
    <2> QED BY <1>6, <2>2 DEF NotExpanded
  <1>7. 0 \in T
    <2>1. ASSUME NEW W \in SUBSET Types, NEW u \in Types, Rest(W) <= 0, leaves[W][u].ok
          PROVE  ~ IsComposite(u)
      <3>1. SUFFICES ASSUME IsComposite(u) PROVE FALSE
        OBVIOUS
      <3>2. Rest(W) # 0 /\ Rest(W) \in Nat
        BY <1>3, <1>4, <1>6, <2>1, <3>1
      <3> HIDE DEF Rest
      <3> QED BY <2>1, <3>2
    <2>2. 0 \in 0..N
      BY <1>1
    <2> HIDE DEF Rest
    <2> QED BY <1>5, <2>1, <2>2
  <1>8. ASSUME NEW d \in 1..N, d - 1 \in T PROVE d \in T
    <2>1. d \in 0..N /\ d # 0 /\ d - 1 \in 0..N
      BY <1>1
    <2>2. ASSUME NEW W \in SUBSET Types, NEW u \in Types, Rest(W) <= d, leaves[W][u].ok,
                 IsComposite(u)
          PROVE  fields[d][u] = Len(leaves[W][u].types)
      <3> DEFINE X == W \cup {u}
                 parts == OfMembers(u, leaves[X])
                 n == Len(members[u].types)
      <3>1. u \notin W
        BY <1>6, <2>2
      <3>2. X \in SUBSET Types /\ Rest(X) <= d - 1
        <4>1. X \in SUBSET Types /\ Rest(X) = Rest(W) - 1 /\ Rest(W) \in Nat
          BY <1>3, <1>4, <3>1
        <4> HIDE DEF Rest, X
        <4> QED BY <1>1, <2>2, <4>1
      <3>3. leaves[W][u] = Together(parts)
        BY <2>2, <3>1 DEF Walks
      <3>4. leaves[X] \in [Types -> FieldLists(Simple)]
        BY <3>2 DEF Walks
      <3>5. /\ n \in Nat /\ DOMAIN members[u].types = 1..n
            /\ \A i \in 1..n : members[u].types[i] \in Types
        BY MembersAre
      <3>6. /\ IsList(parts) /\ Len(parts) = n
            /\ \A i \in 1..n : parts[i] \in FieldLists(Simple)
        <4> HIDE DEF X
        <4> QED BY <3>4, TogetherIsFields
      <3>7. /\ \A i \in 1..n : parts[i].ok
            /\ Len(Together(parts).types) = Total(LengthsOf(parts))
        <4>1. Together(parts).ok
          BY <2>2, <3>3
        <4>2. \A i \in 1..Len(parts) : parts[i] \in FieldLists(Simple)
          BY <3>6
        <4> HIDE DEF parts, n
        <4>3. Together(parts).ok <=> \A i \in 1..Len(parts) : parts[i].ok
          BY <3>6, <4>2, TogetherJoins
        <4>4. Together(parts).ok => Len(Together(parts).types) = Total(LengthsOf(parts))
          BY <3>6, <4>2, TogetherJoins
        <4> QED BY <3>6, <4>1, <4>3, <4>4
      <3>8. ASSUME NEW i \in 1..n
            PROVE  fields[d - 1][members[u].types[i]] = Len(parts[i].types)
        <4>1. members[u].types[i] \in Types /\ parts[i] = leaves[X][members[u].types[i]]
          BY <3>5 DEF OfMembers
        <4>2. leaves[X][members[u].types[i]].ok
          <5> HIDE DEF X, parts
          <5> QED BY <3>7, <4>1
        <4>3. Counted(d - 1, X, members[u].types[i])
          BY <1>8, <3>2, <4>1
        <4> HIDE DEF Rest, X, parts
        <4> QED BY <3>2, <4>1, <4>2, <4>3
      <3>9. OfMembers(u, fields[d - 1]) = LengthsOf(parts)
        <4> HIDE DEF parts, n
        <4>1. LengthsOf(parts) = [i \in 1..n |-> Len(parts[i].types)]
          BY <3>6 DEF LengthsOf
        <4>2. OfMembers(u, fields[d - 1]) = [i \in 1..n |-> fields[d - 1][members[u].types[i]]]
          BY <3>5 DEF OfMembers
        <4> QED BY <3>8, <4>1, <4>2
      <3>10. fields[d][u] = Total(OfMembers(u, fields[d - 1]))
        BY <2>1, <2>2 DEF Counts
      <3> HIDE DEF parts
      <3> QED BY <3>3, <3>7, <3>9, <3>10
    <2> HIDE DEF Rest
    <2>3. \A W \in SUBSET Types, u \in Types : Counted(d, W, u)
      BY <1>5, <2>1, <2>2
    <2> QED BY <2>1, <2>3
  <1>9. N \in T
    <2> HIDE DEF T
    <2>1. 0..N \subseteq T
      BY <1>1, <1>7, <1>8, InductionTo
    <2> QED BY <1>1, <2>1
  <1>10. Rest({}) <= N /\ {} \in SUBSET Types
    <2>1. Types \ {} = Types
      OBVIOUS
    <2> QED BY <1>2, <2>1
  <1>11. Counted(N, {}, t)
    BY <1>9, <1>10
  <1> HIDE DEF Rest
  <1> QED BY <1>10, <1>11

\* What is counted is expanded: a type that is met inside itself has fewer
\* fields inside than out there, so one whose fields are counted is not met.
LEMMA CountedIsExpanded ==
  ASSUME IsList(definitions), MembersAreTypes, NEW fields, Counts(fields),
         NEW leaves, Walks(leaves), NEW t \in Types,
         fields[Len(definitions)][t] <= MaxExpandedFields
  PROVE  leaves[{}][t].ok
  <1> DEFINE N == Len(definitions)
             Few(d, u) == fields[d][u] <= MaxExpandedFields
             Apart(d, W) == \A w \in W : ~ Few(d, w)
             Expanded(d, W, u) == Few(d, u) /\ Apart(d, W) => leaves[W][u].ok
             T == {d \in 0..N : \A W \in SUBSET Types, u \in Types : Expanded(d, W, u)}
  <1>1. N \in Nat
    BY DEF IsList
  <1>2. \A k \in 0..N, u \in Types : fields[k][u] \in Nat
    BY DEF Counts
  <1>3. MaxExpandedFields \in Nat
    BY ExpansionAssumption
  <1>4. ASSUME NEW W \in SUBSET Types, NEW u \in Types, ~ IsComposite(u)
        PROVE  leaves[W][u].ok
    <2>1. leaves[W][u] = [ok |-> TRUE, types |-> <<u>>]
      BY <1>4 DEF Walks
    <2> QED BY <2>1
  <1>5. 0 \in T
    <2>1. 0 \in 0..N
      BY <1>1
    <2>2. ASSUME NEW u \in Types, Few(0, u) PROVE ~ IsComposite(u)
      BY <1>3, <2>1, <2>2 DEF Counts
    <2> HIDE DEF Few
    <2> QED BY <1>4, <2>1, <2>2
  <1>6. ASSUME NEW d \in 1..N, d - 1 \in T PROVE d \in T
    <2>1. d \in 0..N /\ d # 0 /\ d - 1 \in 0..N
      BY <1>1
    <2>2. ASSUME NEW u \in Types, Few(d - 1, u) PROVE Few(d, u)
      <3>1. fields[d][u] = fields[d - 1][u]
        BY <1>1, <2>2, CountsSettle
      <3> QED BY <2>2, <3>1
    <2>3. ASSUME NEW W \in SUBSET Types, NEW u \in Types, Few(d, u), Apart(d, W),
                 IsComposite(u)
          PROVE  leaves[W][u].ok
      <3> DEFINE X == W \cup {u}
                 parts == OfMembers(u, leaves[X])
                 counts == OfMembers(u, fields[d - 1])
                 n == Len(members[u].types)
      <3>1. Apart(d - 1, W)
        <4> HIDE DEF Few
        <4> QED BY <2>2, <2>3
      <3>2. CASE Few(d - 1, u)
        <4>1. Expanded(d - 1, W, u)
          BY <1>6
        <4> HIDE DEF Few, Apart
        <4> QED BY <3>1, <3>2, <4>1
      <3>3. CASE ~ Few(d - 1, u)
        <4>1. u \notin W
          <5> HIDE DEF Few
          <5> QED BY <2>3
        <4>2. X \in SUBSET Types /\ Apart(d - 1, X)
          <5> HIDE DEF Few
          <5> QED BY <3>1, <3>3
        <4>3. leaves[W][u] = Together(parts)
          BY <2>3, <4>1 DEF Walks
        <4>4. /\ n \in Nat /\ DOMAIN members[u].types = 1..n
              /\ \A i \in 1..n : members[u].types[i] \in Types
          BY MembersAre
        <4>5. leaves[X] \in [Types -> FieldLists(Simple)]
          BY <4>2 DEF Walks
        <4>6. /\ IsList(parts) /\ Len(parts) = n
              /\ \A i \in 1..n : parts[i] \in FieldLists(Simple)
          <5> HIDE DEF X
          <5> QED BY <4>5, TogetherIsFields
        <4>7. DOMAIN counts = 1..n /\ \A i \in 1..n : counts[i] = fields[d - 1][members[u].types[i]]
          BY <4>4 DEF OfMembers
        <4>8. \A i \in 1..n : counts[i] \in Nat
          BY <1>2, <2>1, <4>4, <4>7
        <4>9. fields[d][u] = Total(counts)
          BY <2>1, <2>3 DEF Counts
        <4>10. ASSUME NEW i \in 1..n PROVE parts[i].ok
          <5> DEFINE m == members[u].types[i]
          <5>1. m \in Types /\ parts[i] = leaves[X][m]
            BY <4>4 DEF OfMembers
          <5>2. counts[i] <= Total(counts) /\ Total(counts) \in Nat
            <6> HIDE DEF counts, n
            <6> QED BY <4>4, <4>7, <4>8, TotalBounds
          <5>3. Few(d - 1, m)
            <6>1. counts[i] = fields[d - 1][m] /\ counts[i] \in Nat
              BY <4>7, <4>8
            <6> HIDE DEF counts, m
            <6> QED BY <1>3, <2>3, <4>9, <5>2, <6>1
          <5>4. Expanded(d - 1, X, m)
            BY <1>6, <4>2, <5>1
          <5> HIDE DEF Few, Apart, X, m, parts
          <5> QED BY <4>2, <5>1, <5>3, <5>4
        <4>11. Together(parts).ok
          <5>1. \A i \in 1..Len(parts) : parts[i] \in FieldLists(Simple)
            BY <4>6
          <5>2. \A i \in 1..Len(parts) : parts[i].ok
            BY <4>6, <4>10
          <5> HIDE DEF parts, n
          <5>3. Together(parts).ok <=> \A i \in 1..Len(parts) : parts[i].ok
            BY <4>6, <5>1, TogetherJoins
          <5> QED BY <5>2, <5>3
        <4> HIDE DEF parts
        <4> QED BY <4>3, <4>11
      <3> QED BY <3>2, <3>3
    <2> HIDE DEF Few, Apart
    <2>4. \A W \in SUBSET Types, u \in Types : Expanded(d, W, u)
      BY <1>4, <2>3
    <2> QED BY <2>1, <2>4
  <1>7. N \in T
    <2> HIDE DEF T
    <2>1. 0..N \subseteq T
      BY <1>1, <1>5, <1>6, InductionTo
    <2> QED BY <1>1, <2>1
  <1>8. Expanded(N, {}, t)
    BY <1>7
  <1> QED BY <1>8

\* The fields of a type are read as one each and are as many as FieldsIn says;
\* there are none exactly if that is too many.
LEMMA ExpansionIsCounted ==
  ASSUME IsList(definitions), MembersAreTypes, NEW t \in Types
  PROVE  /\ Leaves(t) \in FieldLists(Simple) /\ FieldsIn(t) \in Nat
         /\ Leaves(t).ok => /\ FieldsIn(t) = Len(Leaves(t).types)
                            /\ FieldsIn(t) <= MaxExpandedFields
         /\ ~ Leaves(t).ok => FieldsIn(t) > MaxExpandedFields
  <1> DEFINE N == Len(definitions)
  <1>1. N \in Nat /\ N \in 0..N
    BY DEF IsList
  <1>2. PICK fields : Counts(fields) /\ \A u \in Types : FieldsIn(u) = fields[N][u]
    BY <1>1, FieldsUnfold
  <1>3. PICK leaves :
           /\ Walks(leaves)
           /\ \A u \in Types : Leaves(u) = IF Len(leaves[{}][u].types) > MaxExpandedFields
                                           THEN NotExpanded ELSE leaves[{}][u]
    BY LeavesUnfold
  <1> DEFINE all == leaves[{}][t]
             l == Leaves(t)
             f == FieldsIn(t)
  <1>4. all.ok => fields[N][t] = Len(all.types)
    BY <1>2, <1>3, ExpandedIsCounted
  <1>5. fields[N][t] <= MaxExpandedFields => all.ok
    BY <1>2, <1>3, CountedIsExpanded
  <1>6. f = fields[N][t]
    BY <1>2
  <1>7. f \in Nat /\ MaxExpandedFields \in Nat
    BY <1>1, <1>2, ExpansionAssumption DEF Counts
  <1>8. all \in FieldLists(Simple) /\ NotExpanded \in FieldLists(Simple)
    <2>1. leaves[{}] \in [Types -> FieldLists(Simple)]
      BY <1>3 DEF Walks
    <2>2. all \in FieldLists(Simple)
      BY <2>1
    <2> QED BY <2>2 DEF FieldLists, NotExpanded
  <1>9. l = IF Len(all.types) > MaxExpandedFields THEN NotExpanded ELSE all
    BY <1>3
  <1>10. Len(all.types) \in Nat /\ NotExpanded.ok = FALSE /\ all.ok \in BOOLEAN
    BY <1>8 DEF FieldLists, NotExpanded
  <1> DEFINE size == Len(all.types)
             count == fields[N][t]
  <1> HIDE DEF all, l, f, size, count
  <1>11. CASE size > MaxExpandedFields
    <2>1. l = NotExpanded
      BY <1>9, <1>11 DEF size
    <2>2. count > MaxExpandedFields
      BY <1>4, <1>5, <1>6, <1>7, <1>11 DEF size, count
    <2>3. l \in FieldLists(Simple) /\ l.ok = FALSE
      BY <1>8, <1>10, <2>1
    <2> QED BY <1>6, <1>7, <2>2, <2>3 DEF l, f, count
  <1>12. CASE ~ (size > MaxExpandedFields)
    <2>1. l = all
      BY <1>9, <1>12 DEF size
    <2>2. l \in FieldLists(Simple)
      BY <1>8, <2>1
    <2>3. l.ok => f = Len(l.types) /\ f <= MaxExpandedFields
      <3>1. SUFFICES ASSUME l.ok PROVE f = Len(l.types) /\ f <= MaxExpandedFields
        OBVIOUS
      <3>2. count = size /\ size = Len(l.types) /\ f = count
        BY <1>4, <1>6, <2>1, <3>1 DEF size, count
      <3>3. size \in Nat
        BY <1>10 DEF size
      <3> QED BY <1>7, <1>12, <3>2, <3>3
    <2>4. ~ l.ok => f > MaxExpandedFields
      <3>1. SUFFICES ASSUME ~ l.ok PROVE f > MaxExpandedFields
        OBVIOUS
      <3>2. ~ (count <= MaxExpandedFields) /\ f = count
        BY <1>5, <1>6, <2>1, <3>1 DEF count
      <3> QED BY <1>7, <3>2
    <2> QED BY <1>7, <2>2, <2>3, <2>4 DEF l, f
  <1> QED BY <1>11, <1>12

-------------------------------------------------------------------------------
\* The definitions are numbered, and the tables go by their kinds.
LEMMA Numbered ==
  ASSUME NamespaceInv
  PROVE  /\ IsList(definitions) /\ Len(definitions) \in Nat
         /\ DOMAIN definitions = 1..Len(definitions)
         /\ Commands \subseteq 1..Len(definitions) /\ Types \subseteq 1..Len(definitions)
         /\ Parameters \subseteq 1..Len(definitions)
         /\ Containers \subseteq 1..Len(definitions)
         /\ \A i \in 1..Len(definitions) : /\ definitions[i].system \in 1..Len(systems)
                                           /\ definitions[i].body \in Bodies[definitions[i].kind]
  <1>1. IsList(definitions) /\ \A i \in 1..Len(definitions) : Placed(definitions[i], systems)
    BY DEF NamespaceInv, DefinitionsArePlaced
  <1>2. DOMAIN definitions = 1..Len(definitions) /\ Len(definitions) \in Nat
    BY <1>1, ListDomain DEF IsList
  <1> QED BY <1>1, <1>2 DEF Commands, Types, Parameters, Containers, Of, Placed

LEMMA TablesAreKinds ==
  ASSUME NamespaceInv
  PROVE  /\ In("command") \subseteq Commands /\ In("container") \subseteq Containers
         /\ In("parameter") \subseteq Parameters /\ In("parameterType") \subseteq Types
         /\ In("argumentType") \subseteq Types
  <1>1. \A i \in DOMAIN definitions : definitions[i].kind \in Kinds
    BY Numbered DEF NamespaceInv, DefinitionsArePlaced, Placed
  <1> QED BY <1>1 DEF In, TablesOf, Commands, Containers, Parameters, Types, Of, Kinds

\* Whatever a reference looks like, what it is resolved to is in the table it is
\* looked for in.
LEMMA ResolvedInTable ==
  ASSUME NamespaceInv, NEW ref, NEW t \in Tables, NEW s \in 1..Len(systems)
  PROVE  Resolve(ref, s, t) \in In(t) \cup {0}
  <1>1. IsList(definitions) /\ SystemsNest /\ QualifiedAgrees(t) /\ LeafAgrees(t)
    BY DEF NamespaceInv, DefinitionsArePlaced, TablesAgree
  <1>2. \A name : Lookup(leaf[t], name) \in In(t) \cup {0}
    BY <1>1 DEF Lookup, LeafAgrees, LooseNamed, Loose
  <1>3. \A path : Lookup(qualified[t], path) \in In(t) \cup {0}
    BY <1>1, LookupIn
  <1>4. Climb(ref, s, t) \in In(t) \cup {0}
    <2> DEFINE L == Len(systems)
               T == {x \in 0..L : Climb(ref, x, t) \in In(t) \cup {0}}
    <2>1. L \in Nat
      BY <1>1 DEF SystemsNest, IsList
    <2>2. 0 \in T
      BY <1>1, <2>1, ClimbUnfold
    <2>3. ASSUME NEW x \in 0..L, 0..(x - 1) \subseteq T PROVE x \in T
      <3>1. CASE x = 0
        BY <2>2, <3>1
      <3>2. CASE x # 0
        <4> DEFINE found == Lookup(qualified[t], Located(systems[x].path, ref))
        <4>1. x \in 1..L
          BY <2>1, <3>2
        <4>2. Climb(ref, x, t) = IF found # 0 THEN found ELSE Climb(ref, systems[x].parent, t)
          BY <1>1, <4>1, ClimbUnfold
        <4>3. systems[x].parent \in 0..(x - 1)
          BY <1>1, <4>1 DEF SystemsNest
        <4>4. Climb(ref, systems[x].parent, t) \in In(t) \cup {0}
          BY <2>3, <4>3
        <4>5. found \in In(t) \cup {0}
          BY <1>3
        <4> HIDE DEF found
        <4> QED BY <4>2, <4>4, <4>5
      <3> QED BY <3>1, <3>2
    <2> HIDE DEF T
    <2>4. 0..L \subseteq T
      BY <2>1, <2>3, CourseOfValues
    <2>5. s \in 0..L
      BY <2>1
    <2> QED BY <2>4, <2>5 DEF T
  <1>5. ResolveByPath(ref, s, t) \in In(t) \cup {0}
    BY <1>3, <1>4 DEF ResolveByPath
  <1> QED BY <1>2, <1>5 DEF Resolve

LEMMA FoundInTable ==
  ASSUME NamespaceInv, NEW ref, NEW i \in 1..Len(definitions)
  PROVE  /\ Find(ref, i, "command") \in Commands \cup {0}
         /\ Find(ref, i, "container") \in Containers \cup {0}
         /\ Find(ref, i, "parameter") \in Parameters \cup {0}
         /\ Find(ref, i, "parameterType") \in Types \cup {0}
         /\ Find(ref, i, "argumentType") \in Types \cup {0}
  <1>1. definitions[i].system \in 1..Len(systems)
    BY Numbered
  <1>2. \A t \in Tables : Find(ref, i, t) \in In(t) \cup {0}
    BY <1>1, ResolvedInTable DEF Find
  <1> QED BY <1>2, TablesAreKinds DEF Tables

\* A pass comes to the definitions that are not done, and ends when all are.
LEMMA NextOfIs ==
  ASSUME NEW n \in Nat, NEW all, all \subseteq 1..n, NEW done
  PROVE  /\ NextOf(all, done) # 0 => /\ NextOf(all, done) \in all
                                     /\ NextOf(all, done) \notin DOMAIN done
         /\ NextOf(all, done) = 0 => all \subseteq DOMAIN done
  <1> DEFINE S == all \ DOMAIN done
  <1>1. S \subseteq Nat \ {0}
    <2>1. \A i \in 1..n : i \in Nat \ {0}
      OBVIOUS
    <2> QED BY <2>1
  <1>2. NextOf(all, done) = SetMin(S)
    BY DEF NextOf
  <1>3. S # {} => SetMin(S) \in S
    <2> HIDE DEF S
    <2> QED BY <1>1, SetMinIs
  <1>4. S = {} => SetMin(S) = 0
    BY <1>1, SetMinIs
  <1> QED BY <1>1, <1>2, <1>3, <1>4

-------------------------------------------------------------------------------
\* How far the load has come.
BasesDone == DOMAIN base = Commands
ArgumentsDone == BasesDone /\ DOMAIN arguments = Commands
TypesDone == ArgumentsDone /\ DOMAIN members = Types
ParametersDone == TypesDone /\ DOMAIN typeOf = Parameters
ContainersDone == ParametersDone /\ DOMAIN containers = Containers

\* A pass begins when the ones before it have come to their ends, and what it
\* makes is there from then on only; the document is read before.
PhasesInOrder ==
    /\ pass \in {"register", "bases", "arguments", "types", "parameters",
                 "containers", "inheritance", "loaded", "failed"}
    /\ pass # "register" => progress = "registered"
    /\ pass = "register" => DOMAIN base = {}
    /\ pass \in {"register", "bases"} => DOMAIN arguments = {}
    /\ pass \in {"register", "bases", "arguments"} => DOMAIN members = {}
    /\ pass \in {"register", "bases", "arguments", "types"} => DOMAIN typeOf = {}
    /\ pass \in {"register", "bases", "arguments", "types", "parameters"} =>
          DOMAIN containers = {} /\ extra = <<>>
    /\ pass \in {"arguments", "types", "parameters", "containers", "inheritance", "loaded"}
          \/ DOMAIN arguments # {} => BasesDone
    /\ pass \in {"types", "parameters", "containers", "inheritance", "loaded"}
          \/ DOMAIN members # {} => ArgumentsDone
    /\ pass \in {"parameters", "containers", "inheritance", "loaded"}
          \/ DOMAIN typeOf # {} => TypesDone
    /\ pass \in {"containers", "inheritance", "loaded"}
          \/ DOMAIN containers # {} \/ extra # <<>> => ParametersDone
    /\ pass \in {"inheritance", "loaded"} => ContainersDone

BasesAreCommands ==
    \A c \in DOMAIN base : c \in Commands /\ base[c] \in Commands \cup {0}

ArgumentsAreComplete ==
    \A c \in DOMAIN arguments :
        c \in Commands /\ Meets(c) = 0 /\ arguments[c] = Inherited(c)

MembersAreClosed ==
    \A t \in DOMAIN members : t \in Types /\ members[t].types \in Seq(Types)

ParametersAreTyped ==
    \A p \in DOMAIN typeOf : p \in Parameters /\ typeOf[p] \in Types

LeavesAreSimple == extra \in Seq(Simple)

\* What an entry of container c is lowered to: it leads to a definition of the
\* document, or to a parameter made for it, from the number `from' to `to'.
Old(e, entry, c) ==
    \/ e.kind \in {"unsupported", "fixedValue"} /\ e.target = 0
    \/ e.kind = "container" /\ e.target \in Containers
    \/ /\ e.kind = "parameter" /\ e.target \in Parameters /\ typeOf[e.target] \in Simple
       /\ entry.tag \in {"parameterRef", "argumentRef"} /\ e.target = Meant(entry, c)

OldOf(e, c) == \E entry \in Range(Body(c).entries) : Old(e, entry, c)

MadeOf(e, from, to) ==
    e.kind = "parameter" /\ e.target \in (Len(definitions) + from + 1)..(Len(definitions) + to)

LoweredTo(e, c) == OldOf(e, c) \/ MadeOf(e, 0, Len(extra))

PlacesOf(c) == [i \in DOMAIN Body(c).entries |-> Places(Body(c).entries[i], c)]

BaseIsFound(c) ==
    /\ containers[c].base = IF Body(c).base = NoRef THEN 0 ELSE Find(Body(c).base, c, "container")
    /\ containers[c].base \in Containers \cup {0}
    /\ Body(c).base # NoRef => containers[c].base # 0

EntriesAreLowered(c) ==
    /\ IsList(containers[c].entries)
    /\ \A i \in 1..Len(containers[c].entries) : LoweredTo(containers[c].entries[i], c)
    /\ Len(containers[c].entries) = Total(PlacesOf(c))
    /\ \A t \in NamedTypes(c) : FieldsIn(t) <= MaxExpandedFields

TargetsDiffer(c, d) ==
    \A i \in 1..Len(containers[c].entries), j \in 1..Len(containers[d].entries) :
        /\ containers[c].entries[i].target > Len(definitions)
        /\ containers[c].entries[i].target = containers[d].entries[j].target
        => c = d /\ i = j

ContainersAreLowered ==
    /\ \A c \in DOMAIN containers : c \in Containers /\ BaseIsFound(c) /\ EntriesAreLowered(c)
    /\ \A c, d \in DOMAIN containers : TargetsDiffer(c, d)

Circular == \E S \in SUBSET DOMAIN base : S # {} /\ \A c \in S : base[c] \in S
Unended == \E S \in SUBSET DOMAIN containers : Unfounded(S)

FailuresAreJustified ==
    /\ pass = "failed" <=> failure # "none"
    /\ failure = "commandCycle" => BasesDone /\ Circular
    /\ failure = "notExpanded" =>
          \E c \in Containers : \E t \in NamedTypes(c) : FieldsIn(t) > MaxExpandedFields
    /\ failure = "containerCycle" => Unended
    /\ pass = "loaded" => ~ Unended

LoaderInv ==
    /\ PhasesInOrder /\ BasesAreCommands /\ ArgumentsAreComplete /\ MembersAreClosed
    /\ ParametersAreTyped /\ LeavesAreSimple /\ ContainersAreLowered
    /\ FailuresAreJustified

LEMMA LoaderStarts == LoaderInit => LoaderInv
  <1> SUFFICES ASSUME LoaderInit PROVE LoaderInv
    OBVIOUS
  <1> USE DEF LoaderInit
  <1>1. PhasesInOrder
    BY DEF PhasesInOrder
  <1>2. BasesAreCommands /\ ArgumentsAreComplete /\ MembersAreClosed /\ ParametersAreTyped
    BY DEF BasesAreCommands, ArgumentsAreComplete, MembersAreClosed, ParametersAreTyped
  <1>3. LeavesAreSimple
    BY DEF LeavesAreSimple
  <1>4. ContainersAreLowered
    BY DEF ContainersAreLowered
  <1>5. FailuresAreJustified
    BY DEF FailuresAreJustified
  <1> QED BY <1>1, <1>2, <1>3, <1>4, <1>5 DEF LoaderInv

\* Reading the document changes nothing of what is lowered: nothing is.
LEMMA ReadingKeepsLowered ==
  ASSUME LoaderInv, Register, UNCHANGED loaderVars
  PROVE  LoaderInv'
  <1> USE DEF loaderVars, LoaderInv
  <1>1. progress = "reading"
    BY DEF Register, OpenSystem, Define, DefineCommand, Registered
  <1>2. pass = "register"
    BY <1>1 DEF PhasesInOrder
  <1>3. /\ DOMAIN base = {} /\ DOMAIN arguments = {} /\ DOMAIN members = {}
        /\ DOMAIN typeOf = {} /\ DOMAIN containers = {} /\ extra = <<>>
    BY <1>2 DEF PhasesInOrder
  <1>4. PhasesInOrder'
    BY <1>2, <1>3 DEF PhasesInOrder
  <1>5. (BasesAreCommands /\ ArgumentsAreComplete /\ MembersAreClosed /\ ParametersAreTyped)'
    BY <1>3 DEF BasesAreCommands, ArgumentsAreComplete, MembersAreClosed, ParametersAreTyped
  <1>6. LeavesAreSimple'
    BY <1>3 DEF LeavesAreSimple
  <1>7. ContainersAreLowered'
    BY <1>3 DEF ContainersAreLowered
  <1>8. FailuresAreJustified'
    BY <1>2 DEF FailuresAreJustified
  <1> QED BY <1>4, <1>5, <1>6, <1>7, <1>8

\* What is lowered stays right as long as it and the document stay.
LEMMA BasesStay ==
  ASSUME BasesAreCommands, UNCHANGED <<namespaceVars, base>>
  PROVE  BasesAreCommands'
  BY DEF BasesAreCommands, Commands, Of, namespaceVars
LEMMA WalksStay ==
  ASSUME UNCHANGED <<namespaceVars, base>>
  PROVE  /\ Commands' = Commands
         /\ \A c : Meets(c)' = Meets(c)
         /\ \A c : Inherited(c)' = Inherited(c)
         /\ \A c : Lineage(c)' = Lineage(c)
  BY DEF Commands, Of, namespaceVars, Meets, Inherited, Lineage,
         DeclaredAt, OwnArguments, NameOf, LastOf, SetMin
LEMMA ArgumentsStay ==
  ASSUME ArgumentsAreComplete, UNCHANGED <<namespaceVars, base, arguments>>
  PROVE  ArgumentsAreComplete'
  BY WalksStay DEF ArgumentsAreComplete
LEMMA MembersStay ==
  ASSUME MembersAreClosed, UNCHANGED <<namespaceVars, members>>
  PROVE  MembersAreClosed'
  BY DEF MembersAreClosed, Types, Of, namespaceVars
LEMMA ParametersStay ==
  ASSUME ParametersAreTyped, UNCHANGED <<namespaceVars, typeOf>>
  PROVE  ParametersAreTyped'
  BY DEF ParametersAreTyped, Parameters, Types, Of, namespaceVars
LEMMA LeavesStay ==
  ASSUME LeavesAreSimple, UNCHANGED <<namespaceVars, members, extra>>
  PROVE  LeavesAreSimple'
  BY DEF LeavesAreSimple, Simple, IsComposite, Types, Of, namespaceVars
LEMMA ReferencesStay ==
  ASSUME UNCHANGED namespaceVars
  PROVE  /\ Containers' = Containers /\ Parameters' = Parameters /\ Types' = Types
         /\ Commands' = Commands
         /\ \A c : Body(c)' = Body(c)
         /\ \A ref, i, t : Find(ref, i, t)' = Find(ref, i, t)
  BY DEF Find, Resolve, IsPath, ResolveByPath, Climb, Located, Walked, NeedsNormalising,
         LastOf, Lookup, Types, Parameters, Containers, Commands, Of, Body, namespaceVars
LEMMA EntriesStay ==
  ASSUME UNCHANGED <<namespaceVars, arguments, members, typeOf>>
  PROVE  /\ Simple' = Simple
         /\ \A c : NamedTypes(c)' = NamedTypes(c)
         /\ \A t : FieldsIn(t)' = FieldsIn(t)
         /\ \A entry, c : Meant(entry, c)' = Meant(entry, c)
         /\ \A c : PlacesOf(c)' = PlacesOf(c)
  <1> USE DEF Meant, ArgumentNamed, Find, Resolve, IsPath, ResolveByPath, Climb, Located,
              Walked, NeedsNormalising, LastOf, Lookup, Types, Of, Body, namespaceVars
  <1>1. Simple' = Simple
    BY DEF Simple, IsComposite
  <1>2. \A c : NamedTypes(c)' = NamedTypes(c)
    BY DEF NamedTypes
  <1>3. \A t : FieldsIn(t)' = FieldsIn(t)
    BY DEF FieldsIn, IsComposite
  <1>4. \A entry, c : Meant(entry, c)' = Meant(entry, c)
    OBVIOUS
  <1>5. \A c : PlacesOf(c)' = PlacesOf(c)
    BY DEF PlacesOf, Places, FieldsIn, IsComposite
  <1> QED BY ONLY <1>1, <1>2, <1>3, <1>4, <1>5
LEMMA ContainersStay ==
  ASSUME ContainersAreLowered,
         UNCHANGED <<namespaceVars, arguments, members, typeOf, extra, containers>>
  PROVE  ContainersAreLowered'
  <1>1. \A e, c : LoweredTo(e, c)' <=> LoweredTo(e, c)
    <2> USE DEF namespaceVars
    <2> QED BY ReferencesStay, EntriesStay DEF LoweredTo, OldOf, Old, MadeOf
  <1>2. \A c : BaseIsFound(c)' <=> BaseIsFound(c)
    BY ReferencesStay DEF BaseIsFound
  <1>3. \A c : EntriesAreLowered(c)' <=> EntriesAreLowered(c)
    BY <1>1, EntriesStay DEF EntriesAreLowered
  <1>4. \A c, d : TargetsDiffer(c, d)' <=> TargetsDiffer(c, d)
    BY DEF TargetsDiffer, namespaceVars
  <1> QED BY <1>2, <1>3, <1>4, ReferencesStay DEF ContainersAreLowered

\* Nothing that is lowered changes.
Standing == UNCHANGED <<namespaceVars, base, arguments, members, typeOf, extra, containers>>

LEMMA StandingKeeps ==
  ASSUME LoaderInv, Standing
  PROVE  (/\ BasesAreCommands /\ ArgumentsAreComplete /\ MembersAreClosed
          /\ ParametersAreTyped /\ LeavesAreSimple /\ ContainersAreLowered)'
  BY BasesStay, ArgumentsStay, MembersStay, ParametersStay, LeavesStay, ContainersStay
     DEF LoaderInv, Standing

LEMMA DoneStays ==
  ASSUME Standing
  PROVE  /\ BasesDone' = BasesDone /\ ArgumentsDone' = ArgumentsDone
         /\ TypesDone' = TypesDone /\ ParametersDone' = ParametersDone
         /\ ContainersDone' = ContainersDone
  BY DEF Standing, namespaceVars, Of, Commands, Types, Parameters, Containers, BasesDone, ArgumentsDone, TypesDone, ParametersDone, ContainersDone

\* The next pass begins.
LEMMA NextPassKeeps ==
  ASSUME NamespaceInv, LoaderInv, NextPass, UNCHANGED namespaceVars
  PROVE  LoaderInv'
  <1> USE DEF LoaderInv
  <1>1. Standing /\ failure' = failure
    BY DEF NextPass, Standing
  <1>2. /\ BasesAreCommands' /\ ArgumentsAreComplete' /\ MembersAreClosed'
        /\ ParametersAreTyped' /\ LeavesAreSimple' /\ ContainersAreLowered'
    BY <1>1, StandingKeeps
  <1>3. \/ pass = "register" /\ progress = "registered" /\ pass' = "bases"
        \/ pass = "bases" /\ pass' = "arguments" /\ BasesDone
        \/ pass = "arguments" /\ pass' = "types" /\ ArgumentsDone
        \/ pass = "types" /\ pass' = "parameters" /\ TypesDone
        \/ pass = "parameters" /\ pass' = "containers" /\ ParametersDone
        \/ pass = "containers" /\ pass' = "inheritance" /\ ContainersDone
    <2> DEFINE n == Len(definitions)
    <2>1. n \in Nat /\ Commands \subseteq 1..n /\ Types \subseteq 1..n
          /\ Parameters \subseteq 1..n /\ Containers \subseteq 1..n
      BY Numbered
    <2> HIDE DEF n
    <2>2. NextOf(Commands, base) = 0 => Commands \subseteq DOMAIN base
      BY <2>1, NextOfIs
    <2>3. NextOf(Commands, arguments) = 0 => Commands \subseteq DOMAIN arguments
      BY <2>1, NextOfIs
    <2>4. NextOf(Types, members) = 0 => Types \subseteq DOMAIN members
      BY <2>1, NextOfIs
    <2>5. NextOf(Parameters, typeOf) = 0 => Parameters \subseteq DOMAIN typeOf
      BY <2>1, NextOfIs
    <2>6. NextOf(Containers, containers) = 0 => Containers \subseteq DOMAIN containers
      BY <2>1, NextOfIs
    <2>7. /\ DOMAIN base \subseteq Commands /\ DOMAIN arguments \subseteq Commands
          /\ DOMAIN members \subseteq Types /\ DOMAIN typeOf \subseteq Parameters
          /\ DOMAIN containers \subseteq Containers
      BY DEF BasesAreCommands, ArgumentsAreComplete, MembersAreClosed, ParametersAreTyped,
             ContainersAreLowered
    <2>8. /\ pass = "arguments" => BasesDone
          /\ pass = "types" => ArgumentsDone
          /\ pass = "parameters" => TypesDone
          /\ pass = "containers" => ParametersDone
      BY DEF PhasesInOrder
    <2> QED BY <2>2, <2>3, <2>4, <2>5, <2>6, <2>7, <2>8
            DEF NextPass, After, BasesDone, ArgumentsDone, TypesDone, ParametersDone, ContainersDone
  <1>4. progress' = progress
    BY DEF namespaceVars
  <1>5. PhasesInOrder'
    BY <1>1, <1>3, <1>4, DoneStays DEF PhasesInOrder, Standing
  <1>6. FailuresAreJustified'
    <2>1. pass # "failed" /\ pass' # "failed" /\ pass' # "loaded"
      BY <1>3
    <2>2. failure = "none" /\ failure' = "none"
      BY <1>1, <2>1 DEF FailuresAreJustified
    <2> QED BY <2>1, <2>2 DEF FailuresAreJustified
  <1> QED BY <1>2, <1>5, <1>6

\* A pass fails: what is lowered stays, and the failure needs a reason.
Reasoned(kind) ==
    /\ kind = "commandCycle" => BasesDone /\ Circular
    /\ kind = "notExpanded" =>
          \E c \in Containers : \E t \in NamedTypes(c) : FieldsIn(t) > MaxExpandedFields
    /\ kind = "containerCycle" => Unended

LEMMA FailKeeps ==
  ASSUME NamespaceInv, LoaderInv, NEW kind, kind # "none", Fail(kind), Reasoned(kind),
         UNCHANGED namespaceVars,
         pass \in {"bases", "arguments", "types", "parameters", "containers", "inheritance"}
  PROVE  LoaderInv'
  <1> USE DEF LoaderInv
  <1>1. Standing /\ failure' = kind /\ pass' = "failed" /\ progress' = progress
    BY DEF Fail, Standing, namespaceVars
  <1>2. /\ BasesAreCommands' /\ ArgumentsAreComplete' /\ MembersAreClosed'
        /\ ParametersAreTyped' /\ LeavesAreSimple' /\ ContainersAreLowered'
    BY <1>1, StandingKeeps
  <1>3. PhasesInOrder'
    BY <1>1, DoneStays DEF PhasesInOrder, Standing
  <1>4. BasesDone' = BasesDone /\ Circular' = Circular /\ Unended' = Unended
    BY <1>1, DoneStays DEF Circular, Unended, Unfounded, Standing
  <1>5. (\E c \in Containers : \E t \in NamedTypes(c) : FieldsIn(t) > MaxExpandedFields)'
          <=> \E c \in Containers : \E t \in NamedTypes(c) : FieldsIn(t) > MaxExpandedFields
    <2>1. UNCHANGED <<namespaceVars, arguments, members, typeOf>>
      BY <1>1 DEF Standing
    <2> QED BY <2>1, EntriesStay, ReferencesStay
  <1>6. FailuresAreJustified'
    BY <1>1, <1>4, <1>5 DEF FailuresAreJustified, Reasoned
  <1> QED BY <1>2, <1>3, <1>6

LEMMA ResolveBaseKeeps ==
  ASSUME NamespaceInv, LoaderInv, ResolveBase, UNCHANGED namespaceVars
  PROVE  LoaderInv'
  <1> DEFINE c == NextOf(Commands, base)
             ref == Body(c).base
             found == IF ref = NoRef THEN 0 ELSE Find(ref, c, "command")
  <1>1. pass = "bases" /\ c # 0
    BY DEF ResolveBase
  <1>2. c \in Commands /\ c \notin DOMAIN base /\ c \in 1..Len(definitions)
    <2> DEFINE n == Len(definitions)
    <2>1. n \in Nat /\ Commands \subseteq 1..n
      BY Numbered
    <2> HIDE DEF n
    <2>2. c \in Commands /\ c \notin DOMAIN base
      BY <1>1, <2>1, NextOfIs
    <2> QED BY <2>1, <2>2 DEF n
  <1>3. CASE ref = NoAttribute
    <2>1. Fail("missing") /\ Reasoned("missing")
      BY <1>3 DEF ResolveBase, Reasoned
    <2> QED BY <1>1, <2>1, FailKeeps
  <1>4. CASE ref # NoAttribute /\ ref # NoRef /\ found = 0
    <2>1. Fail("unresolved") /\ Reasoned("unresolved")
      BY <1>4 DEF ResolveBase, Reasoned
    <2> QED BY <1>1, <2>1, FailKeeps
  <1>5. CASE ref # NoAttribute /\ ~ (ref # NoRef /\ found = 0)
    <2> USE DEF LoaderInv
    <2>1. /\ base' = With(base, c, found)
          /\ UNCHANGED <<pass, arguments, members, typeOf, extra, containers, failure>>
      BY <1>5 DEF ResolveBase
    <2>2. found \in Commands \cup {0}
      BY <1>2, FoundInTable
    <2> HIDE DEF c, found
    <2>3. DOMAIN base' = DOMAIN base \cup {c} /\ base'[c] = found
          /\ \A d \in DOMAIN base : d # c => base'[d] = base[d]
      <3> DEFINE w == With(base, c, found)
      <3>1. /\ DOMAIN w = DOMAIN base \cup {c} /\ w[c] = found
            /\ \A d \in DOMAIN base : d # c => w[d] = base[d]
        BY DEF With
      <3>2. base' = w
        BY <2>1
      <3> HIDE DEF w
      <3> QED BY <3>1, <3>2
    <2>4. /\ DOMAIN arguments = {} /\ DOMAIN members = {}
          /\ DOMAIN typeOf = {} /\ DOMAIN containers = {} /\ extra = <<>>
          /\ progress = "registered" /\ progress' = progress
      BY <1>1 DEF PhasesInOrder, namespaceVars
    <2>5. BasesAreCommands'
      BY <1>2, <2>2, <2>3, ReferencesStay DEF BasesAreCommands
    <2>6. (ArgumentsAreComplete /\ MembersAreClosed /\ ParametersAreTyped)'
      BY <2>1, <2>4 DEF ArgumentsAreComplete, MembersAreClosed, ParametersAreTyped
    <2>7. LeavesAreSimple'
      BY <2>1, LeavesStay
    <2>8. ContainersAreLowered'
      BY <2>1, <2>4 DEF ContainersAreLowered
    <2>9. PhasesInOrder'
      BY <1>1, <2>1, <2>4 DEF PhasesInOrder
    <2>10. FailuresAreJustified'
      BY <1>1, <2>1 DEF FailuresAreJustified
    <2> QED BY <2>5, <2>6, <2>7, <2>8, <2>9, <2>10
  <1> QED BY <1>3, <1>4, <1>5

\* Among more numbers than there are, two are equal.
LEMMA Repeats ==
  ASSUME NEW n \in Nat, NEW f \in [0..n -> 1..n]
  PROVE  \E i \in 0..n : \E j \in 1..n : i < j /\ f[i] = f[j]
  <1> DEFINE S == 0..n
             V == 1..n
  <1>1. IsFiniteSet(S) /\ Cardinality(S) = n + 1
    BY FS_Interval
  <1>2. IsFiniteSet(V) /\ Cardinality(V) = n
    BY FS_Interval
  <1>3. Cardinality(V) < Cardinality(S)
    <2> HIDE DEF S, V
    <2> QED BY <1>1, <1>2
  <1>4. f \in [S -> V] /\ IsFiniteSet(S) /\ IsFiniteSet(V)
    BY <1>1, <1>2
  <1>5. \E x, y \in S : x # y /\ f[x] = f[y]
    <2> HIDE DEF S, V
    <2> QED BY <1>3, <1>4, FS_PigeonHole
  <1>6. PICK x \in S, y \in S : x # y /\ f[x] = f[y]
    BY <1>5
  <1>7. CASE x < y
    <2>1. y \in 1..n
      BY <1>7
    <2> QED BY <1>6, <1>7, <2>1
  <1>8. CASE y < x
    <2>1. x \in 1..n
      BY <1>8
    <2> QED BY <1>6, <1>8, <2>1
  <1> HIDE DEF V
  <1>9. x < y \/ y < x
    BY <1>6
  <1> QED BY <1>7, <1>8, <1>9

\* The way up from a command.
UpFrom(x) == IF x = 0 THEN 0 ELSE base[x]
LEMMA LineageIs ==
  ASSUME NamespaceInv, BasesAreCommands, BasesDone, NEW c \in Commands \cup {0}
  PROVE  /\ Lineage(c) \in [0..Len(definitions) -> Commands \cup {0}]
         /\ Lineage(c)[0] = c
         /\ \A k \in 1..Len(definitions) : Lineage(c)[k] = UpFrom(Lineage(c)[k - 1])
  <1> DEFINE N == Len(definitions)
             V == Commands \cup {0}
             parent == [k \in 1..N |-> k - 1]
             step == [x \in (1..N) \X V |-> UpFrom(x[2])]
             Solves(g) == g = [k \in 0..Len(definitions) |->
                                 IF k = 0 THEN c
                                 ELSE IF g[k - 1] = 0 THEN 0 ELSE base[g[k - 1]]]
             up == CHOOSE g : Solves(g)
  <1>1. Lineage(c) = up
    BY DEF Lineage
  <1> HIDE DEF N
  <1>2. N \in Nat
    BY Numbered DEF N
  <1>3. \A x \in V : UpFrom(x) \in V
    BY DEF UpFrom, BasesAreCommands, BasesDone
  <1>4. \E g \in [0..N -> V] : g[0] = c /\ \A k \in 1..N : g[k] = UpFrom(g[k - 1])
    <2>1. \A k \in 1..N : parent[k] = k - 1 /\ k - 1 \in 0..N /\ k - 1 \in 0..(k - 1)
      BY <1>2
    <2>2. \A k \in 1..N : \A v \in V : step[<<k, v>>] = UpFrom(v)
      OBVIOUS
    <2>3. c \in V
      OBVIOUS
    <2> HIDE DEF V, parent, step
    <2>4. Earlier(parent, N) /\ StaysIn(V, step, N)
      BY <1>3, <2>1, <2>2 DEF Earlier, StaysIn
    <2>5. PICK g \in [0..N -> V] : Follows(g, c, parent, step, N)
      BY <1>2, <2>3, <2>4, TreeRecursion
    <2>6. g[0] = c /\ \A k \in 1..N : g[k] = step[<<k, g[parent[k]]>>]
      BY <2>5 DEF Follows
    <2>7. ASSUME NEW k \in 1..N PROVE g[k] = UpFrom(g[k - 1])
      <3>1. g[k - 1] \in V
        BY <2>1, <2>5
      <3>2. g[k] = step[<<k, g[k - 1]>>]
        BY <2>1, <2>6
      <3> QED BY <2>2, <3>1, <3>2
    <2> QED BY <2>5, <2>6, <2>7
  <1>5. \A g : Solves(g) <=> g = [k \in 0..N |-> IF k = 0 THEN c ELSE UpFrom(g[k - 1])]
    BY DEF UpFrom, N
  <1> HIDE DEF Solves
  <1>6. Solves(up)
    <2>1. PICK g \in [0..N -> V] : g[0] = c /\ \A k \in 1..N : g[k] = UpFrom(g[k - 1])
      BY <1>4
    <2>2. \A k \in 0..N : k = 0 \/ k \in 1..N
      BY <1>2
    <2> HIDE DEF V
    <2>3. g = [k \in 0..N |-> IF k = 0 THEN c ELSE UpFrom(g[k - 1])]
      BY <2>1, <2>2
    <2>4. Solves(g)
      BY <1>5, <2>3
    <2> QED BY <2>4
  <1> HIDE DEF up
  <1>7. up = [k \in 0..N |-> IF k = 0 THEN c ELSE UpFrom(up[k - 1])]
    BY <1>5, <1>6
  <1>8. up[0] = c /\ \A k \in 1..N : up[k] = UpFrom(up[k - 1])
    <2>1. 0 \in 0..N /\ \A k \in 1..N : k \in 0..N /\ k # 0
      BY <1>2
    <2>2. up[0] = c
      BY <1>7, <2>1
    <2>3. \A k \in 1..N : up[k] = UpFrom(up[k - 1])
      BY <1>7, <2>1
    <2> QED BY <2>2, <2>3
  <1>9. up \in [0..N -> V]
    <2> DEFINE T == {k \in 0..N : up[k] \in V}
    <2>1. 0 \in T
      BY <1>2, <1>8
    <2>2. ASSUME NEW k \in 1..N, k - 1 \in T PROVE k \in T
      <3>1. up[k] \in V
        <4> HIDE DEF V
        <4> QED BY <1>3, <1>8, <2>2
      <3> QED BY <1>2, <3>1
    <2> HIDE DEF T
    <2>3. 0..N \subseteq T
      BY <1>2, <2>1, <2>2, InductionTo
    <2> QED BY <1>7, <2>3 DEF T
  <1> QED BY <1>1, <1>8, <1>9 DEF N

LEMMA MeetsIs ==
  ASSUME Len(definitions) \in Nat, NEW c
  PROVE  /\ Meets(c) # 0 =>
               /\ Meets(c) \in 1..Len(definitions) /\ Lineage(c)[Meets(c)] # 0
               /\ \E j \in 0..(Meets(c) - 1) : Lineage(c)[j] = Lineage(c)[Meets(c)]
         /\ Meets(c) = 0 =>
               \A k \in 1..Len(definitions) : \A j \in 0..(k - 1) :
                  Lineage(c)[k] # 0 => Lineage(c)[j] # Lineage(c)[k]
  <1> DEFINE S == {k \in 1..Len(definitions) :
                     /\ Lineage(c)[k] # 0
                     /\ \E j \in 0..(k - 1) : Lineage(c)[j] = Lineage(c)[k]}
  <1>1. Meets(c) = SetMin(S)
    BY DEF Meets
  <1>2. S \subseteq Nat \ {0}
    <2>1. S \subseteq 1..Len(definitions)
      OBVIOUS
    <2> HIDE DEF S
    <2> QED BY <2>1
  <1>3. S = {} => SetMin(S) = 0
    BY <1>2, SetMinIs
  <1>4. S # {} => SetMin(S) \in S
    <2> HIDE DEF S
    <2> QED BY <1>2, SetMinIs
  <1>5. S # {} => SetMin(S) # 0
    <2> HIDE DEF S
    <2> QED BY <1>2, <1>4
  <1>6. ASSUME Meets(c) # 0
        PROVE  /\ Meets(c) \in 1..Len(definitions) /\ Lineage(c)[Meets(c)] # 0
               /\ \E j \in 0..(Meets(c) - 1) : Lineage(c)[j] = Lineage(c)[Meets(c)]
    <2>1. Meets(c) \in S
      <3> HIDE DEF S
      <3> QED BY <1>1, <1>3, <1>4, <1>6
    <2> QED BY <2>1
  <1>7. ASSUME Meets(c) = 0
        PROVE  \A k \in 1..Len(definitions) : \A j \in 0..(k - 1) :
                  Lineage(c)[k] # 0 => Lineage(c)[j] # Lineage(c)[k]
    <2>1. S = {}
      <3> HIDE DEF S
      <3> QED BY <1>1, <1>5, <1>7
    <2> QED BY <2>1
  <1> QED BY <1>6, <1>7

\* A walk that meets what it has met goes around a cycle.
LEMMA MeetingIsCircular ==
  ASSUME NamespaceInv, BasesAreCommands, BasesDone, NEW c \in Commands, Meets(c) # 0
  PROVE  Circular
  <1> DEFINE N == Len(definitions)
             L == Lineage(c)
             m == Meets(c)
  <1>1. N \in Nat
    BY Numbered
  <1>2. /\ L \in [0..N -> Commands \cup {0}]
        /\ \A k \in 1..N : L[k] = UpFrom(L[k - 1])
    BY LineageIs
  <1>3. m \in 1..N /\ L[m] # 0 /\ \E j \in 0..(m - 1) : L[j] = L[m]
    BY <1>1, MeetsIs
  <1>4. PICK j \in 0..(m - 1) : L[j] = L[m]
    BY <1>3
  <1> HIDE DEF L, m, N
  <1> DEFINE T == {k \in 0..m : L[m - k] # 0}
             S == {L[k] : k \in (j + 1)..m}
  <1>5. 0..m \subseteq T
    <2>1. 0 \in T
      BY <1>3
    <2>2. ASSUME NEW k \in 1..m, k - 1 \in T PROVE k \in T
      <3>1. m - k \in 0..N /\ m - (k - 1) \in 1..N /\ (m - (k - 1)) - 1 = m - k /\ k \in 0..m
        BY <1>1, <1>3
      <3>2. L[m - (k - 1)] = UpFrom(L[m - k])
        BY <1>2, <3>1
      <3>3. L[m - (k - 1)] # 0
        BY <2>2
      <3>4. L[m - k] # 0
        BY <3>2, <3>3 DEF UpFrom
      <3> QED BY <3>1, <3>4
    <2> HIDE DEF T
    <2> QED BY <1>1, <1>3, <2>1, <2>2, InductionTo
  <1>6. ASSUME NEW k \in 0..m PROVE L[k] # 0
    <2>1. m - k \in T /\ m - (m - k) = k
      BY <1>3, <1>5
    <2> QED BY <2>1
  <1>7. S # {} /\ S \subseteq Commands
    <2>1. m \in (j + 1)..m
      BY <1>3
    <2>2. \A k \in (j + 1)..m : k \in 0..m /\ k \in 0..N
      BY <1>1, <1>3
    <2>3. \A k \in (j + 1)..m : L[k] \in Commands
      BY <1>2, <1>6, <2>2
    <2> QED BY <2>1, <2>3
  <1>8. ASSUME NEW x \in S PROVE base[x] \in S
    <2>1. PICK k \in (j + 1)..m : x = L[k]
      OBVIOUS
    <2>2. x # 0
      BY <1>3, <1>6, <2>1
    <2>3. CASE k < m
      <3>1. k + 1 \in (j + 1)..m /\ k + 1 \in 1..N /\ (k + 1) - 1 = k
        BY <1>1, <1>3, <2>3
      <3>2. L[k + 1] = UpFrom(L[k])
        BY <1>2, <3>1
      <3>3. L[k + 1] = base[x]
        BY <2>1, <2>2, <3>2 DEF UpFrom
      <3> QED BY <3>1, <3>3
    <2>4. CASE k = m
      <3>1. j + 1 \in (j + 1)..m /\ j + 1 \in 1..N /\ (j + 1) - 1 = j
        BY <1>1, <1>3
      <3>2. L[j + 1] = UpFrom(L[j])
        BY <1>2, <3>1
      <3>3. L[j + 1] = base[x]
        BY <1>4, <2>1, <2>2, <2>4, <3>2 DEF UpFrom
      <3> QED BY <3>1, <3>3
    <2>5. k < m \/ k = m
      BY <1>3
    <2> QED BY <2>3, <2>4, <2>5
  <1> HIDE DEF S
  <1>9. S \in SUBSET DOMAIN base
    BY <1>7 DEF BasesDone
  <1> QED BY <1>7, <1>8, <1>9 DEF Circular

\* A walk that never meets itself comes to its end in as many steps as there
\* are definitions.
LEMMA WalksEnd ==
  ASSUME NamespaceInv, BasesAreCommands, BasesDone, NEW c \in Commands, Meets(c) = 0
  PROVE  Lineage(c)[Len(definitions)] = 0
  <1> DEFINE N == Len(definitions)
             L == Lineage(c)
  <1>1. N \in Nat /\ Commands \subseteq 1..N
    BY Numbered
  <1>2. /\ L \in [0..N -> Commands \cup {0}]
        /\ \A k \in 1..N : L[k] = UpFrom(L[k - 1])
    BY LineageIs
  <1>3. \A k \in 1..N : \A j \in 0..(k - 1) : L[k] # 0 => L[j] # L[k]
    BY <1>1, MeetsIs
  <1> HIDE DEF L, N
  <1>4. SUFFICES ASSUME L[N] # 0 PROVE FALSE
    BY DEF L, N
  <1> DEFINE T == {k \in 0..N : L[N - k] # 0}
  <1>5. 0..N \subseteq T
    <2>1. 0 \in T
      BY <1>1, <1>4
    <2>2. ASSUME NEW k \in 1..N, k - 1 \in T PROVE k \in T
      <3>1. N - k \in 0..N /\ N - (k - 1) \in 1..N /\ (N - (k - 1)) - 1 = N - k /\ k \in 0..N
        BY <1>1
      <3>2. L[N - (k - 1)] = UpFrom(L[N - k])
        BY <1>2, <3>1
      <3>3. L[N - (k - 1)] # 0
        BY <2>2
      <3>4. L[N - k] # 0
        BY <3>2, <3>3 DEF UpFrom
      <3> QED BY <3>1, <3>4
    <2> HIDE DEF T
    <2> QED BY <1>1, <2>1, <2>2, InductionTo
  <1>6. ASSUME NEW k \in 0..N PROVE L[k] # 0
    <2>1. N - k \in T /\ N - (N - k) = k
      BY <1>1, <1>5
    <2> QED BY <2>1
  <1>7. L \in [0..N -> 1..N]
    BY <1>1, <1>2, <1>6
  <1>8. PICK i \in 0..N, j \in 1..N : i < j /\ L[i] = L[j]
    BY <1>1, <1>7, Repeats
  <1>9. i \in 0..(j - 1) /\ j \in 0..N
    BY <1>1, <1>8
  <1> QED BY <1>3, <1>6, <1>8, <1>9

\* When no walk meets itself no command is circular.
LEMMA NoneIsCircular ==
  ASSUME NamespaceInv, BasesAreCommands, BasesDone, \A c \in Commands : Meets(c) = 0
  PROVE  ~ Circular
  <1>1. SUFFICES ASSUME Circular PROVE FALSE
    OBVIOUS
  <1>2. PICK S \in SUBSET Commands : S # {} /\ \A x \in S : base[x] \in S
    BY <1>1 DEF Circular, BasesDone
  <1>3. PICK c \in S : TRUE
    BY <1>2
  <1> DEFINE N == Len(definitions)
             L == Lineage(c)
             T == {k \in 0..N : L[k] \in S}
  <1>4. N \in Nat /\ Commands \subseteq 1..N
    BY Numbered
  <1>5. L[0] = c /\ \A k \in 1..N : L[k] = UpFrom(L[k - 1])
    BY <1>2, LineageIs
  <1>6. L[N] = 0
    BY <1>2, WalksEnd
  <1> HIDE DEF L, N
  <1>7. 0 \in T
    BY <1>4, <1>5
  <1>8. ASSUME NEW k \in 1..N, k - 1 \in T PROVE k \in T
    <2>1. L[k - 1] \in S /\ L[k - 1] # 0
      BY <1>2, <1>4, <1>8
    <2>2. L[k] = base[L[k - 1]]
      BY <1>5, <2>1 DEF UpFrom
    <2>3. k \in 0..N
      BY <1>4
    <2> QED BY <1>2, <2>1, <2>2, <2>3
  <1>9. N \in T
    <2> HIDE DEF T
    <2>1. 0..N \subseteq T
      BY <1>4, <1>7, <1>8, InductionTo
    <2> QED BY <1>4, <2>1
  <1> QED BY <1>2, <1>4, <1>6, <1>9

LEMMA InheritArgumentsKeeps ==
  ASSUME NamespaceInv, LoaderInv, InheritArguments, UNCHANGED namespaceVars
  PROVE  LoaderInv'
  <1> DEFINE c == NextOf(Commands, arguments)
  <1>1. pass = "arguments" /\ c # 0
    BY DEF InheritArguments
  <1>2. c \in Commands
    <2> DEFINE n == Len(definitions)
    <2>1. n \in Nat /\ Commands \subseteq 1..n
      BY Numbered
    <2> HIDE DEF n
    <2> QED BY <1>1, <2>1, NextOfIs
  <1>3. BasesDone /\ BasesAreCommands
    BY <1>1 DEF LoaderInv, PhasesInOrder
  <1>4. CASE Meets(c) # 0
    <2>1. Fail("commandCycle")
      BY <1>4 DEF InheritArguments
    <2>2. Circular
      <3> HIDE DEF c
      <3> QED BY <1>2, <1>3, <1>4, MeetingIsCircular
    <2>3. Reasoned("commandCycle")
      BY <1>3, <2>2 DEF Reasoned
    <2> QED BY <1>1, <2>1, <2>3, FailKeeps
  <1>5. CASE Meets(c) = 0
    <2> USE DEF LoaderInv
    <2>1. /\ arguments' = With(arguments, c, Inherited(c))
          /\ UNCHANGED <<pass, base, members, typeOf, extra, containers, failure>>
      BY <1>5 DEF InheritArguments
    <2> HIDE DEF c
    <2>2. /\ DOMAIN members = {} /\ DOMAIN typeOf = {} /\ DOMAIN containers = {}
          /\ extra = <<>> /\ progress = "registered" /\ progress' = progress
      BY <1>1 DEF PhasesInOrder, namespaceVars
    <2>3. BasesAreCommands'
      BY <2>1, BasesStay
    <2>4. ArgumentsAreComplete'
      <3> DEFINE w == With(arguments, c, Inherited(c))
      <3>1. \A d \in DOMAIN w : d \in Commands /\ Meets(d) = 0 /\ w[d] = Inherited(d)
        BY <1>2, <1>5 DEF With, ArgumentsAreComplete
      <3>2. arguments' = w
        BY <2>1
      <3> HIDE DEF w
      <3> QED BY <2>1, <3>1, <3>2, WalksStay DEF ArgumentsAreComplete
    <2>5. (MembersAreClosed /\ ParametersAreTyped)'
      BY <2>1, <2>2 DEF MembersAreClosed, ParametersAreTyped
    <2>6. LeavesAreSimple'
      BY <2>1, LeavesStay
    <2>7. ContainersAreLowered'
      BY <2>1, <2>2 DEF ContainersAreLowered
    <2>8. BasesDone'
      BY <1>3, <2>1, WalksStay DEF BasesDone
    <2>9. PhasesInOrder'
      BY <1>1, <2>1, <2>2, <2>8 DEF PhasesInOrder
    <2>10. FailuresAreJustified'
      BY <1>1, <2>1 DEF FailuresAreJustified
    <2> QED BY <2>3, <2>4, <2>5, <2>6, <2>7, <2>9, <2>10
  <1> QED BY <1>4, <1>5

LEMMA LowerTypeKeeps ==
  ASSUME NamespaceInv, LoaderInv, LowerType, UNCHANGED namespaceVars
  PROVE  LoaderInv'
  <1> DEFINE t == NextOf(Types, members)
             refs == Body(t).members
             found == [i \in DOMAIN refs |-> Find(refs[i], t, "parameterType")]
             supported == \A i \in DOMAIN found : found[i] # 0
             value == [supported |-> supported, types |-> IF supported THEN found ELSE <<>>]
  <1>1. pass = "types" /\ t # 0
    BY DEF LowerType
  <1>2. t \in Types /\ t \in 1..Len(definitions)
    <2> DEFINE n == Len(definitions)
    <2>1. n \in Nat /\ Types \subseteq 1..n
      BY Numbered
    <2> HIDE DEF n
    <2>2. t \in Types
      BY <1>1, <2>1, NextOfIs
    <2> QED BY <2>1, <2>2 DEF n
  <1>3. value.types \in Seq(Types)
    <2>1. refs \in Seq(Range(refs))
      <3>1. definitions[t].kind \in {"parameterType", "commandType", "argumentType"}
        BY <1>2 DEF Types, Of
      <3>2. Body(t) \in Bodies[definitions[t].kind]
        BY <1>2, Numbered DEF Body
      <3> HIDE DEF t
      <3> QED BY <3>1, <3>2, BodyShapes
    <2>2. \A i \in DOMAIN refs : Find(refs[i], t, "parameterType") \in Types \cup {0}
      <3> HIDE DEF t
      <3> QED BY <1>2, FoundInTable
    <2>3. DOMAIN refs = 1..Len(refs) /\ Len(refs) \in Nat
      <3> HIDE DEF refs
      <3> QED BY <2>1
    <2> HIDE DEF refs, t
    <2>4. supported => found \in Seq(Types)
      BY <2>2, <2>3
    <2> QED BY <2>4
  <1>4. CASE ~ Body(t).valid
    <2>1. Fail("invalid") /\ Reasoned("invalid")
      BY <1>4 DEF LowerType, Reasoned
    <2> QED BY <1>1, <2>1, FailKeeps
  <1>5. CASE Body(t).valid
    <2> USE DEF LoaderInv
    <2>1. /\ members' = With(members, t, value)
          /\ UNCHANGED <<pass, base, arguments, typeOf, extra, containers, failure>>
      BY <1>5 DEF LowerType
    <2> HIDE DEF t, value
    <2>2. /\ DOMAIN typeOf = {} /\ DOMAIN containers = {}
          /\ extra = <<>> /\ progress = "registered" /\ progress' = progress
      BY <1>1 DEF PhasesInOrder, namespaceVars
    <2>3. BasesAreCommands' /\ ArgumentsAreComplete'
      BY <2>1, BasesStay, ArgumentsStay
    <2>4. MembersAreClosed'
      <3> DEFINE w == With(members, t, value)
      <3>1. \A u \in DOMAIN w : u \in Types /\ w[u].types \in Seq(Types)
        BY <1>2, <1>3 DEF With, MembersAreClosed
      <3>2. members' = w
        BY <2>1
      <3> HIDE DEF w
      <3> QED BY <3>1, <3>2, ReferencesStay DEF MembersAreClosed
    <2>5. ParametersAreTyped'
      BY <2>1, <2>2 DEF ParametersAreTyped
    <2>6. LeavesAreSimple'
      BY <2>1, <2>2 DEF LeavesAreSimple
    <2>7. ContainersAreLowered'
      BY <2>1, <2>2 DEF ContainersAreLowered
    <2>8. BasesDone' /\ ArgumentsDone'
      <3>1. BasesDone /\ ArgumentsDone
        BY <1>1 DEF PhasesInOrder
      <3> QED BY <2>1, <3>1, ReferencesStay DEF BasesDone, ArgumentsDone
    <2>9. PhasesInOrder'
      BY <1>1, <2>1, <2>2, <2>8 DEF PhasesInOrder
    <2>10. FailuresAreJustified'
      BY <1>1, <2>1 DEF FailuresAreJustified
    <2> QED BY <2>3, <2>4, <2>5, <2>6, <2>7, <2>9, <2>10
  <1> QED BY <1>4, <1>5

LEMMA LowerParameterKeeps ==
  ASSUME NamespaceInv, LoaderInv, LowerParameter, UNCHANGED namespaceVars
  PROVE  LoaderInv'
  <1> DEFINE p == NextOf(Parameters, typeOf)
             ref == Body(p).type
             found == IF ref = NoRef THEN 0
                      ELSE Find(ref, p, IF definitions[p].kind = "argument"
                                        THEN "argumentType" ELSE "parameterType")
  <1>1. pass = "parameters" /\ p # 0
    BY DEF LowerParameter
  <1>2. p \in Parameters /\ p \in 1..Len(definitions)
    <2> DEFINE n == Len(definitions)
    <2>1. n \in Nat /\ Parameters \subseteq 1..n
      BY Numbered
    <2> HIDE DEF n
    <2>2. p \in Parameters
      BY <1>1, <2>1, NextOfIs
    <2> QED BY <2>1, <2>2 DEF n
  <1>3. found \in Types \cup {0}
    <2> HIDE DEF p
    <2> QED BY <1>2, FoundInTable
  <1>4. CASE ref = NoRef
    <2>1. Fail("missing") /\ Reasoned("missing")
      BY <1>4 DEF LowerParameter, Reasoned
    <2> QED BY <1>1, <2>1, FailKeeps
  <1>5. CASE ref # NoRef /\ found = 0
    <2>1. Fail("unresolved") /\ Reasoned("unresolved")
      BY <1>5 DEF LowerParameter, Reasoned
    <2> QED BY <1>1, <2>1, FailKeeps
  <1>6. CASE ref # NoRef /\ found # 0
    <2> USE DEF LoaderInv
    <2>1. /\ typeOf' = With(typeOf, p, found)
          /\ UNCHANGED <<pass, base, arguments, members, extra, containers, failure>>
      BY <1>6 DEF LowerParameter
    <2> HIDE DEF p, found
    <2>2. /\ DOMAIN containers = {} /\ extra = <<>>
          /\ progress = "registered" /\ progress' = progress
      BY <1>1 DEF PhasesInOrder, namespaceVars
    <2>3. BasesAreCommands' /\ ArgumentsAreComplete' /\ MembersAreClosed'
      BY <2>1, BasesStay, ArgumentsStay, MembersStay
    <2>4. ParametersAreTyped'
      <3> DEFINE w == With(typeOf, p, found)
      <3>1. \A q \in DOMAIN w : q \in Parameters /\ w[q] \in Types
        BY <1>2, <1>3, <1>6 DEF With, ParametersAreTyped
      <3>2. typeOf' = w
        BY <2>1
      <3> HIDE DEF w
      <3> QED BY <3>1, <3>2, ReferencesStay DEF ParametersAreTyped
    <2>5. LeavesAreSimple'
      BY <2>1, LeavesStay
    <2>6. ContainersAreLowered'
      BY <2>1, <2>2 DEF ContainersAreLowered
    <2>7. BasesDone' /\ ArgumentsDone' /\ TypesDone'
      <3>1. BasesDone /\ ArgumentsDone /\ TypesDone
        BY <1>1 DEF PhasesInOrder, TypesDone, ArgumentsDone
      <3> QED BY <2>1, <3>1, ReferencesStay DEF BasesDone, ArgumentsDone, TypesDone
    <2>8. PhasesInOrder'
      BY <1>1, <2>1, <2>2, <2>7 DEF PhasesInOrder
    <2>9. FailuresAreJustified'
      BY <1>1, <2>1 DEF FailuresAreJustified
    <2> QED BY <2>3, <2>4, <2>5, <2>6, <2>8, <2>9
  <1> QED BY <1>4, <1>5, <1>6

LEMMA CheckInheritanceKeeps ==
  ASSUME NamespaceInv, LoaderInv, CheckInheritance, UNCHANGED namespaceVars
  PROVE  LoaderInv'
  <1>1. pass = "inheritance"
    BY DEF CheckInheritance
  <1>2. CASE Unended
    <2>1. Fail("containerCycle") /\ Reasoned("containerCycle")
      BY <1>2 DEF CheckInheritance, Reasoned, Unended
    <2> QED BY <1>1, <2>1, FailKeeps
  <1>3. CASE ~ Unended
    <2> USE DEF LoaderInv
    <2>1. Standing /\ pass' = "loaded" /\ failure' = failure /\ progress' = progress
      BY <1>3 DEF CheckInheritance, Unended, Standing, namespaceVars
    <2>2. /\ BasesAreCommands' /\ ArgumentsAreComplete' /\ MembersAreClosed'
          /\ ParametersAreTyped' /\ LeavesAreSimple' /\ ContainersAreLowered'
      BY <2>1, StandingKeeps
    <2>3. PhasesInOrder'
      BY <1>1, <2>1, DoneStays DEF PhasesInOrder, Standing
    <2>4. Unended' = Unended
      BY <2>1 DEF Unended, Unfounded, Standing
    <2>5. FailuresAreJustified'
      BY <1>1, <1>3, <2>1, <2>4 DEF FailuresAreJustified
    <2> QED BY <2>2, <2>3, <2>5
  <1> QED BY <1>2, <1>3

\* A type that is no composite is one field.
LEMMA SimpleIsOneField ==
  ASSUME Len(definitions) \in Nat, MembersAreTypes, NEW t \in Types, ~ IsComposite(t)
  PROVE  FieldsIn(t) = 1
  <1>1. PICK fields : Counts(fields) /\ \A u \in Types : FieldsIn(u) = fields[Len(definitions)][u]
    BY FieldsUnfold
  <1>2. Len(definitions) \in 0..Len(definitions)
    OBVIOUS
  <1> QED BY <1>1, <1>2 DEF Counts

\* What a command can name by n: something of that name that it or a command
\* above it declares, and no nearer one does.
HasAt(c, n, k) == \E i \in DeclaredAt(c, k) : NameOf(i) = n
LEMMA InheritedIs ==
  ASSUME Len(definitions) \in Nat, NEW c
  PROVE  /\ \A n : n \in DOMAIN Inherited(c) <=> \E k \in 0..Len(definitions) : HasAt(c, n, k)
         /\ \A n \in DOMAIN Inherited(c) : \A k \in 0..Len(definitions) :
               HasAt(c, n, k) /\ (\A j \in 0..(k - 1) : ~ HasAt(c, n, j)) =>
                  Inherited(c)[n] = CHOOSE i \in DeclaredAt(c, k) : NameOf(i) = n
         /\ \A n \in DOMAIN Inherited(c) : \E k \in 0..Len(definitions) :
               Inherited(c)[n] \in DeclaredAt(c, k)
  <1> DEFINE N == Len(definitions)
             all == UNION {DeclaredAt(c, k) : k \in 0..N}
             Levels(n) == {k \in 0..N : HasAt(c, n, k)}
             nearest(n) == SetMin(Levels(n))
  <1>1. DOMAIN Inherited(c) = {NameOf(i) : i \in all}
    BY DEF Inherited
  <1>2. \A n \in DOMAIN Inherited(c) :
           Inherited(c)[n] = CHOOSE i \in DeclaredAt(c, nearest(n)) : NameOf(i) = n
    BY <1>1 DEF Inherited, HasAt
  <1>3. \A n : n \in DOMAIN Inherited(c) <=> \E k \in 0..N : HasAt(c, n, k)
    BY <1>1 DEF HasAt
  <1>4. ASSUME NEW n \in DOMAIN Inherited(c)
        PROVE  nearest(n) \in Levels(n) /\ \A k \in Levels(n) : nearest(n) <= k
    <2> DEFINE S == Levels(n)
    <2>1. S # {} /\ S \subseteq 0..N
      BY <1>3
    <2> HIDE DEF S
    <2>2. S \subseteq Nat
      BY <2>1
    <2>3. SetMin(S) \in S /\ \A k \in S : SetMin(S) <= k
      BY <2>1, <2>2, SetMinIs
    <2> QED BY <2>3 DEF S
  <1>5. ASSUME NEW n \in DOMAIN Inherited(c), NEW k \in 0..N, HasAt(c, n, k),
               \A j \in 0..(k - 1) : ~ HasAt(c, n, j)
        PROVE  nearest(n) = k
    <2>1. k \in Levels(n)
      BY <1>5
    <2>2. nearest(n) <= k /\ nearest(n) \in 0..N
      BY <1>4, <2>1
    <2>3. HasAt(c, n, nearest(n))
      BY <1>4
    <2> HIDE DEF nearest
    <2>4. ~ nearest(n) \in 0..(k - 1)
      BY <1>5, <2>3
    <2> QED BY <2>2, <2>4
  <1>6. ASSUME NEW n \in DOMAIN Inherited(c)
        PROVE  \E k \in 0..N : Inherited(c)[n] \in DeclaredAt(c, k)
    <2>1. nearest(n) \in 0..N /\ HasAt(c, n, nearest(n))
      BY <1>4
    <2> HIDE DEF nearest
    <2>2. Inherited(c)[n] \in DeclaredAt(c, nearest(n))
      BY <1>2, <2>1 DEF HasAt
    <2> QED BY <2>1, <2>2
  <1>7. \A n \in DOMAIN Inherited(c) : \A k \in 0..N :
               HasAt(c, n, k) /\ (\A j \in 0..(k - 1) : ~ HasAt(c, n, j)) =>
                  Inherited(c)[n] = CHOOSE i \in DeclaredAt(c, k) : NameOf(i) = n
    BY <1>2, <1>5
  <1> QED BY <1>3, <1>6, <1>7

\* The argument a command names is one that it or a command above it declares.
LEMMA NamedArgument ==
  ASSUME NamespaceInv, ArgumentsAreComplete, ArgumentsDone, NEW c \in Containers, NEW ref
  PROVE  LET owner == definitions[c].owner
             i == ArgumentNamed(ref, owner)
         IN  i # 0 => /\ i \in Of({"argument"})
                      /\ \E k \in 0..Len(definitions) :
                            definitions[i].owner = Lineage(owner)[k]
  <1> DEFINE owner == definitions[c].owner
             i == ArgumentNamed(ref, owner)
             name == ref.segments[1]
  <1>1. SUFFICES ASSUME i # 0
                 PROVE  /\ i \in Of({"argument"})
                        /\ \E k \in 0..Len(definitions) : definitions[i].owner = Lineage(owner)[k]
    OBVIOUS
  <1>2. owner \in Commands
    <2>1. c \in 1..Len(definitions)
      BY Numbered
    <2>2. owner # 0
      BY <1>1 DEF ArgumentNamed
    <2>3. owner \in 1..(c - 1) /\ definitions[owner].kind = "command"
      BY <2>1, <2>2 DEF NamespaceInv, DefinitionsArePlaced
    <2> QED BY <2>1, <2>3, Numbered DEF Commands, Of
  <1>3. i = Lookup(arguments[owner], name)
    BY <1>1 DEF ArgumentNamed
  <1>4. arguments[owner] = Inherited(owner)
    BY <1>2 DEF ArgumentsAreComplete, ArgumentsDone
  <1>5. name \in DOMAIN Inherited(owner) /\ i = Inherited(owner)[name]
    BY <1>1, <1>3, <1>4 DEF Lookup
  <1>6. Len(definitions) \in Nat
    BY Numbered
  <1> HIDE DEF owner, i, name
  <1>7. PICK k \in 0..Len(definitions) : i \in DeclaredAt(owner, k)
    BY <1>5, <1>6, InheritedIs
  <1> QED BY <1>7 DEF DeclaredAt, OwnArguments

LEMMA MeantIs ==
  ASSUME NamespaceInv, ArgumentsAreComplete, ArgumentsDone, NEW c \in Containers, NEW entry
  PROVE  /\ entry.tag = "containerRef" => Meant(entry, c) \in Containers \cup {0}
         /\ entry.tag \in {"parameterRef", "argumentRef"} =>
               Meant(entry, c) \in Parameters \cup {0}
  <1>1. c \in 1..Len(definitions)
    BY Numbered
  <1>2. CASE entry.tag = "argumentRef"
    <2>1. Meant(entry, c) = ArgumentNamed(entry.ref, definitions[c].owner)
      BY <1>2 DEF Meant
    <2>2. Meant(entry, c) # 0 => Meant(entry, c) \in Of({"argument"})
      BY <2>1, NamedArgument
    <2> QED BY <1>2, <2>2 DEF Parameters, Of
  <1>3. CASE entry.tag # "argumentRef"
    BY <1>1, <1>3, FoundInTable DEF Meant
  <1> QED BY <1>2, <1>3

\* What an entry becomes: its failure, its places and the parameters made.
EntryShapes == [kind : {"unsupported", "fixedValue", "container", "parameter"}, target : Nat]
LoweredShapes ==
    [failure : {"none", "missing", "unresolved", "notExpanded"},
     entries : Seq(EntryShapes), extra : Seq(Simple)]

\* An entry whose type is read.
Reads(entry, c) ==
    /\ entry.tag \in {"parameterRef", "argumentRef"}
    /\ ~ entry.outOfScope /\ entry.ref # NoRef /\ Meant(entry, c) # 0

LEMMA NamedTypesAreRead ==
  ASSUME NEW c
  PROVE  \A t : t \in NamedTypes(c) <=>
            \E entry \in Range(Body(c).entries) :
               Reads(entry, c) /\ t = typeOf[Meant(entry, c)]
  BY DEF NamedTypes, Reads

\* The i-th field of a lowered entry, if it is new.
New(e, i, from, to) ==
    /\ e.kind = "parameter" /\ e.target = Len(definitions) + from + i
    /\ from + i <= to

\* A lowered entry takes its places, and its fields are new.
EntryFits(r, entry, c, from) ==
    /\ Len(r.entries) = Places(entry, c)
    /\ from <= Len(r.extra)
    /\ \A i \in 1..Len(r.entries) :
          \/ Old(r.entries[i], entry, c)
          \/ New(r.entries[i], i, from, Len(r.extra))
    /\ Reads(entry, c) => FieldsIn(typeOf[Meant(entry, c)]) <= MaxExpandedFields

\* The condition the containers are lowered in.
Ready == NamespaceInv /\ LoaderInv /\ ParametersDone

LEMMA ReadyIs ==
  ASSUME Ready
  PROVE  /\ NamespaceInv /\ ArgumentsAreComplete /\ ArgumentsDone /\ MembersAreTypes
         /\ BasesAreCommands /\ BasesDone
         /\ IsList(definitions) /\ Len(definitions) \in Nat
         /\ DOMAIN typeOf = Parameters /\ \A p \in Parameters : typeOf[p] \in Types
         /\ MaxExpandedFields \in Nat /\ MaxExpandedFields # 0
  BY Numbered, ExpansionAssumption
     DEF Ready, LoaderInv, ParametersDone, TypesDone, ArgumentsDone, MembersAreClosed, MembersAreTypes,
         ParametersAreTyped

LEMMA EnteredFits ==
  ASSUME Ready, NEW c \in Containers, NEW entry, entry.tag \in EntryTags,
         NEW types \in Seq(Simple)
  PROVE  /\ Entered(entry, c, types) \in LoweredShapes
         /\ Entered(entry, c, types).failure = "none" =>
               EntryFits(Entered(entry, c, types), entry, c, Len(types))
         /\ Entered(entry, c, types).failure = "notExpanded" =>
               Reads(entry, c) /\ FieldsIn(typeOf[Meant(entry, c)]) > MaxExpandedFields
  <1> DEFINE r == Entered(entry, c, types)
             meant == Meant(entry, c)
             t == typeOf[meant]
             leaves == Leaves(t).types
             n == Len(types)
             Right(x) == /\ x \in LoweredShapes
                         /\ x.failure = "none" => EntryFits(x, entry, c, n)
                         /\ x.failure = "notExpanded" =>
                               Reads(entry, c) /\ FieldsIn(t) > MaxExpandedFields
  <1>1. SUFFICES Right(r)
    OBVIOUS
  <1>2. n \in Nat /\ Len(definitions) \in Nat
    BY ReadyIs
  <1>4. ASSUME NEW x, NEW one \in EntryShapes, x = Lowered("none", <<one>>, types),
               Old(one, entry, c), Places(entry, c) = 1,
               Reads(entry, c) => FieldsIn(t) <= MaxExpandedFields
        PROVE  Right(x)
    <2>1. x \in LoweredShapes
      BY <1>4 DEF Lowered, LoweredShapes
    <2>2. /\ x.entries = <<one>> /\ x.extra = types /\ x.failure = "none"
      BY <1>4 DEF Lowered
    <2>3. Len(x.entries) = 1 /\ \A i \in 1..Len(x.entries) : x.entries[i] = one
      BY <2>2
    <2>4. EntryFits(x, entry, c, n)
      <3> HIDE DEF n
      <3>1. n <= Len(x.extra)
        BY <1>2, <2>2 DEF n
      <3> QED BY <1>4, <2>3, <3>1 DEF EntryFits
    <2> QED BY <2>1, <2>2, <2>4
  <1>5. ASSUME NEW x, NEW failed \in {"missing", "unresolved"},
               x = Lowered(failed, <<>>, types)
        PROVE  Right(x)
    BY <1>5 DEF Lowered, LoweredShapes
  <1>6. CASE entry.outOfScope \/ entry.tag = "other"
    <2>1. r = Lowered("none", <<Unsupported>>, types)
      BY <1>6 DEF Entered
    <2>2. Unsupported \in EntryShapes /\ Old(Unsupported, entry, c)
      BY DEF Unsupported, EntryShapes, Old
    <2>3. Places(entry, c) = 1 /\ ~ Reads(entry, c)
      BY <1>6 DEF Places, Reads
    <2> HIDE DEF r, Right
    <2> QED BY <1>4, <2>1, <2>2, <2>3
  <1>7. CASE ~ (entry.outOfScope \/ entry.tag = "other") /\ entry.ref = NoRef
    <2>1. r = Lowered("missing", <<>>, types)
      BY <1>7 DEF Entered
    <2> HIDE DEF r, Right
    <2> QED BY <1>5, <2>1
  <1> DEFINE Given == ~ (entry.outOfScope \/ entry.tag = "other") /\ entry.ref # NoRef
  <1>8. CASE Given /\ entry.tag = "fixedValue"
    <2> DEFINE one == [kind |-> "fixedValue", target |-> 0]
    <2>1. r = Lowered("none", <<one>>, types)
      BY <1>8 DEF Entered
    <2>2. one \in EntryShapes /\ Old(one, entry, c)
      BY DEF EntryShapes, Old
    <2>3. Places(entry, c) = 1 /\ ~ Reads(entry, c)
      BY <1>8 DEF Places, Reads
    <2> HIDE DEF r, Right, one
    <2> QED BY <1>4, <2>1, <2>2, <2>3
  <1>9. CASE Given /\ entry.tag # "fixedValue" /\ meant = 0
    <2>1. r = Lowered("unresolved", <<>>, types)
      BY <1>9 DEF Entered
    <2> HIDE DEF r, Right
    <2> QED BY <1>5, <2>1
  <1>10. CASE Given /\ entry.tag = "containerRef" /\ meant # 0
    <2> DEFINE one == [kind |-> "container", target |-> meant]
    <2>1. r = Lowered("none", <<one>>, types)
      BY <1>10 DEF Entered
    <2>2. meant \in Containers /\ meant \in Nat
      BY <1>10, MeantIs, ReadyIs, Numbered
    <2>3. one \in EntryShapes /\ Old(one, entry, c)
      BY <2>2 DEF EntryShapes, Old
    <2>4. Places(entry, c) = 1 /\ ~ Reads(entry, c)
      BY <1>10 DEF Places, Reads
    <2> HIDE DEF r, Right, one
    <2> QED BY <1>4, <2>1, <2>3, <2>4
  <1>11. CASE Given /\ entry.tag \in {"parameterRef", "argumentRef"} /\ meant # 0
    <2>1. meant \in Parameters /\ t \in Types /\ meant \in Nat
      BY <1>11, MeantIs, ReadyIs, Numbered
    <2>2. Reads(entry, c)
      BY <1>11 DEF Reads
    <2>3. CASE ~ IsComposite(t)
      <3> DEFINE one == [kind |-> "parameter", target |-> meant]
      <3>1. r = Lowered("none", <<one>>, types)
        BY <1>11, <2>3 DEF Entered
      <3>2. one \in EntryShapes /\ Old(one, entry, c)
        BY <1>11, <2>1, <2>3 DEF EntryShapes, Old, Simple
      <3>3. FieldsIn(t) = 1
        <4> HIDE DEF t
        <4> QED BY <2>1, <2>3, ReadyIs, SimpleIsOneField
      <3>4. Places(entry, c) = 1
        BY <3>3 DEF Places
      <3>5. FieldsIn(t) <= MaxExpandedFields
        BY <3>3, ReadyIs
      <3> HIDE DEF r, Right, one
      <3> QED BY <1>4, <3>1, <3>2, <3>4, <3>5
    <2>4. CASE IsComposite(t)
      <3>1. /\ Leaves(t) \in FieldLists(Simple) /\ FieldsIn(t) \in Nat
            /\ Leaves(t).ok => /\ FieldsIn(t) = Len(Leaves(t).types)
                               /\ FieldsIn(t) <= MaxExpandedFields
            /\ ~ Leaves(t).ok => FieldsIn(t) > MaxExpandedFields
        <4> HIDE DEF t
        <4> QED BY <2>1, ReadyIs, ExpansionIsCounted
      <3>2. leaves \in Seq(Simple) /\ Len(leaves) \in Nat
        BY <3>1 DEF FieldLists
      <3>3. types \o leaves \in Seq(Simple) /\ Len(types \o leaves) = n + Len(leaves)
        <4> HIDE DEF leaves
        <4> QED BY <3>2
      <3>4. CASE ~ Leaves(t).ok
        <4>1. r = Lowered("notExpanded", <<>>, types)
          BY <1>11, <2>4, <3>4 DEF Entered
        <4>2. r \in LoweredShapes /\ r.failure = "notExpanded"
          BY <4>1 DEF Lowered, LoweredShapes
        <4> HIDE DEF r
        <4> QED BY <2>2, <3>1, <3>4, <4>2
      <3>5. CASE Leaves(t).ok /\ entry.placed
        <4>1. r = Lowered("none", <<Unsupported>>, types \o leaves)
          BY <1>11, <2>4, <3>5 DEF Entered
        <4> DEFINE longer == types \o leaves
        <4>2. /\ r.entries = <<Unsupported>> /\ r.extra = longer /\ r.failure = "none"
          BY <4>1 DEF Lowered
        <4>3. Unsupported \in EntryShapes /\ Old(Unsupported, entry, c)
          BY DEF Unsupported, EntryShapes, Old
        <4>4. Places(entry, c) = 1
          BY <3>5 DEF Places
        <4>5. longer \in Seq(Simple) /\ n <= Len(longer)
          BY <1>2, <3>2, <3>3
        <4> HIDE DEF longer
        <4>6. r \in LoweredShapes
          BY <4>1, <4>3, <4>5 DEF Lowered, LoweredShapes, longer
        <4> HIDE DEF r, n
        <4>7. Len(r.entries) = 1 /\ \A i \in 1..Len(r.entries) : r.entries[i] = Unsupported
          BY <4>2
        <4>8. EntryFits(r, entry, c, n)
          BY <3>1, <3>5, <4>2, <4>3, <4>4, <4>5, <4>7 DEF EntryFits
        <4> QED BY <4>2, <4>6, <4>8
      <3>6. CASE Leaves(t).ok /\ ~ entry.placed
        <4> DEFINE longer == types \o leaves
                   made == [i \in DOMAIN leaves |-> [kind |-> "parameter",
                               target |-> Len(definitions) + Len(types) + i]]
        <4>1. r = Lowered("none", made, longer)
          BY <1>11, <2>4, <3>6 DEF Entered
        <4>2. r.entries = made /\ r.extra = longer /\ r.failure = "none"
          BY <4>1 DEF Lowered
        <4>3. made \in Seq(EntryShapes) /\ Len(made) = Len(leaves)
              /\ \A i \in 1..Len(made) : /\ made[i].kind = "parameter"
                                         /\ made[i].target = Len(definitions) + n + i
          <5>1. DOMAIN leaves = 1..Len(leaves)
            <6> HIDE DEF leaves
            <6> QED BY <3>2
          <5>2. \A i \in 1..Len(leaves) :
                   [kind |-> "parameter", target |-> Len(definitions) + n + i] \in EntryShapes
            BY <1>2, <3>2 DEF EntryShapes
          <5>3. made = [i \in 1..Len(leaves) |->
                          [kind |-> "parameter", target |-> Len(definitions) + n + i]]
            BY <5>1
          <5> HIDE DEF made, n
          <5>4. made \in Seq(EntryShapes) /\ Len(made) = Len(leaves)
            BY <3>2, <5>2, <5>3
          <5> QED BY <5>3, <5>4
        <4>4. longer \in Seq(Simple) /\ n <= Len(longer) /\ Len(longer) = n + Len(leaves)
          BY <1>2, <3>2, <3>3
        <4> HIDE DEF longer, made
        <4>5. r \in LoweredShapes
          BY <4>1, <4>3, <4>4 DEF Lowered, LoweredShapes
        <4>6. Len(made) = Places(entry, c)
          BY <1>11, <3>1, <3>6, <4>3 DEF Places
        <4> HIDE DEF r
        <4>7. \A i \in 1..Len(r.entries) : New(r.entries[i], i, n, Len(r.extra))
          <5>1. ASSUME NEW i \in 1..Len(made) PROVE n + i <= Len(longer)
            <6> DEFINE k == Len(leaves)
            <6>1. i \in 1..k /\ Len(longer) = n + k /\ k \in Nat
              BY <3>2, <4>3, <4>4
            <6> HIDE DEF k
            <6> QED BY <1>2, <6>1
          <5> QED BY <4>2, <4>3, <5>1 DEF New
        <4>8. EntryFits(r, entry, c, n)
          <5> HIDE DEF n
          <5> QED BY <3>1, <3>6, <4>2, <4>4, <4>6, <4>7 DEF EntryFits
        <4> QED BY <4>2, <4>5, <4>8
      <3> QED BY <3>4, <3>5, <3>6
    <2> QED BY <2>3, <2>4
  <1> HIDE DEF r, Right
  <1> QED BY <1>6, <1>7, <1>8, <1>9, <1>10, <1>11 DEF EntryTags

\* One entry more.
Longer(before, x) == [x EXCEPT !.entries = before.entries \o @]
Further(entry, c, before) ==
    IF before.failure # "none" THEN before
    ELSE Longer(before, Entered(entry, c, before.extra))

LEMMA LongerIs ==
  ASSUME NEW x \in LoweredShapes, NEW y \in LoweredShapes
  PROVE  /\ Longer(x, y) \in LoweredShapes
         /\ Longer(x, y).failure = y.failure /\ Longer(x, y).extra = y.extra
         /\ Longer(x, y).entries = x.entries \o y.entries
  <1> DEFINE both == x.entries \o y.entries
             z == [y EXCEPT !.entries = x.entries \o @]
  <1>1. x.entries \in Seq(EntryShapes) /\ y.entries \in Seq(EntryShapes)
    BY DEF LoweredShapes
  <1>2. both \in Seq(EntryShapes)
    BY <1>1
  <1>3. z = [y EXCEPT !.entries = both]
    OBVIOUS
  <1> HIDE DEF both
  <1>4. [y EXCEPT !.entries = both] \in LoweredShapes
    BY <1>2 DEF LoweredShapes
  <1>5. /\ [y EXCEPT !.entries = both].failure = y.failure
        /\ [y EXCEPT !.entries = both].extra = y.extra
        /\ [y EXCEPT !.entries = both].entries = both
    BY DEF LoweredShapes
  <1>6. Longer(x, y) = [y EXCEPT !.entries = both]
    BY <1>3 DEF Longer
  <1> QED BY <1>4, <1>5, <1>6 DEF both

LEMMA EntriesHaveTags ==
  ASSUME NamespaceInv, NEW c \in Containers
  PROVE  /\ Len(Body(c).entries) \in Nat /\ DOMAIN Body(c).entries = 1..Len(Body(c).entries)
         /\ \A i \in 1..Len(Body(c).entries) :
               /\ Body(c).entries[i] \in Range(Body(c).entries)
               /\ Body(c).entries[i].tag \in EntryTags
         /\ \A entry \in Range(Body(c).entries) : \E i \in 1..Len(Body(c).entries) :
               entry = Body(c).entries[i]
  <1> DEFINE list == Body(c).entries
  <1>1. c \in 1..Len(definitions) /\ definitions[c].kind = "container"
    BY Numbered DEF Containers, Of
  <1>2. Body(c) \in Bodies["container"]
    BY <1>1, Numbered DEF Body
  <1>3. list \in Seq(Range(list)) /\ \A entry \in Range(list) : entry.tag \in EntryTags
    BY <1>2, BodyShapes
  <1> HIDE DEF list
  <1>4. Len(list) \in Nat /\ DOMAIN list = 1..Len(list)
    BY <1>3
  <1>5. Range(list) = {list[i] : i \in 1..Len(list)}
    BY <1>4 DEF Range
  <1> QED BY <1>3, <1>4, <1>5 DEF list

LEMMA EntriesUnfold ==
  ASSUME Ready, NEW c \in Containers
  PROVE  \E upTo \in [0..Len(Body(c).entries) -> LoweredShapes] :
            /\ EntriesOf(c) = upTo[Len(Body(c).entries)]
            /\ upTo[0] = Lowered("none", <<>>, extra)
            /\ \A i \in 1..Len(Body(c).entries) :
                  upTo[i] = Further(Body(c).entries[i], c, upTo[i - 1])
  <1> DEFINE list == Body(c).entries
             N == Len(list)
             V == LoweredShapes
             first == Lowered("none", <<>>, extra)
             parent == [k \in 1..N |-> k - 1]
             step == [x \in (1..N) \X V |-> Further(list[x[1]], c, x[2])]
             Solves(g) == g = [i \in 0..Len(Body(c).entries) |->
                IF i = 0 THEN Lowered("none", <<>>, extra)
                ELSE IF g[i - 1].failure # "none" THEN g[i - 1]
                ELSE LET next == Entered(Body(c).entries[i], c, g[i - 1].extra)
                     IN  [next EXCEPT !.entries = g[i - 1].entries \o @]]
             upTo == CHOOSE g : Solves(g)
  <1>1. EntriesOf(c) = upTo[N]
    BY DEF EntriesOf
  <1>2. N \in Nat /\ \A i \in 1..N : list[i].tag \in EntryTags
    BY EntriesHaveTags DEF Ready
  <1>3. first \in V
    <2>1. extra \in Seq(Simple)
      BY DEF Ready, LoaderInv, LeavesAreSimple
    <2> QED BY <2>1 DEF Lowered, LoweredShapes
  <1>4. ASSUME NEW k \in 1..N, NEW v \in V PROVE Further(list[k], c, v) \in V
    <2>1. v.extra \in Seq(Simple)
      BY DEF LoweredShapes
    <2> HIDE DEF list, N
    <2>2. Entered(list[k], c, v.extra) \in V
      BY <1>2, <2>1, EnteredFits
    <2>3. Longer(v, Entered(list[k], c, v.extra)) \in V
      BY <2>2, LongerIs
    <2> QED BY <2>3 DEF Further
  <1>5. \A g : Solves(g) <=> g = [i \in 0..N |-> IF i = 0 THEN first
                                               ELSE Further(list[i], c, g[i - 1])]
    BY DEF Further, Longer
  <1> HIDE DEF Solves, first, N, list
  <1>6. \E g \in [0..N -> V] : g[0] = first /\ \A k \in 1..N : g[k] = Further(list[k], c, g[k - 1])
    <2>1. \A k \in 1..N : parent[k] = k - 1 /\ k - 1 \in 0..N /\ k - 1 \in 0..(k - 1)
      BY <1>2
    <2>2. \A k \in 1..N : \A v \in V : step[<<k, v>>] = Further(list[k], c, v)
      OBVIOUS
    <2> HIDE DEF V, parent, step
    <2>3. Earlier(parent, N) /\ StaysIn(V, step, N)
      BY <1>4, <2>1, <2>2 DEF Earlier, StaysIn
    <2>4. PICK g \in [0..N -> V] : Follows(g, first, parent, step, N)
      BY <1>2, <1>3, <2>3, TreeRecursion
    <2>5. g[0] = first /\ \A k \in 1..N : g[k] = step[<<k, g[parent[k]]>>]
      BY <2>4 DEF Follows
    <2>6. ASSUME NEW k \in 1..N PROVE g[k] = Further(list[k], c, g[k - 1])
      <3>1. g[k - 1] \in V
        BY <2>1, <2>4
      <3>2. g[k] = step[<<k, g[k - 1]>>]
        BY <2>1, <2>5
      <3> QED BY <2>2, <3>1, <3>2
    <2> QED BY <2>4, <2>5, <2>6
  <1>7. Solves(upTo)
    <2>1. PICK g \in [0..N -> V] : g[0] = first /\ \A k \in 1..N : g[k] = Further(list[k], c, g[k - 1])
      BY <1>6
    <2>2. \A k \in 0..N : k = 0 \/ k \in 1..N
      BY <1>2
    <2> HIDE DEF V
    <2>3. g = [i \in 0..N |-> IF i = 0 THEN first ELSE Further(list[i], c, g[i - 1])]
      BY <2>1, <2>2
    <2>4. Solves(g)
      BY <1>5, <2>3
    <2> QED BY <2>4
  <1> HIDE DEF upTo
  <1>8. upTo = [i \in 0..N |-> IF i = 0 THEN first ELSE Further(list[i], c, upTo[i - 1])]
    BY <1>5, <1>7
  <1>9. upTo[0] = first /\ \A k \in 1..N : upTo[k] = Further(list[k], c, upTo[k - 1])
    <2>1. 0 \in 0..N /\ \A k \in 1..N : k \in 0..N /\ k # 0
      BY <1>2
    <2>2. upTo[0] = first
      BY <1>8, <2>1
    <2>3. \A k \in 1..N : upTo[k] = Further(list[k], c, upTo[k - 1])
      BY <1>8, <2>1
    <2> QED BY <2>2, <2>3
  <1>10. upTo \in [0..N -> V]
    <2> DEFINE T == {k \in 0..N : upTo[k] \in V}
    <2> HIDE DEF V
    <2>1. 0 \in T
      BY <1>2, <1>3, <1>9
    <2>2. ASSUME NEW k \in 1..N, k - 1 \in T PROVE k \in T
      <3>1. upTo[k] \in V
        BY <1>4, <1>9, <2>2
      <3> QED BY <1>2, <3>1
    <2> HIDE DEF T
    <2>3. 0..N \subseteq T
      BY <1>2, <2>1, <2>2, InductionTo
    <2> QED BY <1>8, <2>3 DEF T
  <1> QED BY <1>1, <1>9, <1>10 DEF N, list, first

\* The entries of container c so far: each leads to the document or to one of
\* the parameters made since there were `from', and no two to the same of these.
Sound(x, c, from) ==
    /\ from <= Len(x.extra)
    /\ \A i \in 1..Len(x.entries) :
          OldOf(x.entries[i], c) \/ MadeOf(x.entries[i], from, Len(x.extra))
    /\ \A i, j \in 1..Len(x.entries) :
          x.entries[i].target > Len(definitions) /\ x.entries[i].target = x.entries[j].target
             => i = j

LEMMA OldIsLow ==
  ASSUME NamespaceInv, NEW c, NEW e, OldOf(e, c)
  PROVE  ~ (e.target > Len(definitions)) /\ e.target \in Nat
  <1>1. e.target = 0 \/ e.target \in Containers \/ e.target \in Parameters
    BY DEF OldOf, Old
  <1>2. e.target \in 0..Len(definitions)
    BY <1>1, Numbered
  <1> QED BY <1>2, Numbered

LEMMA LongerIsSound ==
  ASSUME NamespaceInv, NEW c, NEW from \in Nat,
         NEW x \in LoweredShapes, Sound(x, c, from),
         NEW y \in LoweredShapes, NEW entry \in Range(Body(c).entries),
         EntryFits(y, entry, c, Len(x.extra))
  PROVE  Sound(Longer(x, y), c, from)
         /\ Len(Longer(x, y).entries) = Len(x.entries) + Len(y.entries)
  <1> DEFINE z == Longer(x, y)
             a == Len(x.entries)
             b == Len(y.entries)
             m == Len(x.extra)
             n == Len(y.extra)
             N == Len(definitions)
  <1>1. z.extra = y.extra /\ z.entries = x.entries \o y.entries
    BY LongerIs
  <1>2. x.entries \in Seq(EntryShapes) /\ y.entries \in Seq(EntryShapes)
        /\ m \in Nat /\ n \in Nat /\ a \in Nat /\ b \in Nat
    BY DEF LoweredShapes
  <1>3. IsList(x.entries) /\ IsList(y.entries)
    BY <1>2, SeqIsList
  <1>4. /\ Len(z.entries) = a + b
        /\ \A i \in 1..a : z.entries[i] = x.entries[i]
        /\ \A i \in 1..b : z.entries[a + i] = y.entries[i]
    <2> DEFINE xs == x.entries
               ys == y.entries
    <2>1. IsList(xs) /\ IsList(ys) /\ z.entries = xs \o ys
      BY <1>1, <1>3
    <2> HIDE DEF xs, ys, z
    <2>2. Len(xs \o ys) = Len(xs) + Len(ys)
      BY <2>1, ListConcat
    <2>3. \A i \in 1..Len(xs) : (xs \o ys)[i] = xs[i]
      BY <2>1, ListConcat
    <2>4. \A i \in 1..Len(ys) : (xs \o ys)[Len(xs) + i] = ys[i]
      BY <2>1, ListConcat
    <2> QED BY <2>1, <2>2, <2>3, <2>4 DEF xs, ys
  <1>5. N \in Nat
    BY Numbered
  <1>6. from <= m /\ m <= n
    BY DEF Sound, EntryFits
  <1>7. ASSUME NEW i \in 1..a
        PROVE  OldOf(z.entries[i], c) \/ MadeOf(z.entries[i], from, m)
    BY <1>4 DEF Sound
  <1>8. ASSUME NEW i \in 1..b
        PROVE  OldOf(z.entries[a + i], c) \/ New(z.entries[a + i], i, m, n)
    BY <1>4 DEF EntryFits, OldOf
  <1> HIDE DEF z, a, b, m, n, N
  <1>9. \A k \in 1..(a + b) : k \in 1..a \/ \E i \in 1..b : k = a + i
    <2> SUFFICES ASSUME NEW k \in 1..(a + b), ~ (k \in 1..a) PROVE \E i \in 1..b : k = a + i
      OBVIOUS
    <2>1. k - a \in 1..b /\ k = a + (k - a)
      BY <1>2
    <2> QED BY <2>1
  <1>10. \A i \in 1..a : z.entries[i].target > N =>
            z.entries[i].target = x.entries[i].target /\ z.entries[i].target \in 1..(N + m)
    <2> SUFFICES ASSUME NEW i \in 1..a, z.entries[i].target > N
                 PROVE  z.entries[i].target = x.entries[i].target
                        /\ z.entries[i].target \in 1..(N + m)
      OBVIOUS
    <2>1. MadeOf(z.entries[i], from, m)
      BY <1>7, OldIsLow DEF N
    <2>2. z.entries[i].target \in (N + from + 1)..(N + m)
      BY <2>1 DEF MadeOf, N
    <2> QED BY <1>2, <1>4, <1>5, <2>2
  <1>11. \A i \in 1..b : z.entries[a + i].target > N =>
            z.entries[a + i].target = N + m + i /\ m + i <= n
    <2> SUFFICES ASSUME NEW i \in 1..b, z.entries[a + i].target > N
                 PROVE  z.entries[a + i].target = N + m + i /\ m + i <= n
      OBVIOUS
    <2>1. New(z.entries[a + i], i, m, n)
      BY <1>8, OldIsLow DEF N
    <2> QED BY <2>1 DEF New, N
  <1>12. \A k \in 1..(a + b) : OldOf(z.entries[k], c) \/ MadeOf(z.entries[k], from, n)
    <2>1. ASSUME NEW i \in 1..a PROVE OldOf(z.entries[i], c) \/ MadeOf(z.entries[i], from, n)
      <3>1. CASE OldOf(z.entries[i], c)
        BY <3>1
      <3>2. CASE MadeOf(z.entries[i], from, m)
        BY <1>2, <1>5, <1>6, <3>2 DEF MadeOf, N
      <3> QED BY <1>7, <3>1, <3>2
    <2>2. ASSUME NEW i \in 1..b
          PROVE  OldOf(z.entries[a + i], c) \/ MadeOf(z.entries[a + i], from, n)
      <3>1. CASE OldOf(z.entries[a + i], c)
        BY <3>1
      <3>2. CASE New(z.entries[a + i], i, m, n)
        BY <1>2, <1>5, <1>6, <3>2 DEF New, MadeOf, N
      <3> QED BY <1>8, <3>1, <3>2
    <2> QED BY <1>9, <2>1, <2>2
  <1>13. ASSUME NEW k \in 1..(a + b), NEW l \in 1..(a + b),
                z.entries[k].target > N, z.entries[k].target = z.entries[l].target
         PROVE  k = l
    <2>1. CASE k \in 1..a /\ l \in 1..a
      <3>1. /\ x.entries[k].target = z.entries[k].target
            /\ x.entries[l].target = z.entries[l].target
        BY <1>4, <2>1
      <3>2. x.entries[k].target > N /\ x.entries[k].target = x.entries[l].target
        BY <1>13, <3>1
      <3> QED BY <2>1, <3>2 DEF Sound, a, N
    <2>2. ASSUME NEW i \in 1..b, k = a + i, l \in 1..a PROVE FALSE
      <3>1. z.entries[k].target = N + m + i /\ z.entries[l].target \in 1..(N + m)
        BY <1>10, <1>11, <1>13, <2>2
      <3> QED BY <1>2, <1>5, <1>13, <3>1
    <2>3. ASSUME NEW j \in 1..b, l = a + j, k \in 1..a PROVE FALSE
      <3>1. z.entries[l].target = N + m + j /\ z.entries[k].target \in 1..(N + m)
        BY <1>10, <1>11, <1>13, <2>3
      <3> QED BY <1>2, <1>5, <1>13, <3>1
    <2>4. ASSUME NEW i \in 1..b, k = a + i, NEW j \in 1..b, l = a + j PROVE k = l
      <3>1. z.entries[k].target = N + m + i /\ z.entries[l].target = N + m + j
        BY <1>11, <1>13, <2>4
      <3> QED BY <1>2, <1>5, <1>13, <2>4, <3>1
    <2> QED BY <1>9, <2>1, <2>2, <2>3, <2>4
  <1>14. from <= n
    BY <1>2, <1>6
  <1>15. Len(z.entries) = a + b /\ Len(z.extra) = n
    BY <1>1, <1>4 DEF n
  <1>16. Sound(z, c, from)
    BY <1>12, <1>13, <1>14, <1>15 DEF Sound, N
  <1> QED BY <1>15, <1>16 DEF z, a, b

\* The entries of a container that is lowered without a failure.
LEMMA EntriesAreSound ==
  ASSUME Ready, NEW c \in Containers, EntriesOf(c).failure = "none"
  PROVE  /\ Sound(EntriesOf(c), c, Len(extra))
         /\ Len(EntriesOf(c).entries) = Total(PlacesOf(c))
         /\ \A t \in NamedTypes(c) : FieldsIn(t) <= MaxExpandedFields
  <1> DEFINE list == Body(c).entries
             n == Len(list)
             from == Len(extra)
             places == PlacesOf(c)
  <1>1. NamespaceInv /\ extra \in Seq(Simple)
    BY DEF Ready, LoaderInv, LeavesAreSimple
  <1>2. /\ n \in Nat /\ DOMAIN list = 1..n
        /\ \A i \in 1..n : list[i] \in Range(list) /\ list[i].tag \in EntryTags
        /\ \A entry \in Range(list) : \E i \in 1..n : entry = list[i]
    BY <1>1, EntriesHaveTags
  <1>3. PICK upTo \in [0..n -> LoweredShapes] :
           /\ EntriesOf(c) = upTo[n] /\ upTo[0] = Lowered("none", <<>>, extra)
           /\ \A i \in 1..n : upTo[i] = Further(list[i], c, upTo[i - 1])
    BY EntriesUnfold
  <1> DEFINE T == {k \in 0..n : upTo[n - k].failure = "none"}
  <1>4. 0..n \subseteq T
    <2> HIDE DEF list, n
    <2>1. 0 \in T
      BY <1>2, <1>3
    <2>2. ASSUME NEW k \in 1..n, k - 1 \in T PROVE k \in T
      <3>1. n - k \in 0..n /\ n - (k - 1) \in 1..n /\ (n - (k - 1)) - 1 = n - k /\ k \in 0..n
        BY <1>2
      <3>2. upTo[n - (k - 1)] = Further(list[n - (k - 1)], c, upTo[n - k])
        BY <1>3, <3>1
      <3>3. upTo[n - (k - 1)].failure = "none"
        BY <2>2
      <3>4. upTo[n - k].failure = "none"
        BY <3>2, <3>3 DEF Further
      <3> QED BY <3>1, <3>4
    <2> HIDE DEF T
    <2> QED BY <1>2, <2>1, <2>2, InductionTo
  <1>5. ASSUME NEW k \in 0..n PROVE upTo[k].failure = "none"
    <2> HIDE DEF list, n, T
    <2>1. n - k \in T /\ n - (n - k) = k
      BY <1>2, <1>4
    <2> QED BY <2>1 DEF T
  <1> DEFINE Next1(i) == Entered(list[i], c, upTo[i - 1].extra)
  <1>6. ASSUME NEW i \in 1..n
        PROVE  /\ upTo[i - 1] \in LoweredShapes /\ Next1(i) \in LoweredShapes
               /\ upTo[i] = Longer(upTo[i - 1], Next1(i))
               /\ EntryFits(Next1(i), list[i], c, Len(upTo[i - 1].extra))
               /\ i - 1 \in 0..n /\ i \in 0..n
    <2> HIDE DEF list, n
    <2>1. i - 1 \in 0..n /\ i \in 0..n
      BY <1>2
    <2>2. upTo[i - 1] \in LoweredShapes /\ upTo[i - 1].failure = "none"
      BY <1>3, <1>5, <2>1
    <2>3. upTo[i - 1].extra \in Seq(Simple)
      BY <2>2 DEF LoweredShapes
    <2> DEFINE t == upTo[i - 1].extra
               e == list[i]
               y == Entered(e, c, t)
    <2>4. t \in Seq(Simple) /\ e.tag \in EntryTags
      BY <1>2, <2>3
    <2>5. y \in LoweredShapes
      <3> HIDE DEF t, e
      <3> QED BY <2>4, EnteredFits
    <2>6. y.failure = "none" => EntryFits(y, e, c, Len(t))
      <3> HIDE DEF t, e
      <3> QED BY <2>4, EnteredFits
    <2>7. upTo[i] = Longer(upTo[i - 1], y)
      BY <1>3, <2>2 DEF Further
    <2> HIDE DEF y
    <2>8. upTo[i].failure = y.failure
      <3> DEFINE x == upTo[i - 1]
      <3>1. x \in LoweredShapes /\ upTo[i] = Longer(x, y)
        BY <2>2, <2>7
      <3> HIDE DEF x
      <3>2. Longer(x, y).failure = y.failure
        BY <2>5, <3>1, LongerIs
      <3> QED BY <3>1, <3>2
    <2>9. y.failure = "none"
      BY <1>5, <2>1, <2>8
    <2> QED BY <2>1, <2>2, <2>5, <2>6, <2>7, <2>9 DEF y
  <1>7. \A i \in 1..n : places[i] = Len(Next1(i).entries) /\ places[i] \in Nat
    <2> SUFFICES ASSUME NEW i \in 1..n
                 PROVE  places[i] = Len(Next1(i).entries) /\ places[i] \in Nat
      OBVIOUS
    <2>1. places[i] = Places(list[i], c)
      BY <1>2 DEF PlacesOf
    <2> DEFINE y == Next1(i)
    <2>2. Len(y.entries) = Places(list[i], c) /\ y \in LoweredShapes
      BY <1>6 DEF EntryFits
    <2> HIDE DEF y, list, places
    <2>3. Len(y.entries) \in Nat
      BY <2>2 DEF LoweredShapes
    <2> QED BY <2>1, <2>2, <2>3 DEF y
  <1>8. DOMAIN places = 1..n
    BY <1>2 DEF PlacesOf
  <1> HIDE DEF Next1, places, list, n, T
  <1>9. PICK sum \in [0..n -> Nat] : /\ Total(places) = sum[n] /\ sum[0] = 0
                                     /\ \A i \in 1..n : sum[i] = sum[i - 1] + places[i]
    BY <1>2, <1>7, <1>8, TotalUnfold
  <1> DEFINE U == {k \in 0..n : Sound(upTo[k], c, from) /\ Len(upTo[k].entries) = sum[k]}
  <1>10. 0 \in U
    <2>1. upTo[0].entries = <<>> /\ upTo[0].extra = extra
      BY <1>3 DEF Lowered
    <2>2. Len(upTo[0].entries) = 0 /\ 1..0 = {} /\ Len(extra) \in Nat
      BY <1>1, <2>1
    <2>3. Sound(upTo[0], c, from)
      BY <2>1, <2>2 DEF Sound
    <2> QED BY <1>2, <1>9, <2>2, <2>3
  <1>11. ASSUME NEW k \in 1..n, k - 1 \in U PROVE k \in U
    <2> DEFINE x == upTo[k - 1]
               y == Next1(k)
               e == list[k]
    <2>1. /\ x \in LoweredShapes /\ y \in LoweredShapes /\ upTo[k] = Longer(x, y)
          /\ EntryFits(y, e, c, Len(x.extra)) /\ e \in Range(Body(c).entries)
          /\ Sound(x, c, from) /\ Len(x.entries) = sum[k - 1] /\ k \in 0..n
      BY <1>2, <1>6, <1>11 DEF list
    <2>2. from \in Nat
      BY <1>1
    <2> HIDE DEF x, y, e, from
    <2>3. Sound(Longer(x, y), c, from)
      BY <1>1, <2>1, <2>2, LongerIsSound
    <2>4. Len(Longer(x, y).entries) = Len(x.entries) + Len(y.entries)
      BY <1>1, <2>1, <2>2, LongerIsSound
    <2>5. sum[k] = sum[k - 1] + Len(y.entries)
      BY <1>7, <1>9 DEF y
    <2>6. Len(upTo[k].entries) = sum[k]
      BY <2>1, <2>4, <2>5
    <2> QED BY <2>1, <2>3, <2>6
  <1>12. n \in U
    <2> HIDE DEF U
    <2>1. 0..n \subseteq U
      BY <1>2, <1>10, <1>11, InductionTo
    <2> QED BY <1>2, <2>1
  <1>13. ASSUME NEW t \in NamedTypes(c) PROVE FieldsIn(t) <= MaxExpandedFields
    <2>1. PICK entry \in Range(list) : Reads(entry, c) /\ t = typeOf[Meant(entry, c)]
      BY NamedTypesAreRead DEF list
    <2>2. PICK i \in 1..n : entry = list[i]
      BY <1>2, <2>1
    <2> QED BY <1>6, <2>1, <2>2 DEF EntryFits
  <1> QED BY <1>3, <1>9, <1>12, <1>13 DEF places

\* When fields are too many one of the types the container reads has too many.
LEMMA NotExpandedIsJustified ==
  ASSUME Ready, NEW c \in Containers, EntriesOf(c).failure = "notExpanded"
  PROVE  \E t \in NamedTypes(c) : FieldsIn(t) > MaxExpandedFields
  <1> DEFINE list == Body(c).entries
             n == Len(list)
             Bad == \E t \in NamedTypes(c) : FieldsIn(t) > MaxExpandedFields
  <1>1. /\ n \in Nat
        /\ \A i \in 1..n : list[i] \in Range(list) /\ list[i].tag \in EntryTags
    BY EntriesHaveTags DEF Ready
  <1>2. PICK upTo \in [0..n -> LoweredShapes] :
           /\ EntriesOf(c) = upTo[n] /\ upTo[0] = Lowered("none", <<>>, extra)
           /\ \A i \in 1..n : upTo[i] = Further(list[i], c, upTo[i - 1])
    BY EntriesUnfold
  <1> DEFINE T == {k \in 0..n : upTo[k].failure = "notExpanded" => Bad}
  <1>3. 0 \in T
    BY <1>1, <1>2 DEF Lowered
  <1>4. ASSUME NEW k \in 1..n, k - 1 \in T PROVE k \in T
    <2> HIDE DEF n, list
    <2> DEFINE x == upTo[k - 1]
               e == list[k]
               t == x.extra
               y == Entered(e, c, t)
    <2>1. k \in 0..n /\ k - 1 \in 0..n /\ x \in LoweredShapes /\ upTo[k] = Further(e, c, x)
          /\ e.tag \in EntryTags /\ e \in Range(Body(c).entries)
      BY <1>1, <1>2 DEF list
    <2>2. CASE x.failure # "none"
      BY <1>4, <2>1, <2>2 DEF Further
    <2>3. CASE x.failure = "none"
      <3>1. t \in Seq(Simple)
        BY <2>1 DEF LoweredShapes
      <3>2. y \in LoweredShapes
        <4> HIDE DEF t, e, x
        <4> QED BY <2>1, <3>1, EnteredFits
      <3>3. y.failure = "notExpanded" =>
              Reads(e, c) /\ FieldsIn(typeOf[Meant(e, c)]) > MaxExpandedFields
        <4> HIDE DEF t, e, x
        <4> QED BY <2>1, <3>1, EnteredFits
      <3>4. upTo[k] = Longer(x, y)
        BY <2>1, <2>3 DEF Further
      <3> HIDE DEF y, x, e, Bad
      <3>5. upTo[k].failure = y.failure
        <4>1. Longer(x, y).failure = y.failure
          BY <2>1, <3>2, LongerIs
        <4> QED BY <3>4, <4>1
      <3>6. y.failure = "notExpanded" => Bad
        BY <2>1, <3>3, NamedTypesAreRead DEF Bad
      <3> QED BY <2>1, <3>5, <3>6
    <2> QED BY <2>2, <2>3
  <1>5. n \in T
    <2> HIDE DEF T, n
    <2>1. 0..n \subseteq T
      BY <1>1, <1>3, <1>4, InductionTo
    <2> QED BY <1>1, <2>1
  <1> QED BY <1>2, <1>5

LEMMA LowerContainerKeeps ==
  ASSUME NamespaceInv, LoaderInv, LowerContainer, UNCHANGED namespaceVars
  PROVE  LoaderInv'
  <1>0. PICK c : c = NextOf(Containers, containers)
    OBVIOUS
  <1> DEFINE body == Body(c)
             owner == definitions[c].owner
             found == IF body.base = NoRef THEN 0 ELSE Find(body.base, c, "container")
             assigned == Assigned(owner)
  <1>9. PICK r : r = EntriesOf(c)
    OBVIOUS
  <1>1. pass = "containers" /\ c # 0
    BY <1>0, <1>9 DEF LowerContainer
  <1>2. c \in Containers /\ c \notin DOMAIN containers
    <2> DEFINE n == Len(definitions)
    <2>1. n \in Nat /\ Containers \subseteq 1..n
      BY Numbered
    <2> HIDE DEF n
    <2> QED BY <1>0, <1>9, <1>1, <2>1, NextOfIs
  <1>3. Ready
    BY <1>1 DEF Ready, LoaderInv, PhasesInOrder
  <1>4. r \in LoweredShapes
    <2>1. Len(body.entries) \in 0..Len(body.entries)
      BY <1>2, EntriesHaveTags
    <2>2. PICK upTo \in [0..Len(body.entries) -> LoweredShapes] : r = upTo[Len(body.entries)]
      BY <1>2, <1>3, <1>9, EntriesUnfold
    <2> QED BY <2>1, <2>2
  <1>5. CASE body.base # NoRef /\ found = 0
    <2>1. Fail("unresolved") /\ Reasoned("unresolved")
      BY <1>0, <1>9, <1>5 DEF LowerContainer, Reasoned
    <2> QED BY <1>1, <2>1, FailKeeps
  <1>6. CASE ~ (body.base # NoRef /\ found = 0) /\ \E i \in DOMAIN assigned : assigned[i] = 0
    <2>1. Fail("unresolved") /\ Reasoned("unresolved")
      BY <1>0, <1>9, <1>6 DEF LowerContainer, Reasoned
    <2> QED BY <1>1, <2>1, FailKeeps
  <1>7. CASE /\ ~ (body.base # NoRef /\ found = 0) /\ ~ \E i \in DOMAIN assigned : assigned[i] = 0
             /\ r.failure # "none"
    <2>1. Fail(r.failure)
      BY <1>0, <1>9, <1>7 DEF LowerContainer
    <2>2. r.failure \in {"missing", "unresolved", "notExpanded"}
      BY <1>4, <1>7 DEF LoweredShapes
    <2>3. r.failure = "notExpanded" =>
             \E x \in Containers : \E t \in NamedTypes(x) : FieldsIn(t) > MaxExpandedFields
      BY <1>2, <1>3, <1>9, NotExpandedIsJustified
    <2>4. Reasoned(r.failure)
      BY <2>2, <2>3 DEF Reasoned
    <2> QED BY <1>1, <1>7, <2>1, <2>4, FailKeeps
  <1>8. CASE /\ ~ (body.base # NoRef /\ found = 0) /\ ~ \E i \in DOMAIN assigned : assigned[i] = 0
             /\ r.failure = "none"
    <2> USE DEF LoaderInv
    <2>1. PICK value :
             /\ containers' = With(containers, c, value)
             /\ value.base = found /\ value.entries = r.entries
             /\ extra' = r.extra
             /\ UNCHANGED <<pass, base, arguments, members, typeOf, failure>>
      <3> DEFINE built ==
                      [base |-> found,
                       abstract |-> body.abstract \/ (owner # 0 /\ Body(owner).abstract),
                       command |-> definitions[c].shared \/ owner # 0,
                       restriction |->
                          [i \in DOMAIN body.criteria |-> Criterion(body.criteria[i], c)]
                          \o [i \in DOMAIN assigned |->
                                [form |-> "comparison", parameters |-> <<assigned[i]>>]],
                       entries |-> r.entries]
      <3>1. /\ containers' = With(containers, c, built) /\ extra' = r.extra
            /\ UNCHANGED <<pass, base, arguments, members, typeOf, failure>>
        BY <1>0, <1>9, <1>8 DEF LowerContainer
      <3>2. built.base = found /\ built.entries = r.entries
        OBVIOUS
      <3> HIDE DEF built
      <3> QED BY <3>1, <3>2
    <2>2. c \in 1..Len(definitions) /\ Len(definitions) \in Nat
      BY <1>2, Numbered
    <2>3. found \in Containers \cup {0} /\ (body.base # NoRef => found # 0)
      <3> QED BY <1>8, <2>2, FoundInTable
    <2>4. /\ Sound(r, c, Len(extra)) /\ Len(r.entries) = Total(PlacesOf(c))
          /\ \A t \in NamedTypes(c) : FieldsIn(t) <= MaxExpandedFields
      <3> QED BY <1>2, <1>3, <1>8, <1>9, EntriesAreSound
    <2> DEFINE w == With(containers, c, value)
               m == Len(extra)
               n == Len(extra')
               N == Len(definitions)
    <2>5. /\ DOMAIN w = DOMAIN containers \cup {c} /\ w[c] = value
          /\ \A d \in DOMAIN containers : w[d] = containers[d]
      <3> QED BY <1>2 DEF With
    <2>6. containers' = w
      BY <2>1
    <2>7. extra \in Seq(Simple) /\ extra' \in Seq(Simple) /\ m \in Nat /\ n \in Nat /\ m <= n
      <3>1. extra \in Seq(Simple)
        BY DEF LeavesAreSimple
      <3>2. r.extra \in Seq(Simple)
        <4> QED BY <1>4 DEF LoweredShapes
      <3>3. Len(extra) <= Len(r.extra)
        BY <2>4 DEF Sound
      <3> QED BY <2>1, <3>1, <3>2, <3>3
    <2>8. N' = N /\ definitions' = definitions /\ progress' = progress
      BY DEF namespaceVars
    <2>9. UNCHANGED <<namespaceVars, arguments, members, typeOf>>
      BY <2>1
    <2>10. BasesAreCommands' /\ ArgumentsAreComplete' /\ MembersAreClosed' /\ ParametersAreTyped'
      BY <2>1, BasesStay, ArgumentsStay, MembersStay, ParametersStay
    <2>11. LeavesAreSimple'
      BY <2>7, <2>9, EntriesStay DEF LeavesAreSimple
    <2>12. \A e, d : OldOf(e, d)' <=> OldOf(e, d)
      BY <2>9, ReferencesStay, EntriesStay DEF OldOf, Old
    <2>13. \A e, from, to : MadeOf(e, from, to)' <=> MadeOf(e, from, to)
      BY DEF MadeOf, namespaceVars
    <2>14. ASSUME NEW d \in DOMAIN containers
           PROVE  BaseIsFound(d)' /\ EntriesAreLowered(d)'
      <3>1. containers'[d] = containers[d]
        BY <2>5, <2>6
      <3>2. BaseIsFound(d) /\ EntriesAreLowered(d)
        BY DEF ContainersAreLowered
      <3>3. BaseIsFound(d)'
        BY <3>1, <3>2, ReferencesStay DEF BaseIsFound
      <3>4. ASSUME NEW e, LoweredTo(e, d) PROVE LoweredTo(e, d)'
        <4>1. CASE OldOf(e, d)
          BY <2>12, <4>1 DEF LoweredTo
        <4>2. CASE MadeOf(e, 0, m)
          <5>1. MadeOf(e, 0, n)
            <6> HIDE DEF m, n
            <6> QED BY <2>2, <2>7, <4>2 DEF MadeOf
          <5> QED BY <2>13, <5>1 DEF LoweredTo
        <4> QED BY <3>4, <4>1, <4>2 DEF LoweredTo
      <3>5. EntriesAreLowered(d)'
        BY <2>9, <3>1, <3>2, <3>4, EntriesStay DEF EntriesAreLowered
      <3> QED BY <3>3, <3>5
    <2> HIDE DEF w, m, n, N, found
    <2>15. containers'[c] = value
      BY <2>5, <2>6
    <2>16. BaseIsFound(c)'
      BY <2>1, <2>3, <2>15, ReferencesStay DEF BaseIsFound, found
    <2>17. EntriesAreLowered(c)'
      <3>1. IsList(r.entries)
        <4>1. r.entries \in Seq(EntryShapes)
          BY <1>4 DEF LoweredShapes
        <4> QED BY <4>1, SeqIsList
      <3>2. ASSUME NEW i \in 1..Len(r.entries) PROVE LoweredTo(r.entries[i], c)'
        <4>1. OldOf(r.entries[i], c) \/ MadeOf(r.entries[i], m, n)
          BY <2>1, <2>4 DEF Sound, m, n
        <4>2. CASE OldOf(r.entries[i], c)
          BY <2>12, <4>2 DEF LoweredTo
        <4>3. CASE MadeOf(r.entries[i], m, n)
          <5>1. MadeOf(r.entries[i], 0, n)
            BY <2>2, <2>7, <4>3 DEF MadeOf
          <5> QED BY <2>13, <5>1 DEF LoweredTo, n
        <4> QED BY <4>1, <4>2, <4>3
      <3>3. containers'[c].entries = r.entries
        BY <2>1, <2>15
      <3>4. PlacesOf(c)' = PlacesOf(c) /\ NamedTypes(c)' = NamedTypes(c)
        BY <2>9, EntriesStay
      <3> QED BY <2>4, <2>9, <3>1, <3>2, <3>3, <3>4, EntriesStay DEF EntriesAreLowered
    <2> DEFINE E(d) == containers'[d].entries
    <2>18. \A d \in DOMAIN containers : E(d) = containers[d].entries
      BY <2>5, <2>6
    <2>19. ASSUME NEW d \in DOMAIN containers, NEW i \in 1..Len(E(d)), E(d)[i].target > N
           PROVE  E(d)[i].target \in 1..(N + m)
      <3>1. LoweredTo(E(d)[i], d)
        BY <2>18 DEF ContainersAreLowered, EntriesAreLowered
      <3>2. MadeOf(E(d)[i], 0, m)
        BY <2>19, <3>1, OldIsLow DEF LoweredTo, N, m
      <3> QED BY <2>2, <2>7, <3>2 DEF MadeOf, N
    <2>20. ASSUME NEW i \in 1..Len(E(c)), E(c)[i].target > N
           PROVE  E(c)[i].target > N + m /\ E(c)[i].target \in Int
      <3>1. E(c) = r.entries
        BY <2>1, <2>15
      <3>2. OldOf(E(c)[i], c) \/ MadeOf(E(c)[i], m, n)
        BY <2>1, <2>4, <3>1 DEF Sound, m, n
      <3>3. MadeOf(E(c)[i], m, n)
        BY <2>20, <3>2, OldIsLow DEF N
      <3> QED BY <2>2, <2>7, <3>3 DEF MadeOf, N
    <2>21. ASSUME NEW d \in DOMAIN w, NEW f \in DOMAIN w,
                  NEW i \in 1..Len(E(d)), NEW j \in 1..Len(E(f)),
                  E(d)[i].target > N, E(d)[i].target = E(f)[j].target
           PROVE  d = f /\ i = j
      <3>1. CASE d # c /\ f # c
        <4>1. d \in DOMAIN containers /\ f \in DOMAIN containers
          BY <2>5, <3>1
        <4>2. TargetsDiffer(d, f) /\ E(d) = containers[d].entries /\ E(f) = containers[f].entries
          BY <2>18, <4>1 DEF ContainersAreLowered
        <4> HIDE DEF E
        <4> QED BY <2>21, <4>2 DEF TargetsDiffer, N
      <3>2. CASE d = c /\ f # c
        <4>1. f \in DOMAIN containers
          BY <2>5, <3>2
        <4>2. E(c)[i].target > N + m /\ E(c)[i].target \in Int
          BY <2>20, <2>21, <3>2
        <4>3. E(f)[j].target > N
          BY <2>21
        <4>4. E(f)[j].target \in 1..(N + m)
          BY <2>19, <4>1, <4>3
        <4> HIDE DEF E
        <4> QED BY <2>2, <2>7, <2>21, <3>2, <4>2, <4>4 DEF N
      <3>3. CASE d # c /\ f = c
        <4>1. d \in DOMAIN containers
          BY <2>5, <3>3
        <4>2. E(c)[j].target > N + m /\ E(c)[j].target \in Int
          BY <2>20, <2>21, <3>3
        <4>3. E(d)[i].target \in 1..(N + m)
          BY <2>19, <2>21, <4>1
        <4> HIDE DEF E
        <4> QED BY <2>2, <2>7, <2>21, <3>3, <4>2, <4>3 DEF N
      <3>4. CASE d = c /\ f = c
        <4>1. E(c) = r.entries
          BY <2>1, <2>15
        <4> HIDE DEF E
        <4> QED BY <2>4, <2>21, <3>4, <4>1 DEF Sound, N
      <3> QED BY <3>1, <3>2, <3>3, <3>4
    <2>22. \A d, f \in DOMAIN containers' : TargetsDiffer(d, f)'
      BY <2>6, <2>8, <2>21 DEF TargetsDiffer, N
    <2>23. \A d \in DOMAIN containers' : d \in Containers' /\ BaseIsFound(d)' /\ EntriesAreLowered(d)'
      <3>1. \A d \in DOMAIN containers : d \in Containers
        BY DEF ContainersAreLowered
      <3>2. Containers' = Containers
        BY ReferencesStay
      <3> QED BY <1>2, <2>5, <2>6, <2>14, <2>16, <2>17, <3>1, <3>2
    <2>24. ContainersAreLowered'
      BY <2>22, <2>23 DEF ContainersAreLowered
    <2>25. BasesDone' /\ ArgumentsDone' /\ TypesDone' /\ ParametersDone'
      <3>1. BasesDone /\ ArgumentsDone /\ TypesDone /\ ParametersDone
        BY <1>3 DEF Ready, ParametersDone, TypesDone, ArgumentsDone
      <3> QED BY <2>1, <3>1, ReferencesStay DEF BasesDone, ArgumentsDone, TypesDone, ParametersDone
    <2>26. PhasesInOrder'
      BY <1>1, <2>1, <2>8, <2>25 DEF PhasesInOrder
    <2>27. FailuresAreJustified'
      BY <1>1, <2>1 DEF FailuresAreJustified
    <2> QED BY <2>10, <2>11, <2>24, <2>26, <2>27
  <1> QED BY <1>5, <1>6, <1>7, <1>8

\* Every step of a load keeps what is registered and what is lowered right.
LEMMA LoaderKeeps ==
  NamespaceInv /\ LoaderInv /\ [LoaderNext]_<<namespaceVars, loaderVars>>
     => NamespaceInv' /\ LoaderInv'
  <1> SUFFICES ASSUME NamespaceInv, LoaderInv, [LoaderNext]_<<namespaceVars, loaderVars>>
               PROVE  NamespaceInv' /\ LoaderInv'
    OBVIOUS
  <1>1. CASE Register /\ UNCHANGED loaderVars
    BY <1>1, RegisterKeeps, ReadingKeepsLowered
  <1>2. CASE Lower
    <2>1. UNCHANGED namespaceVars
      BY <1>2 DEF Lower
    <2>2. NamespaceInv'
      BY <2>1, RegisterKeeps
    <2>3. CASE NextPass
      BY <2>1, <2>2, <2>3, NextPassKeeps
    <2>4. CASE ResolveBase
      BY <2>1, <2>2, <2>4, ResolveBaseKeeps
    <2>5. CASE InheritArguments
      BY <2>1, <2>2, <2>5, InheritArgumentsKeeps
    <2>6. CASE LowerType
      BY <2>1, <2>2, <2>6, LowerTypeKeeps
    <2>7. CASE LowerParameter
      BY <2>1, <2>2, <2>7, LowerParameterKeeps
    <2>8. CASE LowerContainer
      BY <2>1, <2>2, <2>8, LowerContainerKeeps
    <2>9. CASE CheckInheritance
      BY <2>1, <2>2, <2>9, CheckInheritanceKeeps
    <2> QED BY <1>2, <2>3, <2>4, <2>5, <2>6, <2>7, <2>8, <2>9 DEF Lower
  <1>3. CASE UNCHANGED <<namespaceVars, loaderVars>>
    <2>1. NamespaceInv'
      BY <1>3, RegisterKeeps
    <2>2. Standing /\ UNCHANGED <<pass, failure, progress>>
      BY <1>3 DEF Standing, namespaceVars, loaderVars
    <2>3. /\ BasesAreCommands' /\ ArgumentsAreComplete' /\ MembersAreClosed'
          /\ ParametersAreTyped' /\ LeavesAreSimple' /\ ContainersAreLowered'
      BY <2>2, StandingKeeps
    <2>4. PhasesInOrder'
      BY <2>2, DoneStays DEF LoaderInv, PhasesInOrder, Standing
    <2>5. FailuresAreJustified'
      <3>1. BasesDone' = BasesDone /\ Circular' = Circular /\ Unended' = Unended
        BY <2>2, DoneStays DEF Circular, Unended, Unfounded, Standing
      <3>2. UNCHANGED <<namespaceVars, arguments, members, typeOf>>
        BY <2>2 DEF Standing
      <3>3. (\E c \in Containers : \E t \in NamedTypes(c) : FieldsIn(t) > MaxExpandedFields)'
              <=> \E c \in Containers : \E t \in NamedTypes(c) : FieldsIn(t) > MaxExpandedFields
        BY <3>2, EntriesStay, ReferencesStay
      <3> QED BY <2>2, <3>1, <3>3 DEF LoaderInv, FailuresAreJustified
    <2> QED BY <2>1, <2>3, <2>4, <2>5 DEF LoaderInv
  <1> QED BY <1>1, <1>2, <1>3 DEF LoaderNext

\* The document and what is made of it are as NamespaceInv and LoaderInv say
\* in every state of a load.
THEOREM LoadsAreSound == LoaderSpec => [](NamespaceInv /\ LoaderInv)
  <1>1. LoaderInit => NamespaceInv /\ LoaderInv
    BY InitNames, LoaderStarts DEF LoaderInit
  <1> QED BY <1>1, LoaderKeeps, PTL DEF LoaderSpec
-------------------------------------------------------------------------------
LEMMA LoaderIsTyped ==
  ASSUME NamespaceInv, LoaderInv
  PROVE  LoaderTypeOK
  <1> USE DEF LoaderInv
  <1>1. \A c \in DOMAIN base : c \in Commands /\ base[c] \in Commands \union {0}
    BY DEF BasesAreCommands
  <1>2. ASSUME NEW c \in DOMAIN arguments PROVE Range(arguments[c]) \subseteq Of({"argument"})
    <2>1. arguments[c] = Inherited(c)
      BY DEF ArgumentsAreComplete
    <2>2. ASSUME NEW n \in DOMAIN Inherited(c) PROVE Inherited(c)[n] \in Of({"argument"})
      <3>1. PICK k \in 0..Len(definitions) : Inherited(c)[n] \in DeclaredAt(c, k)
        BY Numbered, InheritedIs
      <3> QED BY <3>1 DEF DeclaredAt, OwnArguments
    <2> QED BY <2>1, <2>2 DEF Range
  <1>3. \A t \in DOMAIN members : t \in Types /\ Range(members[t].types) \subseteq Types
    <2> SUFFICES ASSUME NEW t \in DOMAIN members
                 PROVE  t \in Types /\ Range(members[t].types) \subseteq Types
      OBVIOUS
    <2>1. t \in Types /\ members[t].types \in Seq(Types)
      BY DEF MembersAreClosed
    <2> QED BY <2>1 DEF Range
  <1>4. \A p \in DOMAIN typeOf : p \in Parameters /\ typeOf[p] \in Types
    BY DEF ParametersAreTyped
  <1>5. Range(extra) \subseteq Types
    <2>1. extra \in Seq(Types)
      BY DEF LeavesAreSimple, Simple
    <2> QED BY <2>1 DEF Range
  <1>6. ASSUME NEW c \in DOMAIN containers
        PROVE  /\ c \in Containers /\ containers[c].base \in Containers \union {0}
               /\ \A e \in Range(containers[c].entries) : EntryOk(e)
    <2>1. c \in Containers /\ BaseIsFound(c) /\ EntriesAreLowered(c)
      BY DEF ContainersAreLowered
    <2>2. IsList(containers[c].entries)
      BY <2>1 DEF EntriesAreLowered
    <2>3. ASSUME NEW e, LoweredTo(e, c) PROVE EntryOk(e)
      <3>1. CASE OldOf(e, c)
        BY <3>1 DEF OldOf, Old, EntryOk, ParameterIds
      <3>2. CASE MadeOf(e, 0, Len(extra))
        BY <3>2, Numbered DEF MadeOf, EntryOk, ParameterIds
      <3> QED BY <2>3, <3>1, <3>2 DEF LoweredTo
    <2>4. \A e \in Range(containers[c].entries) : LoweredTo(e, c)
      BY <2>1, <2>2, ListDomain DEF EntriesAreLowered, Range
    <2> QED BY <2>1, <2>3, <2>4 DEF BaseIsFound
  <1>7. pass = "failed" <=> failure # "none"
    BY DEF FailuresAreJustified
  <1> QED BY <1>1, <1>2, <1>3, <1>4, <1>5, <1>6, <1>7 DEF LoaderTypeOK, PhasesInOrder

LEMMA ArgumentsStayLocal ==
  ASSUME NamespaceInv, LoaderInv
  PROVE  ArgumentsAreLocal
  <1> SUFFICES ASSUME NEW c \in DOMAIN containers,
                      \A e \in Range(Body(c).entries) : e.tag = "argumentRef",
                      NEW e \in Range(containers[c].entries),
                      e.kind = "parameter", e.target \in Parameters
               PROVE  /\ definitions[e.target].kind = "argument"
                      /\ definitions[e.target].owner \in Range(Lineage(definitions[c].owner))
    BY DEF ArgumentsAreLocal
  <1> DEFINE owner == definitions[c].owner
  <1>1. c \in Containers /\ EntriesAreLowered(c)
    BY DEF LoaderInv, ContainersAreLowered
  <1>2. ParametersDone /\ ArgumentsDone /\ BasesDone /\ ArgumentsAreComplete /\ BasesAreCommands
    BY DEF LoaderInv, PhasesInOrder, ParametersDone, TypesDone, ArgumentsDone
  <1>3. LoweredTo(e, c)
    <2>1. IsList(containers[c].entries)
      BY <1>1 DEF EntriesAreLowered
    <2> QED BY <1>1, <2>1, ListDomain DEF EntriesAreLowered, Range
  <1>4. Len(definitions) \in Nat /\ e.target \in 1..Len(definitions)
    BY Numbered
  <1>5. ~ MadeOf(e, 0, Len(extra))
    BY <1>4 DEF MadeOf
  <1>6. PICK entry \in Range(Body(c).entries) : Old(e, entry, c)
    BY <1>3, <1>5 DEF LoweredTo, OldOf
  <1>7. entry.tag = "argumentRef" /\ e.target = Meant(entry, c)
    BY <1>6 DEF Old
  <1>8. e.target = ArgumentNamed(entry.ref, owner) /\ e.target # 0
    BY <1>4, <1>7 DEF Meant
  <1>9. /\ e.target \in Of({"argument"})
        /\ \E k \in 0..Len(definitions) : definitions[e.target].owner = Lineage(owner)[k]
    BY <1>1, <1>2, <1>8, NamedArgument
  <1>10. owner \in Commands
    <2>1. c \in 1..Len(definitions)
      BY <1>1, Numbered
    <2>2. owner # 0
      BY <1>8 DEF ArgumentNamed
    <2>3. owner \in 1..(c - 1) /\ definitions[owner].kind = "command"
      BY <2>1, <2>2 DEF NamespaceInv, DefinitionsArePlaced
    <2> QED BY <2>1, <2>3, Numbered DEF Commands, Of
  <1>11. DOMAIN Lineage(owner) = 0..Len(definitions)
    <2> HIDE DEF owner
    <2>1. Lineage(owner) \in [0..Len(definitions) -> Commands \cup {0}]
      BY <1>2, <1>10, LineageIs
    <2> QED BY <2>1
  <1> QED BY <1>9, <1>11 DEF Range, Of

\* The walk from a command's base is the walk from the command without its
\* first step.
LEMMA WalkFromBase ==
  ASSUME NamespaceInv, BasesAreCommands, BasesDone, NEW c \in Commands
  PROVE  \A k \in 1..Len(definitions) : Lineage(c)[k] = Lineage(base[c])[k - 1]
  <1> DEFINE N == Len(definitions)
             L == Lineage(c)
             M == Lineage(base[c])
             T == {k \in 0..N : k = 0 \/ L[k] = M[k - 1]}
  <1>1. N \in Nat /\ c # 0 /\ base[c] \in Commands \cup {0}
    BY Numbered DEF BasesAreCommands, BasesDone
  <1>2. L[0] = c /\ \A k \in 1..N : L[k] = UpFrom(L[k - 1])
    BY LineageIs
  <1>3. M[0] = base[c] /\ \A k \in 1..N : M[k] = UpFrom(M[k - 1])
    <2> DEFINE b == base[c]
    <2>1. b \in Commands \cup {0}
      BY <1>1
    <2> HIDE DEF b
    <2>2. Lineage(b)[0] = b /\ \A k \in 1..N : Lineage(b)[k] = UpFrom(Lineage(b)[k - 1])
      BY <2>1, LineageIs
    <2> QED BY <2>2 DEF b
  <1> HIDE DEF L, M, N
  <1>4. 0 \in T
    BY <1>1
  <1>5. ASSUME NEW k \in 1..N, k - 1 \in T PROVE k \in T
    <2>1. k \in 0..N /\ L[k] = UpFrom(L[k - 1])
      BY <1>1, <1>2
    <2>2. CASE k = 1
      BY <1>1, <1>2, <1>3, <2>1, <2>2 DEF UpFrom
    <2>3. CASE k # 1
      <3>1. k - 1 \in 1..N /\ L[k - 1] = M[(k - 1) - 1]
        BY <1>1, <1>5, <2>3
      <3>2. M[k - 1] = UpFrom(M[(k - 1) - 1])
        BY <1>3, <3>1
      <3> QED BY <2>1, <3>1, <3>2
    <2> QED BY <2>2, <2>3
  <1>6. 0..N \subseteq T
    <2> HIDE DEF T
    <2> QED BY <1>1, <1>4, <1>5, InductionTo
  <1>7. ASSUME NEW k \in 1..N PROVE L[k] = M[k - 1]
    <2>1. k \in T /\ k # 0
      BY <1>1, <1>6
    <2> QED BY <2>1
  <1> QED BY <1>7 DEF L, M, N

\* What the walk from c declares k steps up.
LEMMA DeclaredAbove ==
  ASSUME NamespaceInv, BasesAreCommands, BasesDone, NEW c \in Commands
  PROVE  /\ DeclaredAt(c, 0) = OwnArguments(c)
         /\ \A k \in 1..Len(definitions) : DeclaredAt(c, k) = DeclaredAt(base[c], k - 1)
  <1>1. Lineage(c)[0] = c /\ c # 0
    BY LineageIs, Numbered
  <1>2. \A k \in 1..Len(definitions) : Lineage(c)[k] = Lineage(base[c])[k - 1]
    BY WalkFromBase
  <1> QED BY <1>1, <1>2 DEF DeclaredAt

LEMMA NothingAbove ==
  ASSUME NamespaceInv, BasesAreCommands, BasesDone, NEW k \in 0..Len(definitions)
  PROVE  DeclaredAt(0, k) = {}
  <1> DEFINE N == Len(definitions)
             L == Lineage(0)
             T == {j \in 0..N : L[j] = 0}
  <1>1. L[0] = 0 /\ \A j \in 1..N : L[j] = UpFrom(L[j - 1])
    BY LineageIs
  <1>2. N \in Nat
    BY Numbered
  <1> HIDE DEF L, N
  <1>3. 0 \in T
    BY <1>1, <1>2
  <1>4. \A j \in 1..N : j - 1 \in T => j \in T
    BY <1>1, <1>2 DEF UpFrom
  <1>5. 0..N \subseteq T
    <2> HIDE DEF T
    <2> QED BY <1>2, <1>3, <1>4, InductionTo
  <1>6. L[k] = 0
    BY <1>5 DEF N
  <1> QED BY <1>6 DEF DeclaredAt, L

\* What is declared above c with name n is what is declared above its base, one
\* step further.
LEMMA HasAbove ==
  ASSUME NamespaceInv, BasesAreCommands, BasesDone, NEW c \in Commands, Meets(c) = 0,
         base[c] = 0 \/ Meets(base[c]) = 0
  PROVE  /\ \A n : HasAt(c, n, 0) <=> n \in {NameOf(i) : i \in OwnArguments(c)}
         /\ \A n : \A k \in 1..Len(definitions) : HasAt(c, n, k) <=> HasAt(base[c], n, k - 1)
         /\ \A n : ~ HasAt(base[c], n, Len(definitions))
         /\ base[c] = 0 => \A n : \A k \in 0..Len(definitions) : ~ HasAt(base[c], n, k)
  <1> DEFINE N == Len(definitions)
             b == base[c]
  <1>1. N \in Nat /\ N \in 0..N
    BY Numbered
  <1>2. b \in Commands \cup {0}
    BY DEF BasesAreCommands, BasesDone
  <1>3. DeclaredAt(b, N) = {}
    <2>1. CASE b = 0
      BY <1>1, <2>1, NothingAbove
    <2>2. CASE b # 0
      <3> HIDE DEF b
      <3>1. b \in Commands /\ Meets(b) = 0
        BY <1>2, <2>2 DEF b
      <3>2. Lineage(b)[N] = 0
        BY <3>1, WalksEnd
      <3> QED BY <3>2 DEF DeclaredAt
    <2> QED BY <2>1, <2>2
  <1>4. \A n : HasAt(c, n, 0) <=> n \in {NameOf(i) : i \in OwnArguments(c)}
    BY DeclaredAbove DEF HasAt
  <1>5. \A n : \A k \in 1..N : HasAt(c, n, k) <=> HasAt(b, n, k - 1)
    BY DeclaredAbove DEF HasAt
  <1>6. \A n : ~ HasAt(b, n, N)
    BY <1>3 DEF HasAt
  <1>7. b = 0 => \A n : \A k \in 0..N : ~ HasAt(b, n, k)
    BY NothingAbove DEF HasAt
  <1> QED BY <1>4, <1>5, <1>6, <1>7

LEMMA ArgumentsComeFromBases ==
  ASSUME NamespaceInv, LoaderInv
  PROVE  ArgumentsAreInherited
  <1> SUFFICES ASSUME NEW c \in DOMAIN arguments, base[c] \in DOMAIN arguments \union {0}
               PROVE  LET own == [n \in {NameOf(i) : i \in OwnArguments(c)} |->
                                     CHOOSE i \in OwnArguments(c) : NameOf(i) = n]
                          all == DOMAIN own \union
                             (IF base[c] \in DOMAIN arguments THEN DOMAIN arguments[base[c]] ELSE {})
                      IN  /\ DOMAIN arguments[c] = all
                          /\ \A n \in all : arguments[c][n] =
                                IF n \in DOMAIN own THEN own[n] ELSE arguments[base[c]][n]
    BY ArgumentsStayLocal DEF ArgumentsAreInherited
  <1> DEFINE N == Len(definitions)
             b == base[c]
             own == [n \in {NameOf(i) : i \in OwnArguments(c)} |->
                        CHOOSE i \in OwnArguments(c) : NameOf(i) = n]
             above == IF b \in DOMAIN arguments THEN DOMAIN arguments[b] ELSE {}
  <1>1. N \in Nat /\ 0 \in 0..N
    BY Numbered
  <1>2. BasesDone /\ BasesAreCommands /\ ArgumentsAreComplete
    BY DEF LoaderInv, PhasesInOrder
  <1>3. c \in Commands /\ Meets(c) = 0 /\ arguments[c] = Inherited(c)
    BY <1>2 DEF ArgumentsAreComplete
  <1>4. b # 0 => b \in Commands /\ Meets(b) = 0 /\ arguments[b] = Inherited(b)
                 /\ b \in DOMAIN arguments
    BY <1>2 DEF ArgumentsAreComplete
  <1>5. /\ \A n : HasAt(c, n, 0) <=> n \in DOMAIN own
        /\ \A n : \A k \in 1..N : HasAt(c, n, k) <=> HasAt(b, n, k - 1)
        /\ \A n : ~ HasAt(b, n, N)
        /\ b = 0 => \A n : \A k \in 0..N : ~ HasAt(b, n, k)
    BY <1>2, <1>3, <1>4, HasAbove
  <1>6. \A n : n \in DOMAIN Inherited(c) <=> \E k \in 0..N : HasAt(c, n, k)
    BY <1>1, InheritedIs
  <1>7. b # 0 => \A n : n \in DOMAIN Inherited(b) <=> \E k \in 0..N : HasAt(b, n, k)
    BY <1>1, InheritedIs
  <1>8. 0 \notin DOMAIN arguments
    BY <1>2, Numbered DEF ArgumentsAreComplete
  <1>9. \A n : n \in above <=> \E k \in 0..N : HasAt(b, n, k)
    <2>1. CASE b = 0
      BY <1>5, <1>8, <2>1
    <2>2. CASE b # 0
      BY <1>4, <1>7, <2>2
    <2> QED BY <2>1, <2>2
  <1> HIDE DEF own, above, b, N
  <1>10. DOMAIN arguments[c] = DOMAIN own \cup above
    <2>1. ASSUME NEW n, n \in DOMAIN Inherited(c) PROVE n \in DOMAIN own \/ n \in above
      <3>1. PICK k \in 0..N : HasAt(c, n, k)
        BY <1>6, <2>1
      <3>2. CASE k = 0
        BY <1>5, <3>1, <3>2
      <3>3. CASE k # 0
        <4>1. k \in 1..N /\ k - 1 \in 0..N
          BY <1>1, <3>3
        <4> QED BY <1>5, <1>9, <3>1, <4>1
      <3> QED BY <3>2, <3>3
    <2>2. ASSUME NEW n, n \in DOMAIN own PROVE n \in DOMAIN Inherited(c)
      BY <1>1, <1>5, <1>6, <2>2
    <2>3. ASSUME NEW n, n \in above PROVE n \in DOMAIN Inherited(c)
      <3>1. PICK k \in 0..N : HasAt(b, n, k)
        BY <1>9, <2>3
      <3>2. k + 1 \in 1..N /\ (k + 1) - 1 = k /\ k + 1 \in 0..N
        <4>1. k # N
          BY <1>5, <3>1
        <4> QED BY <1>1, <4>1
      <3>3. HasAt(c, n, k + 1)
        BY <1>5, <3>1, <3>2
      <3> QED BY <1>6, <3>2, <3>3
    <2> QED BY <1>3, <2>1, <2>2, <2>3
  <1>11. ASSUME NEW n \in DOMAIN own PROVE arguments[c][n] = own[n]
    <2>1. HasAt(c, n, 0) /\ n \in DOMAIN Inherited(c) /\ \A j \in 0..(0 - 1) : ~ HasAt(c, n, j)
      BY <1>1, <1>5, <1>6
    <2>2. Inherited(c)[n] = CHOOSE i \in DeclaredAt(c, 0) : NameOf(i) = n
      BY <1>1, <2>1, InheritedIs DEF N
    <2>3. DeclaredAt(c, 0) = OwnArguments(c)
      BY <1>2, <1>3, DeclaredAbove
    <2>4. own[n] = CHOOSE i \in OwnArguments(c) : NameOf(i) = n
      BY DEF own
    <2> QED BY <1>3, <2>2, <2>3, <2>4
  <1>12. ASSUME NEW n \in above, n \notin DOMAIN own
         PROVE  arguments[c][n] = arguments[b][n]
    <2>1. b # 0
      BY <1>5, <1>9
    <2> DEFINE S == {k \in 0..N : HasAt(b, n, k)}
    <2>2. S # {} /\ S \subseteq Nat
      BY <1>9
    <2>3. PICK k \in S : \A j \in S : k <= j
      <3> HIDE DEF S
      <3> QED BY <2>2, Least
    <2>4. k \in 0..N /\ HasAt(b, n, k) /\ \A j \in 0..(k - 1) : ~ HasAt(b, n, j)
      <3>1. ASSUME NEW j \in 0..(k - 1) PROVE ~ HasAt(b, n, j)
        <4>1. j \in 0..N /\ ~ (k <= j)
          BY <1>1, <2>3
        <4> QED BY <2>3, <4>1
      <3> QED BY <2>3, <3>1
    <2>5. k + 1 \in 1..N /\ (k + 1) - 1 = k /\ k + 1 \in 0..N
      <3>1. k # N
        BY <1>5, <2>4
      <3> QED BY <1>1, <2>4, <3>1
    <2>6. HasAt(c, n, k + 1) /\ \A j \in 0..((k + 1) - 1) : ~ HasAt(c, n, j)
      <3>1. HasAt(c, n, k + 1)
        BY <1>5, <2>4, <2>5
      <3>2. ASSUME NEW j \in 0..((k + 1) - 1) PROVE ~ HasAt(c, n, j)
        <4>1. CASE j = 0
          BY <1>5, <1>12, <4>1
        <4>2. CASE j # 0
          <5>1. j \in 1..N /\ j - 1 \in 0..(k - 1)
            BY <1>1, <2>4, <2>5, <4>2
          <5> QED BY <1>5, <2>4, <5>1
        <4> QED BY <4>1, <4>2
      <3> QED BY <3>1, <3>2
    <2>7. n \in DOMAIN Inherited(c) /\ n \in DOMAIN Inherited(b)
      BY <1>6, <1>7, <2>1, <2>4, <2>5, <2>6
    <2>8. Inherited(c)[n] = CHOOSE i \in DeclaredAt(c, k + 1) : NameOf(i) = n
      BY <1>1, <2>5, <2>6, <2>7, InheritedIs DEF N
    <2>9. Inherited(b)[n] = CHOOSE i \in DeclaredAt(b, k) : NameOf(i) = n
      BY <1>1, <2>4, <2>7, InheritedIs DEF N
    <2>10. DeclaredAt(c, k + 1) = DeclaredAt(b, k)
      <3>1. DeclaredAt(c, k + 1) = DeclaredAt(base[c], (k + 1) - 1)
        BY <1>2, <1>3, <2>5, DeclaredAbove DEF N
      <3> QED BY <2>5, <3>1 DEF b
    <2> QED BY <1>3, <1>4, <2>1, <2>8, <2>9, <2>10
  <1>13. \A n \in DOMAIN own \cup above :
            arguments[c][n] = IF n \in DOMAIN own THEN own[n] ELSE arguments[b][n]
    BY <1>11, <1>12
  <1> QED BY <1>10, <1>13 DEF own, above, b

\* The containers that extend another, and the sets of them that no walk up
\* leaves, as the document has them.
Inheritors == {c \in Containers : Body(c).base # NoRef}
NeverOut(S) == S # {} /\ \A c \in S : Find(Body(c).base, c, "container") \in S
Endless == \E S \in SUBSET Inheritors : NeverOut(S)

LEMMA EndlessIsUnended ==
  ASSUME NamespaceInv, LoaderInv
  PROVE  /\ Unended => Endless
         /\ ContainersDone /\ Endless => Unended
  <1>1. 0 \notin Containers
    BY Numbered
  <1>2. \A c \in DOMAIN containers : c \in Containers /\ BaseIsFound(c)
    BY DEF LoaderInv, ContainersAreLowered
  <1>3. ASSUME Unended PROVE Endless
    <2>1. PICK S \in SUBSET DOMAIN containers : Unfounded(S)
      BY <1>3 DEF Unended
    <2>2. ASSUME NEW c \in S
          PROVE  c \in Inheritors /\ Find(Body(c).base, c, "container") \in S
      <3>1. c \in Containers /\ containers[c].base # 0 /\ containers[c].base \in S /\ BaseIsFound(c)
        BY <1>1, <1>2, <2>1 DEF Unfounded
      <3> QED BY <3>1 DEF BaseIsFound, Inheritors
    <2> QED BY <2>1, <2>2 DEF Endless, NeverOut, Unfounded
  <1>4. ASSUME ContainersDone, Endless PROVE Unended
    <2>1. PICK S \in SUBSET Inheritors : NeverOut(S)
      BY <1>4 DEF Endless
    <2>2. S \subseteq DOMAIN containers
      BY <1>4 DEF Inheritors, ContainersDone
    <2>3. \A c \in S : containers[c].base \in S
      BY <1>2, <2>1, <2>2 DEF BaseIsFound, Inheritors, NeverOut
    <2> QED BY <2>1, <2>2, <2>3 DEF Unended, Unfounded, NeverOut
  <1> QED BY <1>3, <1>4

LEMMA RefusalsAreJustified ==
  ASSUME NamespaceInv, LoaderInv
  PROVE  CircularDefinitionsAreRefused
  <1>1. failure = "commandCycle" => Circular
    BY DEF LoaderInv, FailuresAreJustified
  <1>2. ASSUME DOMAIN members # {} PROVE ~ Circular
    <2>1. BasesDone /\ ArgumentsDone /\ BasesAreCommands /\ ArgumentsAreComplete
      BY <1>2 DEF LoaderInv, PhasesInOrder, ArgumentsDone
    <2>2. \A c \in Commands : Meets(c) = 0
      BY <2>1 DEF ArgumentsDone, ArgumentsAreComplete
    <2> QED BY <2>1, <2>2, NoneIsCircular
  <1>3. failure = "containerCycle" => Endless
    BY EndlessIsUnended DEF LoaderInv, FailuresAreJustified
  <1>4. failure = "notExpanded" =>
           \E c \in Containers : \E t \in NamedTypes(c) : FieldsIn(t) > MaxExpandedFields
    BY DEF LoaderInv, FailuresAreJustified
  <1>5. ASSUME pass = "loaded"
        PROVE  /\ ~ Endless
               /\ \A c \in Containers : \A t \in NamedTypes(c) : FieldsIn(t) <= MaxExpandedFields
    <2>1. ContainersDone /\ ~ Unended
      BY <1>5 DEF LoaderInv, PhasesInOrder, FailuresAreJustified
    <2>2. ~ Endless
      BY <2>1, EndlessIsUnended
    <2>3. \A c \in Containers : \A t \in NamedTypes(c) : FieldsIn(t) <= MaxExpandedFields
      BY <2>1 DEF LoaderInv, ContainersAreLowered, EntriesAreLowered, ContainersDone
    <2> QED BY <2>2, <2>3
  <1>6. Circular = \E S \in SUBSET DOMAIN base : S # {} /\ \A c \in S : base[c] \in S
    BY DEF Circular
  <1>7. Endless = \E S \in SUBSET {c \in Containers : Body(c).base # NoRef} :
                      S # {} /\ \A c \in S : Find(Body(c).base, c, "container") \in S
    BY DEF Endless, NeverOut, Inheritors
  <1> QED BY <1>1, <1>2, <1>3, <1>4, <1>5, <1>6, <1>7 DEF CircularDefinitionsAreRefused

\* A command can name what it declares and what its base can name, and its
\* containers take their arguments from nowhere else.
THEOREM ArgumentsHold == LoaderSpec => []ArgumentsAreInherited
  <1>1. NamespaceInv /\ LoaderInv => ArgumentsAreInherited
    BY ArgumentsComeFromBases
  <1> QED BY <1>1, LoadsAreSound, PTL

\* A document with a command, a container or a read type inside itself is
\* refused, and nothing else is refused for that.
THEOREM RefusalsHold == LoaderSpec => []CircularDefinitionsAreRefused
  <1>1. NamespaceInv /\ LoaderInv => CircularDefinitionsAreRefused
    BY RefusalsAreJustified
  <1> QED BY <1>1, LoadsAreSound, PTL

-------------------------------------------------------------------------------
\* A walk up from a container in at most n steps: p[1], ..., p[n].
UpTo(p, n, c) ==
    /\ p[1] = c
    /\ \A k \in 1..(n - 1) : p[k + 1] = containers[p[k]].base
Paths(n, c) == {p \in [1..n -> Containers] : UpTo(p, n, c) /\ containers[p[n]].base = 0}
HasPath(c) == \E n \in 1..Len(definitions) : Paths(n, c) # {}

\* When nothing extends itself, from each container a walk up comes to a root:
\* the containers from which none does would be such a set.
LEMMA RootsAreReached ==
  ASSUME NamespaceInv, LoaderInv, ContainersDone, ~ Unended, NEW c \in Containers
  PROVE  \E n \in Nat \ {0} : Paths(n, c) # {}
  <1> DEFINE Lost == {d \in Containers : \A n \in Nat \ {0} : Paths(n, d) = {}}
  <1> SUFFICES ASSUME c \in Lost PROVE FALSE
    OBVIOUS
  <1>1. \A d \in Containers : containers[d].base \in Containers \cup {0}
    BY DEF LoaderInv, ContainersAreLowered, BaseIsFound, ContainersDone
  <1>2. ASSUME NEW d \in Lost PROVE containers[d].base \in Lost
    <2> DEFINE b == containers[d].base
    <2>1. b # 0
      <3> SUFFICES ASSUME b = 0 PROVE FALSE
        OBVIOUS
      <3> DEFINE p == [k \in 1..1 |-> d]
      <3>1. p \in [1..1 -> Containers] /\ p[1] = d
        OBVIOUS
      <3> HIDE DEF p
      <3>2. p \in Paths(1, d)
        BY <3>1 DEF Paths, UpTo
      <3> QED BY <3>2
    <2>2. b \in Containers
      BY <1>1, <2>1
    <2>3. ASSUME NEW n \in Nat \ {0}, NEW p \in Paths(n, b) PROVE FALSE
      <3> DEFINE q == [k \in 1..(n + 1) |-> IF k = 1 THEN d ELSE p[k - 1]]
      <3>1. /\ p \in [1..n -> Containers] /\ p[1] = b /\ containers[p[n]].base = 0
            /\ \A k \in 1..(n - 1) : p[k + 1] = containers[p[k]].base
        BY <2>3 DEF Paths, UpTo
      <3> HIDE DEF b
      <3>2. \A k \in 1..(n + 1) : k # 1 => k - 1 \in 1..n
        OBVIOUS
      <3>3. q \in [1..(n + 1) -> Containers]
        BY <3>1, <3>2
      <3>4. q[1] = d /\ \A k \in 1..(n + 1) : k # 1 => q[k] = p[k - 1]
        OBVIOUS
      <3> HIDE DEF q
      <3>5. ASSUME NEW k \in 1..n PROVE q[k + 1] = p[k]
        <4>1. k + 1 \in 1..(n + 1) /\ k + 1 # 1 /\ (k + 1) - 1 = k
          OBVIOUS
        <4> QED BY <3>4, <4>1
      <3>6. ASSUME NEW k \in 1..n PROVE q[k + 1] = containers[q[k]].base
        <4>1. CASE k = 1
          BY <3>1, <3>4, <3>5, <4>1 DEF b
        <4>2. CASE k # 1
          <5>1. k \in 1..(n + 1) /\ k - 1 \in 1..(n - 1) /\ (k - 1) + 1 = k
            BY <4>2
          <5>2. p[k] = containers[p[k - 1]].base
            BY <3>1, <5>1
          <5> QED BY <3>4, <3>5, <4>2, <5>1, <5>2
        <4> QED BY <4>1, <4>2
      <3>7. n \in 1..n /\ n + 1 \in Nat \ {0} /\ (n + 1) - 1 = n
        OBVIOUS
      <3>8. containers[q[n + 1]].base = 0
        BY <3>1, <3>5, <3>7
      <3>9. q \in Paths(n + 1, d)
        BY <3>3, <3>4, <3>6, <3>7, <3>8 DEF Paths, UpTo
      <3> QED BY <3>7, <3>9
    <2> HIDE DEF b
    <2> QED BY <2>2, <2>3 DEF b
  <1>3. Lost \subseteq DOMAIN containers
    BY DEF ContainersDone
  <1> HIDE DEF Lost
  <1> QED BY <1>2, <1>3 DEF Unended, Unfounded

\* A walk up to a root meets no container twice, so there are no more on it than
\* definitions.
LEMMA WalksAreShort ==
  ASSUME NamespaceInv, NEW c \in Containers, NEW n \in Nat \ {0}, NEW p \in Paths(n, c)
  PROVE  n <= Len(definitions)
  <1> DEFINE N == Len(definitions)
  <1>1. N \in Nat /\ Containers \subseteq 1..N
    BY Numbered
  <1>2. /\ p \in [1..n -> Containers] /\ containers[p[n]].base = 0
        /\ \A k \in 1..(n - 1) : p[k + 1] = containers[p[k]].base
    BY DEF Paths, UpTo
  <1> HIDE DEF N
  <1> SUFFICES ASSUME ~ (n <= N) PROVE FALSE
    BY DEF N
  <1> DEFINE f == [k \in 0..N |-> p[k + 1]]
  <1>3. f \in [0..N -> 1..N]
    <2>1. \A k \in 0..N : k + 1 \in 1..n
      BY <1>1
    <2> QED BY <1>1, <1>2, <2>1
  <1>4. \A k \in 0..N : f[k] = p[k + 1]
    OBVIOUS
  <1> HIDE DEF f
  <1>5. PICK i \in 0..N, j \in 1..N : i < j /\ f[i] = f[j]
    BY <1>1, <1>3, Repeats
  <1>6. /\ i + 1 \in 1..n /\ j + 1 \in 1..n /\ i < j /\ j - i \in 1..n
        /\ j \in 0..N
    BY <1>1, <1>5
  <1> DEFINE m == n - (j + 1)
             T == {k \in 0..m : p[(i + 1) + k] = p[(j + 1) + k]}
  <1>7. m \in Nat /\ \A k \in 0..m : (i + 1) + k \in 1..n /\ (j + 1) + k \in 1..n
    BY <1>6
  <1>8. 0 \in T
    <2>1. (i + 1) + 0 = i + 1 /\ (j + 1) + 0 = j + 1 /\ 0 \in 0..m
      BY <1>6, <1>7
    <2> HIDE DEF m
    <2> QED BY <1>4, <1>5, <1>6, <2>1
  <1>9. ASSUME NEW k \in 1..m, k - 1 \in T PROVE k \in T
    <2> DEFINE x == (i + 1) + (k - 1)
               y == (j + 1) + (k - 1)
    <2>1. p[x] = p[y]
      BY <1>9
    <2>2. /\ x \in 1..(n - 1) /\ y \in 1..(n - 1) /\ x + 1 = (i + 1) + k /\ y + 1 = (j + 1) + k
          /\ k \in 0..m
      BY <1>6, <1>7
    <2> HIDE DEF x, y, m
    <2>3. p[x + 1] = containers[p[x]].base /\ p[y + 1] = containers[p[y]].base
      BY <1>2, <2>2
    <2> QED BY <2>1, <2>2, <2>3
  <1> HIDE DEF T
  <1>10. 0..m \subseteq T
    BY <1>7, <1>8, <1>9, InductionTo
  <1>11. m \in 0..m /\ (i + 1) + m = n - (j - i) /\ (j + 1) + m = n
    BY <1>6, <1>7
  <1>12. p[n - (j - i)] = p[n]
    <2>1. p[(i + 1) + m] = p[(j + 1) + m]
      BY <1>10, <1>11 DEF T
    <2> HIDE DEF m
    <2> QED BY <1>11, <2>1
  <1> DEFINE z == n - (j - i)
  <1>13. z \in 1..(n - 1) /\ z + 1 \in 1..n
    BY <1>6, <1>11, <1>7
  <1>14. p[z + 1] = 0
    <2> HIDE DEF z
    <2> QED BY <1>2, <1>12, <1>13 DEF z
  <1>15. p[z + 1] \in Containers
    <2> HIDE DEF z
    <2> QED BY <1>2, <1>13
  <1> QED BY <1>1, <1>14, <1>15

LEMMA PathsAreLists ==
  ASSUME NEW S, NEW n \in Nat, NEW p \in [1..n -> S]
  PROVE  Len(p) = n
  OBVIOUS

LEMMA BasesLeadToRoots ==
  ASSUME NamespaceInv, LoaderInv, ContainersDone, ~ Unended, NEW c \in Containers
  PROVE  \E path \in UNION {[1..n -> Containers] : n \in 1..Len(definitions)} :
            /\ path[1] = c /\ containers[LastOf(path)].base = 0
            /\ \A k \in 1..(Len(path) - 1) : path[k + 1] = containers[path[k]].base
  <1>1. PICK n \in Nat \ {0} : Paths(n, c) # {}
    BY RootsAreReached
  <1>2. PICK p \in Paths(n, c) : TRUE
    BY <1>1
  <1>3. n \in 1..Len(definitions)
    <2>1. n <= Len(definitions)
      BY WalksAreShort
    <2> QED BY <2>1, Numbered
  <1>4. /\ p \in [1..n -> Containers] /\ containers[p[n]].base = 0 /\ p[1] = c
        /\ \A k \in 1..(n - 1) : p[k + 1] = containers[p[k]].base
    BY <1>2 DEF Paths, UpTo
  <1>5. Len(p) = n
    BY <1>4, PathsAreLists
  <1>6. p \in UNION {[1..k -> Containers] : k \in 1..Len(definitions)}
    BY <1>3, <1>4
  <1>7. LastOf(p) = p[n]
    BY <1>5 DEF LastOf
  <1> QED BY <1>4, <1>5, <1>6, <1>7

\* What an entry reads is one field.
LEMMA ReadTypesAreSimple ==
  ASSUME NamespaceInv, LoaderInv, NEW c \in DOMAIN containers,
         NEW e \in Range(containers[c].entries), e.kind = "parameter"
  PROVE  members[TypeOfParameter(e.target)].types = <<>>
  <1>1. EntriesAreLowered(c) /\ LeavesAreSimple
    BY DEF LoaderInv, ContainersAreLowered
  <1>2. LoweredTo(e, c)
    <2>1. IsList(containers[c].entries)
      BY <1>1 DEF EntriesAreLowered
    <2> QED BY <1>1, <2>1, ListDomain DEF EntriesAreLowered, Range
  <1>3. CASE OldOf(e, c)
    <2>1. e.target \in Parameters /\ typeOf[e.target] \in Simple
      BY <1>3, Numbered DEF OldOf, Old
    <2> QED BY <2>1 DEF TypeOfParameter, Simple, IsComposite
  <1>4. CASE MadeOf(e, 0, Len(extra))
    <2> DEFINE N == Len(definitions)
               n == Len(extra)
    <2>1. N \in Nat /\ Parameters \subseteq 1..N
      BY Numbered
    <2>2. n \in Nat /\ \A i \in 1..n : extra[i] \in Simple
      BY <1>1 DEF LeavesAreSimple
    <2>3. e.target \in (N + 0 + 1)..(N + n)
      BY <1>4 DEF MadeOf
    <2> HIDE DEF N, n
    <2>4. e.target \notin Parameters /\ e.target - N \in 1..n
      BY <2>1, <2>2, <2>3
    <2>5. TypeOfParameter(e.target) = extra[e.target - N]
      BY <2>4 DEF TypeOfParameter, N
    <2> QED BY <2>2, <2>4, <2>5 DEF Simple, IsComposite
  <1> QED BY <1>2, <1>3, <1>4 DEF LoweredTo

\* A field keeps its place.
LEMMA FieldsStayFresh ==
  ASSUME NamespaceInv, LoaderInv
  PROVE  FieldsAreFresh
  <1>1. \A c \in DOMAIN containers : EntriesAreLowered(c)
    BY DEF LoaderInv, ContainersAreLowered
  <1>2. \A c \in DOMAIN containers :
           Len(containers[c].entries) =
              Total([i \in DOMAIN Body(c).entries |-> Places(Body(c).entries[i], c)])
    BY <1>1 DEF EntriesAreLowered, PlacesOf
  <1>3. ASSUME NEW c \in DOMAIN containers, NEW d \in DOMAIN containers,
               NEW i \in DOMAIN containers[c].entries, NEW j \in DOMAIN containers[d].entries,
               containers[c].entries[i].target > Len(definitions),
               containers[c].entries[i] = containers[d].entries[j]
        PROVE  c = d /\ i = j
    <2>1. i \in 1..Len(containers[c].entries) /\ j \in 1..Len(containers[d].entries)
      BY <1>1, ListDomain DEF EntriesAreLowered
    <2>2. TargetsDiffer(c, d)
      BY DEF LoaderInv, ContainersAreLowered
    <2> QED BY <1>3, <2>1, <2>2 DEF TargetsDiffer
  <1> QED BY <1>2, <1>3 DEF FieldsAreFresh

LEMMA LoadedDatabaseIsClosed ==
  ASSUME NamespaceInv, LoaderInv
  PROVE  LoadedIsClosed
  <1> SUFFICES ASSUME pass = "loaded"
               PROVE  /\ DOMAIN base = Commands /\ DOMAIN members = Types
                      /\ DOMAIN typeOf = Parameters /\ DOMAIN containers = Containers
                      /\ \A c \in Containers : \A e \in Range(containers[c].entries) :
                            e.kind = "parameter" => members[TypeOfParameter(e.target)].types = <<>>
                      /\ \A c \in Containers :
                            \E path \in UNION {[1..n -> Containers] : n \in 1..Len(definitions)} :
                               /\ path[1] = c /\ containers[LastOf(path)].base = 0
                               /\ \A k \in 1..(Len(path) - 1) : path[k + 1] = containers[path[k]].base
                      /\ FieldsAreFresh /\ LoaderTypeOK
    BY DEF LoadedIsClosed
  <1>1. ContainersDone /\ ~ Unended
    BY DEF LoaderInv, PhasesInOrder, FailuresAreJustified
  <1>2. /\ DOMAIN base = Commands /\ DOMAIN members = Types
        /\ DOMAIN typeOf = Parameters /\ DOMAIN containers = Containers
    BY <1>1 DEF ContainersDone, ParametersDone, TypesDone, ArgumentsDone, BasesDone
  <1>3. \A c \in Containers : \A e \in Range(containers[c].entries) :
           e.kind = "parameter" => members[TypeOfParameter(e.target)].types = <<>>
    BY <1>2, ReadTypesAreSimple
  <1>4. \A c \in Containers :
           \E path \in UNION {[1..n -> Containers] : n \in 1..Len(definitions)} :
              /\ path[1] = c /\ containers[LastOf(path)].base = 0
              /\ \A k \in 1..(Len(path) - 1) : path[k + 1] = containers[path[k]].base
    BY <1>1, BasesLeadToRoots
  <1>5. FieldsAreFresh
    BY FieldsStayFresh
  <1>6. LoaderTypeOK
    BY LoaderIsTyped
  <1> QED BY <1>2, <1>3, <1>4, <1>5, <1>6

\* What the decoder takes for granted of a loaded database: everything is
\* lowered, an entry is read as one field, every field is there once, and a
\* container's bases lead to a root.
THEOREM LoadedDatabasesAreClosed == LoaderSpec => []LoadedIsClosed
  <1>1. NamespaceInv /\ LoaderInv => LoadedIsClosed
    BY LoadedDatabaseIsClosed
  <1> QED BY <1>1, LoadsAreSound, PTL
===============================================================================
