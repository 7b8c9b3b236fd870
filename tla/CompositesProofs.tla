---------------------------- MODULE CompositesProofs ----------------------------
(***************************************************************************)
(* The expansion of a composite, whatever the declarations.  It is         *)
(* bounded: never more fields than the limit, never deeper than there are  *)
(* types, circular declarations included.  Its fields come in the order    *)
(* their bits have, and it is refused only for a reason.                   *)
(***************************************************************************)
EXTENDS Composites, FiniteSetTheorems, Lists

\* A call in progress; of its name and its dimensions nothing is said.
IsFrame(r) ==
  r \in [type : TypeIds, name : {r.name}, done : Nat,
         spans : {r.spans}, indices : {r.indices}]

\* The calls in progress, no two on the same type.
Nested(s) ==
  /\ IsList(s)
  /\ \A i \in 1 .. Len(s) : IsFrame(s[i])
  /\ \A i, j \in 1 .. Len(s) : s[i].type = s[j].type => i = j

\* Calls are made on composites only.
OnComposites(s) == \A i \in 1 .. Len(s) : ~ IsField(s[i].type)

ExpansionInv ==
  /\ types \in Declarations
  /\ root \in TypeIds
  /\ Nested(frames) /\ OnComposites(frames)
  /\ IsList(fields)
  /\ Len(fields) <= MaxExpandedFields

-------------------------------------------------------------------------------
\* What a type holds is a type.
LEMMA ElementIsType ==
  ASSUME types \in Declarations, NEW t \in TypeIds, IsArray(t)
  PROVE  types[t].element \in TypeIds
  <1>1. types[t] \in Shapes
    BY DeclarationsAssumption
  <1> QED BY <1>1 DEF Shapes, IsArray
LEMMA MemberIsType ==
  ASSUME types \in Declarations, NEW t \in TypeIds, ~ IsField(t), ~ IsArray(t),
         NEW k \in 1 .. Len(types[t].members)
  PROVE  types[t].members[k].type \in TypeIds
  <1>1. types[t] \in Shapes
    BY DeclarationsAssumption
  <1>2. types[t].members \in Seq([name : MemberNames, type : TypeIds])
    BY <1>1 DEF Shapes, IsArray, IsField
  <1>3. types[t].members[k] \in [name : MemberNames, type : TypeIds]
    BY <1>2, ElementOfSeq
  <1> QED BY <1>3

\* A new call is one, and one that goes on stays one, on the same type.
LEMMA FrameIsFrame ==
  ASSUME NEW t \in TypeIds, NEW name, NEW chosen
  PROVE  IsFrame(FrameOf(t, name, chosen)) /\ FrameOf(t, name, chosen).type = t
  BY DEF FrameOf, IsFrame
PutCounters(r, done, indices) == [r EXCEPT !.done = done, !.indices = indices]
LEMMA FrameCounters ==
  ASSUME NEW r, IsFrame(r), NEW x \in Nat, NEW y
  PROVE  IsFrame(PutCounters(r, x, y)) /\ PutCounters(r, x, y).type = r.type
  BY DEF IsFrame, PutCounters
LEMMA AdvancedIsFrame ==
  ASSUME NEW r, IsFrame(r)
  PROVE  IsFrame(Advanced(r)) /\ Advanced(r).type = r.type
  <1>1. Advanced(r) = PutCounters(r, r.done + 1, Following(r.indices, r.spans))
    BY DEF IsFrame, Advanced, PutCounters
  <1>2. r.done + 1 \in Nat
    BY DEF IsFrame
  <1> QED BY <1>1, <1>2, FrameCounters

-------------------------------------------------------------------------------
\* A call on a type no call below is on.
LEMMA NestedAppend ==
  ASSUME NEW s, Nested(s), NEW r, IsFrame(r),
         \A i \in 1 .. Len(s) : s[i].type # r.type
  PROVE  Nested(Append(s, r))
  <1> DEFINE u == Append(s, r)
  <1>1. /\ IsList(u) /\ Len(u) = Len(s) + 1
        /\ \A i \in 1 .. Len(s) : u[i] = s[i]
        /\ u[Len(s) + 1] = r
    BY ListAppend DEF Nested
  <1>2. Len(s) \in Nat
    BY DEF Nested, IsList
  <1> HIDE DEF u
  <1>3. \A i \in 1 .. Len(u) : i \in 1 .. Len(s) \/ i = Len(s) + 1
    BY <1>1, <1>2
  <1>4. \A i \in 1 .. Len(u) : IsFrame(u[i])
    BY <1>1, <1>3 DEF Nested
  <1>5. \A i, j \in 1 .. Len(u) : u[i].type = u[j].type => i = j
    BY <1>1, <1>3 DEF Nested
  <1> QED BY <1>1, <1>4, <1>5 DEF Nested, u

\* A call that returns.
LEMMA BelowNested ==
  ASSUME Nested(frames), frames # <<>>
  PROVE  /\ Nested(Below) /\ IsFrame(Top)
         /\ Len(frames) \in Nat \ {0} /\ Len(Below) = Len(frames) - 1
         /\ \A i \in 1 .. Len(Below) : Below[i] = frames[i] /\ frames[i].type # Top.type
  <1>1. /\ IsList(Below) /\ Len(frames) \in Nat \ {0}
        /\ Len(Below) = Len(frames) - 1
        /\ \A i \in 1 .. Len(Below) : Below[i] = frames[i]
    BY ListFront DEF Nested, Below
  <1>2. Len(frames) \in 1 .. Len(frames) /\ \A i \in 1 .. Len(Below) : i \in 1 .. Len(frames) /\ i # Len(frames)
    BY <1>1
  <1>3. IsFrame(Top) /\ \A i \in 1 .. Len(Below) : frames[i].type # Top.type
    BY <1>2 DEF Nested, Top
  <1>4. Nested(Below)
    BY <1>1, <1>2 DEF Nested
  <1> QED BY <1>1, <1>3, <1>4

\* A call that goes on: the same types, in the same places.
LEMMA AdvancedNested ==
  ASSUME Nested(frames), frames # <<>>
  PROVE  LET below == Append(Below, Advanced(Top))
         IN  /\ Nested(below) /\ Len(below) = Len(frames)
             /\ \A i \in 1 .. Len(frames) : below[i].type = frames[i].type
  <1> DEFINE below == Append(Below, Advanced(Top))
  <1>1. /\ Nested(Below) /\ IsFrame(Top)
        /\ Len(frames) \in Nat \ {0} /\ Len(Below) = Len(frames) - 1
        /\ \A i \in 1 .. Len(Below) : Below[i] = frames[i] /\ frames[i].type # Top.type
    BY BelowNested
  <1>2. IsFrame(Advanced(Top)) /\ Advanced(Top).type = Top.type
    BY <1>1, AdvancedIsFrame
  <1>3. Nested(below)
    BY <1>1, <1>2, NestedAppend
  <1>4. /\ Len(below) = Len(Below) + 1
        /\ \A i \in 1 .. Len(Below) : below[i] = Below[i]
        /\ below[Len(Below) + 1] = Advanced(Top)
    BY <1>1, ListAppend DEF Nested
  <1> HIDE DEF below
  <1>5. \A i \in 1 .. Len(frames) : i \in 1 .. Len(Below) \/ i = Len(frames)
    BY <1>1
  <1>6. \A i \in 1 .. Len(frames) : below[i].type = frames[i].type
    BY <1>1, <1>2, <1>4, <1>5 DEF Top
  <1>7. Len(below) = Len(frames)
    BY <1>1, <1>4
  <1> QED BY <1>3, <1>6, <1>7 DEF below

\* Whatever is collected, the fields stay within the limit and the calls apart.
LEMMA CollectBounded ==
  ASSUME ExpansionInv, NEW t \in TypeIds, NEW name, NEW chosen, NEW below,
         Nested(below), Len(below) = Len(frames),
         \A i \in 1 .. Len(frames) : below[i].type = frames[i].type,
         Collect(t, name, chosen, below)
  PROVE  /\ Nested(frames') /\ OnComposites(frames')
         /\ IsList(fields') /\ Len(fields') <= MaxExpandedFields
  <1>0. OnComposites(below)
    BY DEF ExpansionInv, OnComposites
  <1>1. CASE ~ Accepted(t, chosen)
    BY <1>1 DEF Collect, ExpansionInv
  <1>2. CASE Accepted(t, chosen) /\ IsField(t)
    <2> DEFINE f == [name |-> name, type |-> t]
    <2>1. fields' = Append(fields, f) /\ frames' = below
      BY <1>2 DEF Collect
    <2> HIDE DEF f
    <2>2. Len(fields) < MaxExpandedFields /\ Len(fields) \in Nat
      BY <1>2 DEF Accepted, ExpansionInv, IsList
    <2>3. IsList(Append(fields, f)) /\ Len(Append(fields, f)) = Len(fields) + 1
      BY ListAppend DEF ExpansionInv
    <2> QED BY <1>0, <2>1, <2>2, <2>3, LimitsAssumption
  <1>3. CASE Accepted(t, chosen) /\ ~ IsField(t)
    <2> DEFINE r == FrameOf(t, name, chosen)
    <2>1. frames' = Append(below, r) /\ fields' = fields
      BY <1>3 DEF Collect
    <2>2. IsFrame(r) /\ r.type = t
      BY FrameIsFrame
    <2> HIDE DEF r
    <2>3. t \notin Visiting
      BY <1>3 DEF Accepted
    <2>4. \A i \in 1 .. Len(below) : below[i].type # r.type
      BY <2>2, <2>3, ListDomain DEF Visiting, ExpansionInv, Nested
    <2>5. Nested(Append(below, r))
      BY <2>2, <2>4, NestedAppend
    <2> DEFINE u == Append(below, r)
    <2>6. /\ Len(u) = Len(below) + 1 /\ Len(below) \in Nat
          /\ \A i \in 1 .. Len(below) : u[i] = below[i]
          /\ u[Len(below) + 1] = r
      BY ListAppend DEF Nested, IsList
    <2> HIDE DEF u
    <2>7. \A i \in 1 .. Len(u) : i \in 1 .. Len(below) \/ i = Len(below) + 1
      BY <2>6
    <2>8. OnComposites(u)
      BY <1>0, <1>3, <2>2, <2>6, <2>7 DEF OnComposites
    <2> QED BY <2>1, <2>5, <2>8 DEF ExpansionInv, u
  <1> QED BY <1>1, <1>2, <1>3

-------------------------------------------------------------------------------
LEMMA EmptyNested ==
  Nested(<<>>) /\ OnComposites(<<>>) /\ IsList(<<>>) /\ Len(<<>>) = 0
  BY DEF Nested, OnComposites, IsList

LEMMA ExpansionInit == CompositeInit => ExpansionInv
  BY EmptyNested, LimitsAssumption DEF CompositeInit, ExpansionInv

LEMMA ExpansionStep == ExpansionInv /\ [CompositeNext]_compositeVars => ExpansionInv'
  <1> SUFFICES ASSUME ExpansionInv, [CompositeNext]_compositeVars
               PROVE  ExpansionInv'
    OBVIOUS
  <1>1. CASE Begin
    <2>1. /\ Nested(<<>>) /\ Len(<<>>) = Len(frames) /\ Len(frames) = 0
          /\ Collect(root, <<>>, subset, <<>>) /\ root \in TypeIds
      BY <1>1, EmptyNested DEF Begin, ExpansionInv
    <2>2. \A i \in 1 .. Len(frames) : <<>>[i].type = frames[i].type
      BY <2>1
    <2>3. Nested(frames') /\ OnComposites(frames') /\ IsList(fields') /\ Len(fields') <= MaxExpandedFields
      BY <2>1, <2>2, CollectBounded
    <2> QED BY <1>1, <2>3 DEF Begin, ExpansionInv, OnComposites, IsField
  <1>2. CASE Descend
    <2> DEFINE below == Append(Below, Advanced(Top))
               t == Top.type
    <2>1. /\ Nested(below) /\ Len(below) = Len(frames)
          /\ \A i \in 1 .. Len(frames) : below[i].type = frames[i].type
      BY <1>2, AdvancedNested DEF Descend, ExpansionInv
    <2>2. IsFrame(Top)
      BY <1>2, BelowNested DEF Descend, ExpansionInv
    <2>3. t \in TypeIds /\ Top.done \in Nat
      BY <2>2 DEF IsFrame
    <2>4. Nested(frames') /\ OnComposites(frames') /\ IsList(fields') /\ Len(fields') <= MaxExpandedFields
      <3>1. CASE IsArray(t)
        <4>1. types[t].element \in TypeIds
          BY <2>3, <3>1, ElementIsType DEF ExpansionInv
        <4>2. Collect(types[t].element, Append(Top.name, Top.indices), <<>>, below)
          BY <1>2, <3>1 DEF Descend
        <4> HIDE DEF below, t
        <4> QED BY <2>1, <4>1, <4>2, CollectBounded
      <3>2. CASE ~ IsArray(t)
        <4> DEFINE k == Top.done + 1
                   member == types[t].members[k]
        <4>1. Collect(member.type, Append(Top.name, member.name), <<>>, below)
          BY <1>2, <3>2 DEF Descend
        <4>2. ~ IsField(t)
          BY <1>2, BelowNested DEF Descend, ExpansionInv, OnComposites, Top
        <4>3. k \in 1 .. Len(types[t].members)
          BY <1>2, <2>3, <3>2 DEF Descend, Parts
        <4>4. member.type \in TypeIds
          BY <2>3, <3>2, <4>2, <4>3, MemberIsType DEF ExpansionInv
        <4> HIDE DEF below, t, member
        <4> QED BY <2>1, <4>1, <4>4, CollectBounded
      <3> QED BY <3>1, <3>2
    <2> QED BY <1>2, <2>4 DEF Descend, ExpansionInv, OnComposites, IsField
  <1>3. CASE Return
    <2>1. Nested(Below)
      BY <1>3, BelowNested DEF Return, ExpansionInv
    <2>2. OnComposites(Below)
      BY <1>3, BelowNested DEF Return, ExpansionInv, OnComposites
    <2> QED BY <1>3, <2>1, <2>2 DEF Return, ExpansionInv, OnComposites, IsField
  <1>4. CASE Finish
    BY <1>4 DEF Finish, ExpansionInv, OnComposites, IsField
  <1>5. CASE UNCHANGED compositeVars
    BY <1>5 DEF compositeVars, ExpansionInv, OnComposites, IsField
  <1> QED BY <1>1, <1>2, <1>3, <1>4, <1>5 DEF CompositeNext

\* Calls apart are no more than there are types.
LEMMA NestedIsShort ==
  ASSUME NEW s, Nested(s)
  PROVE  Len(s) <= N
  <1>1. Len(s) \in Nat
    BY DEF Nested, IsList
  <1> DEFINE on == [i \in 1 .. Len(s) |-> s[i].type]
  <1>2. on \in Injection(1 .. Len(s), TypeIds)
    BY DEF Nested, IsFrame, Injection, IsInjective
  <1> HIDE DEF on
  <1>3. Cardinality(1 .. Len(s)) <= Cardinality(TypeIds)
    BY <1>2, TypeIdsAssumption, FS_Injection
  <1>4. Cardinality(1 .. Len(s)) = Len(s)
    <2> DEFINE n == Len(s)
    <2> HIDE DEF n
    <2>1. n \in Int /\ 1 \in Int
      BY <1>1 DEF n
    <2>2. Cardinality(1 .. n) = IF 1 > n THEN 0 ELSE n - 1 + 1
      BY <2>1, FS_Interval
    <2>3. Cardinality(1 .. n) = n
      BY <1>1, <2>2 DEF n
    <2> QED BY <2>3 DEF n
  <1> QED BY <1>3, <1>4 DEF N

\* The walk of collect_leaves is bounded: it never lists more fields than
\* MAX_EXPANDED_FIELDS and never goes deeper than there are types, for every
\* declaration, circular ones included.
THEOREM ExpansionBounded == CompositeSafety => []ExpansionIsBounded
  <1>1. CompositeInit => ExpansionInv
    BY ExpansionInit
  <1>2. ExpansionInv /\ [CompositeNext]_compositeVars => ExpansionInv'
    BY ExpansionStep
  <1>3. ExpansionInv => ExpansionIsBounded
    BY NestedIsShort, ListDomain DEF ExpansionInv, ExpansionIsBounded, Nested
  <1> QED BY <1>1, <1>2, <1>3, PTL DEF CompositeSafety

-------------------------------------------------------------------------------
\* Dimensions that run upwards, and the indices of their elements.
Proper(d) == d \in Seq(Dimension) /\ \A a \in 1..Len(d) : d[a].start <= d[a].end
Inside(i, d) == DOMAIN i = 1..Len(d) /\ Len(i) = Len(d)
                /\ \A a \in 1..Len(d) : i[a] \in d[a].start..d[a].end

LEMMA WidthIs ==
  ASSUME NEW d, Proper(d), NEW a \in 1..Len(d)
  PROVE  /\ d[a].start \in Nat /\ d[a].end \in Nat /\ d[a].start <= d[a].end
         /\ Width(d[a]) \in Nat \ {0} /\ Width(d[a]) = d[a].end - d[a].start + 1
  <1>1. d[a] \in Dimension
    BY ElementOfSeq DEF Proper
  <1>2. d[a].start \in Nat /\ d[a].end \in Nat /\ d[a].start <= d[a].end
    BY <1>1 DEF Proper, Dimension
  <1> QED BY <1>2 DEF Width

Products(upTo, d) ==
  /\ upTo \in [0..Len(d) -> Nat \ {0}]
  /\ upTo[0] = 1
  /\ \A k \in 1..Len(d) : upTo[k] = upTo[k - 1] * Width(d[k])
LEMMA ElementsUnfold ==
  ASSUME NEW d, Proper(d)
  PROVE  \E upTo : Products(upTo, d) /\ Elements(d) = upTo[Len(d)]
  <1> DEFINE n == Len(d)
             V == Nat \ {0}
             step == [x \in (1..n) \X V |-> x[2] * Width(d[x[1]])]
             Solves(g) == g = [i \in 0..Len(d) |-> IF i = 0 THEN 1 ELSE g[i - 1] * Width(d[i])]
             h == CHOOSE g : Solves(g)
  <1>1. n \in Nat /\ 1 \in V
    BY DEF Proper
  <1>2. ASSUME NEW k \in 1..n, NEW v \in V PROVE step[<<k, v>>] = v * Width(d[k]) /\ step[<<k, v>>] \in V
    <2>1. Width(d[k]) \in V
      BY WidthIs
    <2>2. step[<<k, v>>] = v * Width(d[k])
      OBVIOUS
    <2> DEFINE w == Width(d[k])
    <2>3. w \in Nat \ {0} /\ v \in Nat \ {0}
      BY <2>1
    <2> HIDE DEF w
    <2>4. v * w \in Nat \ {0}
      BY <2>3
    <2> QED BY <2>2, <2>4 DEF w
  <1> HIDE DEF V, step
  <1>3. StaysIn(V, step, n)
    BY <1>2 DEF StaysIn
  <1>4. PICK g \in [0..n -> V] : g = [k \in 0..n |-> IF k = 0 THEN 1 ELSE step[<<k, g[k - 1]>>]]
    <2> HIDE DEF n
    <2> QED BY <1>1, <1>3, ChainRecursion
  <1>5. \A k \in 0..n : k # 0 => k \in 1..n /\ g[k - 1] \in V
    <2> HIDE DEF n
    <2>1. \A k \in 0..n : k # 0 => k \in 1..n /\ k - 1 \in 0..n
      BY <1>1
    <2> QED BY <1>4, <2>1
  <1>6. \A k \in 0..n : g[k] = IF k = 0 THEN 1 ELSE g[k - 1] * Width(d[k])
    <2> HIDE DEF n
    <2> QED BY <1>2, <1>4, <1>5
  <1>7. Solves(g)
    BY <1>4, <1>6
  <1>8. Solves(h)
    BY <1>7
  <1>9. Elements(d) = h[n]
    BY DEF Elements
  <1>10. \A k \in 0..n : h[k] = IF k = 0 THEN 1 ELSE h[k - 1] * Width(d[k])
    BY <1>8
  <1> HIDE DEF h, Solves
  <1>11. h[n] = g[n]
    <2> DEFINE T == {k \in 0..n : h[k] = g[k]}
    <2> HIDE DEF n
    <2>1. \A k \in 1..n : k \in 0..n /\ k # 0
      BY <1>1
    <2>2. 0 \in T
      BY <1>1, <1>6, <1>10
    <2>3. \A k \in 1..n : k - 1 \in T => k \in T
      BY <1>6, <1>10, <2>1
    <2> HIDE DEF T
    <2>4. 0..n \subseteq T
      BY <1>1, <2>2, <2>3, InductionTo
    <2> QED BY <1>1, <2>4 DEF T
  <1>12. Products(g, d)
    <2>1. \A k \in 1..n : k \in 0..n /\ k # 0
      BY <1>1
    <2>2. 0 \in 0..n
      BY <1>1
    <2> QED BY <1>4, <1>6, <2>1, <2>2 DEF Products, V
  <1> QED BY <1>9, <1>11, <1>12

Places(place, i, d) ==
  /\ place \in [0..Len(d) -> Int]
  /\ place[0] = 0
  /\ \A k \in 1..Len(d) : place[k] = place[k - 1] * Width(d[k]) + i[k] - d[k].start
LEMMA RowMajorUnfold ==
  ASSUME NEW d, Proper(d), NEW i, Len(i) = Len(d), \A a \in 1..Len(d) : i[a] \in Int
  PROVE  \E place : Places(place, i, d) /\ RowMajor(i, d) = place[Len(d)]
  <1> DEFINE n == Len(d)
             V == Int
             step == [x \in (1..n) \X V |-> x[2] * Width(d[x[1]]) + i[x[1]] - d[x[1]].start]
             Solves(g) == g = [k \in 0..Len(i) |->
                                 IF k = 0 THEN 0
                                 ELSE g[k - 1] * Width(d[k]) + i[k] - d[k].start]
             h == CHOOSE g : Solves(g)
  <1>1. n \in Nat /\ 0 \in V
    BY DEF Proper
  <1>2. ASSUME NEW k \in 1..n, NEW v \in V
        PROVE  /\ step[<<k, v>>] = v * Width(d[k]) + i[k] - d[k].start
               /\ step[<<k, v>>] \in V
    <2> DEFINE w == Width(d[k])
               x == i[k]
               y == d[k].start
    <2>1. w \in Int /\ x \in Int /\ y \in Int
      BY WidthIs
    <2>2. step[<<k, v>>] = v * w + x - y
      OBVIOUS
    <2> HIDE DEF w, x, y
    <2>3. v * w + x - y \in Int
      BY <2>1
    <2> QED BY <2>2, <2>3 DEF w, x, y
  <1> HIDE DEF V, step
  <1>3. StaysIn(V, step, n)
    BY <1>2 DEF StaysIn
  <1>4. PICK g \in [0..n -> V] : g = [k \in 0..n |-> IF k = 0 THEN 0 ELSE step[<<k, g[k - 1]>>]]
    <2> HIDE DEF n
    <2> QED BY <1>1, <1>3, ChainRecursion
  <1>5. \A k \in 0..n : k # 0 => k \in 1..n /\ g[k - 1] \in V
    <2> HIDE DEF n
    <2>1. \A k \in 0..n : k # 0 => k \in 1..n /\ k - 1 \in 0..n
      BY <1>1
    <2> QED BY <1>4, <2>1
  <1>6. \A k \in 0..n : g[k] = IF k = 0 THEN 0 ELSE g[k - 1] * Width(d[k]) + i[k] - d[k].start
    <2> HIDE DEF n
    <2> QED BY <1>2, <1>4, <1>5
  <1>7. Solves(g)
    BY <1>4, <1>6
  <1>8. Solves(h)
    BY <1>7
  <1>9. RowMajor(i, d) = h[n]
    BY DEF RowMajor
  <1>10. \A k \in 0..n : h[k] = IF k = 0 THEN 0 ELSE h[k - 1] * Width(d[k]) + i[k] - d[k].start
    BY <1>8
  <1> HIDE DEF h, Solves
  <1>11. h[n] = g[n]
    <2> DEFINE T == {k \in 0..n : h[k] = g[k]}
    <2> HIDE DEF n
    <2>1. \A k \in 1..n : k \in 0..n /\ k # 0
      BY <1>1
    <2>2. 0 \in T
      BY <1>1, <1>6, <1>10
    <2>3. \A k \in 1..n : k - 1 \in T => k \in T
      BY <1>6, <1>10, <2>1
    <2> HIDE DEF T
    <2>4. 0..n \subseteq T
      BY <1>1, <2>2, <2>3, InductionTo
    <2> QED BY <1>1, <2>4 DEF T
  <1>12. Places(g, i, d)
    <2>1. \A k \in 1..n : k \in 0..n /\ k # 0
      BY <1>1
    <2>2. 0 \in 0..n
      BY <1>1
    <2> QED BY <1>4, <1>6, <2>1, <2>2 DEF Places, V
  <1> QED BY <1>9, <1>11, <1>12

\* The next place along one axis.
LEMMA PlaceAlongAxis ==
  ASSUME NEW p \in Int, NEW u \in Nat \ {0}, NEW w \in Nat \ {0}, NEW x \in 0..(w - 1),
         p \in 0..(u - 1)
  PROVE  /\ p * w + x \in 0..(u * w - 1)
         /\ p = u - 1 /\ x = w - 1 => p * w + x = u * w - 1
  <1>1. p + 1 <= u /\ p \in Nat
    OBVIOUS
  <1>2. (p + 1) * w <= u * w
    BY <1>1
  <1>3. (p + 1) * w = p * w + w /\ p * w >= 0
    BY <1>1
  <1> DEFINE a == p * w
             b == u * w
             c == (p + 1) * w
  <1>4. a \in Int /\ b \in Int /\ c \in Int
    BY <1>1
  <1>5. p = u - 1 => c = b
    OBVIOUS
  <1> HIDE DEF a, b, c
  <1> SUFFICES /\ a + x \in 0..(b - 1)
               /\ p = u - 1 /\ x = w - 1 => a + x = b - 1
    BY DEF a, b
  <1>6. c <= b /\ c = a + w /\ a >= 0
    BY <1>2, <1>3 DEF a, b, c
  <1> QED BY <1>4, <1>5, <1>6

\* Elements have places, from the first to the last.
LEMMA PlacesFit ==
  ASSUME NEW d, Proper(d), NEW i, Inside(i, d), NEW upTo, Products(upTo, d),
         NEW place, Places(place, i, d)
  PROVE  /\ \A k \in 0..Len(d) : place[k] \in 0..(upTo[k] - 1)
         /\ (\A a \in 1..Len(d) : i[a] = d[a].end) => place[Len(d)] = upTo[Len(d)] - 1
         /\ (\A a \in 1..Len(d) : i[a] = d[a].start) => place[Len(d)] = 0
  <1> DEFINE n == Len(d)
             Fit == {k \in 0..n : place[k] \in 0..(upTo[k] - 1)}
             Last == {k \in 0..n : place[k] = upTo[k] - 1}
             First == {k \in 0..n : place[k] = 0}
  <1>1. n \in Nat
    BY DEF Proper
  <1>2. /\ upTo \in [0..n -> Nat \ {0}] /\ upTo[0] = 1
        /\ place \in [0..n -> Int] /\ place[0] = 0
    BY DEF Products, Places
  <1>3. ASSUME NEW k \in 1..n
        PROVE  LET w == Width(d[k])
                   x == i[k] - d[k].start
               IN  /\ w \in Nat \ {0} /\ x \in 0..(w - 1)
                   /\ upTo[k] = upTo[k - 1] * w /\ place[k] = place[k - 1] * w + x
                   /\ i[k] = d[k].end => x = w - 1
                   /\ i[k] = d[k].start => x = 0
                   /\ k \in 0..n /\ k - 1 \in 0..n
                   /\ upTo[k - 1] \in Nat \ {0} /\ place[k - 1] \in Int
    <2> DEFINE w == Width(d[k])
               s == d[k].start
               e == d[k].end
               x == i[k]
               q == place[k - 1]
    <2>1. /\ s \in Nat /\ e \in Nat /\ s <= e /\ w \in Nat \ {0} /\ w = e - s + 1
      BY WidthIs
    <2>2. x \in s..e
      BY DEF Inside
    <2>3. k \in 0..n /\ k - 1 \in 0..n
      BY <1>1
    <2>4. upTo[k - 1] \in Nat \ {0} /\ q \in Int
      <3> HIDE DEF n
      <3> QED BY <1>2, <2>3
    <2>5. upTo[k] = upTo[k - 1] * w /\ place[k] = q * w + x - s
      BY DEF Products, Places
    <2> HIDE DEF w, s, e, x, q, n
    <2>6. x - s \in 0..(w - 1) /\ (x = e => x - s = w - 1) /\ (x = s => x - s = 0)
      BY <2>1, <2>2
    <2> DEFINE m == q * w
    <2>7. m \in Int
      BY <2>1, <2>4
    <2>8. m + x - s = m + (x - s)
      <3> HIDE DEF m
      <3> QED BY <2>1, <2>2, <2>7
    <2> QED BY <2>1, <2>3, <2>4, <2>5, <2>6, <2>8 DEF w, s, e, x, q
  <1> HIDE DEF n
  <1>4. 0 \in Fit /\ 0 \in Last /\ 0 \in First
    BY <1>1, <1>2
  <1>5. ASSUME NEW k \in 1..n, k - 1 \in Fit PROVE k \in Fit
    <2> DEFINE w == Width(d[k])
               x == i[k] - d[k].start
    <2>1. place[k - 1] \in 0..(upTo[k - 1] - 1)
      BY <1>5
    <2> HIDE DEF w, x
    <2>2. place[k - 1] * w + x \in 0..(upTo[k - 1] * w - 1)
      BY <1>3, <2>1, PlaceAlongAxis DEF w, x
    <2> QED BY <1>3, <2>2 DEF w, x
  <1>6. ASSUME \A a \in 1..n : i[a] = d[a].end, NEW k \in 1..n, k - 1 \in Last PROVE k \in Last
    <2> DEFINE w == Width(d[k])
               x == i[k] - d[k].start
               u == upTo[k - 1]
    <2>1. place[k - 1] = u - 1 /\ u \in Nat \ {0} /\ w \in Nat \ {0} /\ x = w - 1 /\ x \in 0..(w - 1)
      BY <1>3, <1>6
    <2>2. upTo[k] = u * w /\ place[k] = (u - 1) * w + x /\ k \in 0..n
      BY <1>3, <2>1
    <2> HIDE DEF w, x, u
    <2>3. (u - 1) * w + x = u * w - 1
      <3>1. u - 1 \in Int /\ u - 1 \in 0..(u - 1)
        BY <2>1
      <3> QED BY <2>1, <3>1, PlaceAlongAxis
    <2> QED BY <2>2, <2>3
  <1>7. ASSUME \A a \in 1..n : i[a] = d[a].start, NEW k \in 1..n, k - 1 \in First PROVE k \in First
    <2>1. place[k - 1] = 0 /\ i[k] - d[k].start = 0 /\ Width(d[k]) \in Nat
      BY <1>3, <1>7
    <2>2. place[k] = place[k - 1] * Width(d[k]) + (i[k] - d[k].start) /\ k \in 0..n
      BY <1>3
    <2>3. place[k] = 0 * Width(d[k]) + 0
      BY <2>1, <2>2
    <2> QED BY <2>1, <2>2, <2>3
  <1> HIDE DEF Fit, Last, First
  <1>8. 0..n \subseteq Fit
    BY <1>1, <1>4, <1>5, InductionTo
  <1>9. ASSUME \A a \in 1..n : i[a] = d[a].end PROVE place[n] = upTo[n] - 1
    <2>1. 0..n \subseteq Last
      BY <1>1, <1>4, <1>6, <1>9, InductionTo
    <2> QED BY <1>1, <2>1 DEF Last
  <1>10. ASSUME \A a \in 1..n : i[a] = d[a].start PROVE place[n] = 0
    <2>1. 0..n \subseteq First
      BY <1>1, <1>4, <1>7, <1>10, InductionTo
    <2> QED BY <1>1, <2>1 DEF First
  <1>11. \A k \in 0..n : place[k] \in 0..(upTo[k] - 1)
    BY <1>8 DEF Fit
  <1> QED BY <1>9, <1>10, <1>11 DEF n

LEMMA RowMajorIs ==
  ASSUME NEW d, Proper(d), NEW i, Inside(i, d)
  PROVE  /\ Elements(d) \in Nat \ {0}
         /\ RowMajor(i, d) \in 0..(Elements(d) - 1)
         /\ (\A a \in 1..Len(d) : i[a] = d[a].end) => RowMajor(i, d) = Elements(d) - 1
         /\ (\A a \in 1..Len(d) : i[a] = d[a].start) => RowMajor(i, d) = 0
  <1>1. PICK upTo : Products(upTo, d) /\ Elements(d) = upTo[Len(d)]
    BY ElementsUnfold
  <1>2. Len(i) = Len(d) /\ \A a \in 1..Len(d) : i[a] \in Int
    BY WidthIs DEF Inside
  <1>3. PICK place : Places(place, i, d) /\ RowMajor(i, d) = place[Len(d)]
    BY <1>2, RowMajorUnfold
  <1>4. Len(d) \in 0..Len(d)
    BY DEF Proper
  <1>5. /\ \A k \in 0..Len(d) : place[k] \in 0..(upTo[k] - 1)
        /\ (\A a \in 1..Len(d) : i[a] = d[a].end) => place[Len(d)] = upTo[Len(d)] - 1
        /\ (\A a \in 1..Len(d) : i[a] = d[a].start) => place[Len(d)] = 0
    BY <1>1, <1>3, PlacesFit
  <1>6. upTo[Len(d)] \in Nat \ {0}
    BY <1>1, <1>4 DEF Products
  <1> QED BY <1>1, <1>3, <1>4, <1>5, <1>6

LEMMA Greatest ==
  ASSUME NEW n \in Nat, NEW S, S \subseteq 1..n, S # {}
  PROVE  \E m \in S : \A k \in S : k <= m
  <1> DEFINE T == {n - k : k \in S}
  <1>1. T \subseteq Nat /\ T # {}
    OBVIOUS
  <1>2. PICK t \in T : \A u \in T : t <= u
    <2> HIDE DEF T
    <2> QED BY <1>1, Least
  <1>3. PICK m \in S : t = n - m
    OBVIOUS
  <1>4. ASSUME NEW k \in S PROVE k <= m
    <2>1. n - m <= n - k
      BY <1>2, <1>3
    <2>2. k \in Int /\ m \in Int
      OBVIOUS
    <2> QED BY <2>1, <2>2
  <1> QED BY <1>4

\* The indices after some have the place after theirs.
LEMMA FollowingIsNext ==
  ASSUME NEW d, Proper(d), NEW i, Inside(i, d), RowMajor(i, d) + 1 < Elements(d)
  PROVE  /\ Inside(Following(i, d), d)
         /\ RowMajor(Following(i, d), d) = RowMajor(i, d) + 1
  <1> DEFINE n == Len(d)
             axes == {a \in 1..n : i[a] < d[a].end}
             f == Following(i, d)
  <1>1. n \in Nat /\ DOMAIN i = 1..n /\ Len(i) = n
    BY DEF Proper, Inside
  <1>2. \A a \in 1..n : /\ i[a] \in Nat /\ d[a].start \in Nat /\ d[a].end \in Nat
                        /\ d[a].start <= i[a] /\ i[a] <= d[a].end /\ d[a].start <= d[a].end
                        /\ Width(d[a]) \in Nat \ {0} /\ Width(d[a]) = d[a].end - d[a].start + 1
    <2> SUFFICES ASSUME NEW a \in 1..n
                 PROVE  /\ i[a] \in Nat /\ d[a].start \in Nat /\ d[a].end \in Nat
                        /\ d[a].start <= i[a] /\ i[a] <= d[a].end /\ d[a].start <= d[a].end
                        /\ Width(d[a]) \in Nat \ {0} /\ Width(d[a]) = d[a].end - d[a].start + 1
      OBVIOUS
    <2>1. i[a] \in d[a].start..d[a].end
      BY DEF Inside
    <2> QED BY <2>1, WidthIs
  <1>3. axes # {}
    <2> SUFFICES ASSUME axes = {} PROVE FALSE
      OBVIOUS
    <2>1. \A a \in 1..n : i[a] = d[a].end
      BY <1>2
    <2>2. RowMajor(i, d) = Elements(d) - 1 /\ Elements(d) \in Nat
      BY <2>1, RowMajorIs
    <2> QED BY <2>2
  <1>4. f = [a \in 1..n |-> IF \A b \in axes : a > b THEN d[a].start
                            ELSE IF \A b \in axes : a >= b THEN i[a] + 1
                            ELSE i[a]]
    BY <1>1 DEF Following
  <1> HIDE DEF f
  <1>5. PICK m \in axes : \A a \in axes : a <= m
    <2>1. axes \subseteq 1..n
      OBVIOUS
    <2> HIDE DEF axes, n
    <2> QED BY <1>1, <1>3, <2>1, Greatest
  <1>6. m \in 1..n /\ i[m] < d[m].end /\ \A a \in 1..n : a > m => i[a] = d[a].end
    <2>1. ASSUME NEW a \in 1..n, a > m PROVE i[a] = d[a].end
      <3>1. a \notin axes
        BY <1>1, <1>5, <2>1
      <3> QED BY <1>2, <3>1
    <2> QED BY <2>1
  <1>7. ASSUME NEW a \in 1..n
        PROVE  /\ a > m => f[a] = d[a].start
               /\ a = m => f[a] = i[a] + 1
               /\ a < m => f[a] = i[a]
    <2>0. \A b \in axes : b \in Int
      OBVIOUS
    <2> HIDE DEF axes
    <2>1. (\A b \in axes : a > b) <=> a > m
      BY <1>5, <2>0
    <2>2. (\A b \in axes : a >= b) <=> a >= m
      BY <1>5, <2>0
    <2>3. m \in Int /\ a \in Int
      BY <1>6
    <2>4. f[a] = IF a > m THEN d[a].start ELSE IF a >= m THEN i[a] + 1 ELSE i[a]
      BY <1>4, <2>1, <2>2
    <2> QED BY <2>3, <2>4
  <1>8. \A a \in 1..n : f[a] \in d[a].start..d[a].end
    <2> SUFFICES ASSUME NEW a \in 1..n PROVE f[a] \in d[a].start..d[a].end
      OBVIOUS
    <2>1. a > m \/ a = m \/ a < m
      BY <1>6
    <2> HIDE DEF axes, n
    <2> QED BY <1>2, <1>6, <1>7, <2>1
  <1>9. \A a \in 1..n : f[a] \in Int
    BY <1>2, <1>8
  <1>10. f = [a \in 1..n |-> f[a]] /\ Len(f) = n
    <2>1. f = [a \in 1..n |-> f[a]]
      BY <1>4
    <2>2. f \in [1..n -> Int]
      BY <1>9, <2>1
    <2>3. Len(f) = n
      BY <1>1, <2>2
    <2> QED BY <2>1, <2>3
  <1>11. Inside(f, d)
    BY <1>8, <1>10 DEF Inside
  <1>12. PICK old : Places(old, i, d) /\ RowMajor(i, d) = old[n]
    BY <1>1, <1>2, RowMajorUnfold
  <1>13. PICK new : Places(new, f, d) /\ RowMajor(f, d) = new[n]
    BY <1>9, <1>10, RowMajorUnfold
  <1> DEFINE T == {k \in 0..n : new[k] = IF k < m THEN old[k] ELSE old[k] + 1}
  <1>14. 0 \in T
    BY <1>1, <1>6, <1>12, <1>13 DEF Places
  <1>15. ASSUME NEW k \in 1..n, k - 1 \in T PROVE k \in T
    <2> DEFINE w == Width(d[k])
               s == d[k].start
               e == d[k].end
               p == old[k - 1]
    <2>1. /\ w \in Nat /\ s \in Nat /\ e \in Nat /\ w = e - s + 1 /\ i[k] \in Nat
      BY <1>2
    <2>2. k - 1 \in 0..n /\ k \in 0..n /\ k \in Int /\ m \in Int
      BY <1>1, <1>6
    <2>3. p \in Int
      BY <1>12, <2>2 DEF Places
    <2>4. old[k] = p * w + i[k] - s /\ new[k] = new[k - 1] * w + f[k] - s
      BY <1>12, <1>13 DEF Places
    <2>5. new[k - 1] = IF k - 1 < m THEN p ELSE p + 1
      BY <1>15
    <2>6. /\ k > m => f[k] = s /\ i[k] = e
          /\ k = m => f[k] = i[k] + 1
          /\ k < m => f[k] = i[k]
      BY <1>6, <1>7
    <2> HIDE DEF w, s, e, p, T, n, axes
    <2>7. p * w \in Int /\ (p + 1) * w = p * w + w
      BY <2>1, <2>3
    <2> DEFINE x == p * w
    <2>8. CASE k < m
      <3>1. new[k - 1] = p
        BY <2>2, <2>5, <2>8
      <3>2. new[k] = old[k]
        BY <2>4, <2>6, <2>8, <3>1
      <3> QED BY <2>2, <2>8, <3>2 DEF T
    <2>9. CASE k = m
      <3>1. new[k - 1] = p
        BY <2>2, <2>5, <2>9
      <3>2. new[k] = x + (i[k] + 1) - s /\ old[k] = x + i[k] - s
        BY <2>4, <2>6, <2>9, <3>1
      <3>3. new[k] = old[k] + 1
        <4>1. x \in Int
          BY <2>7
        <4> HIDE DEF x
        <4> QED BY <2>1, <3>2, <4>1
      <3> QED BY <2>2, <2>9, <3>3 DEF T
    <2>10. CASE k > m
      <3>1. new[k - 1] = p + 1
        BY <2>2, <2>5, <2>10
      <3>2. new[k] = (p + 1) * w + s - s /\ old[k] = x + e - s
        BY <2>4, <2>6, <2>10, <3>1
      <3>3. new[k] = old[k] + 1
        <4>1. x \in Int /\ (p + 1) * w = x + w
          BY <2>7
        <4> DEFINE y == (p + 1) * w
        <4>2. new[k] = y + s - s /\ y = x + w /\ y \in Int
          BY <2>1, <3>2, <4>1
        <4> HIDE DEF x, y
        <4> QED BY <2>1, <3>2, <4>1, <4>2
      <3> QED BY <2>2, <2>10, <3>3 DEF T
    <2> QED BY <2>2, <2>8, <2>9, <2>10
  <1> HIDE DEF T, axes, n
  <1>16. 0..n \subseteq T
    BY <1>1, <1>14, <1>15, InductionTo
  <1>17. new[n] = old[n] + 1
    <2>1. n \in T /\ ~ (n < m)
      BY <1>1, <1>6, <1>16
    <2> QED BY <2>1 DEF T
  <1> QED BY <1>11, <1>12, <1>13, <1>17 DEF f

-------------------------------------------------------------------------------
\* The fields of the first members, up to n of them.
Sums(sum, t, n, count) ==
  /\ sum \in [0..n -> Nat]
  /\ sum[0] = 0
  /\ \A k \in 1..n : sum[k] = sum[k - 1] + count[types[t].members[k].type]
MembersAre(t, n) == \A k \in 1..n : types[t].members[k].type \in TypeIds
LEMMA FirstMembersUnfold ==
  ASSUME NEW t, NEW n \in Nat, MembersAre(t, n), NEW count \in [TypeIds -> Nat]
  PROVE  \E sum : Sums(sum, t, n, count) /\ \A i \in 0..n : FirstMembers(t, i, count) = sum[i]
  <1> DEFINE step == [x \in (1..n) \X Nat |-> x[2] + count[types[t].members[x[1]].type]]
  <1>1. ASSUME NEW k \in 1..n, NEW v \in Nat
        PROVE  /\ step[<<k, v>>] = v + count[types[t].members[k].type]
               /\ step[<<k, v>>] \in Nat
    <2> DEFINE c == count[types[t].members[k].type]
    <2>1. c \in Nat
      BY DEF MembersAre
    <2>2. step[<<k, v>>] = v + c
      OBVIOUS
    <2> HIDE DEF c, step
    <2>3. v + c \in Nat
      BY <2>1
    <2> QED BY <2>2, <2>3 DEF c
  <1> HIDE DEF step
  <1>2. StaysIn(Nat, step, n)
    BY <1>1 DEF StaysIn
  <1>3. PICK g \in [0..n -> Nat] : g = [k \in 0..n |-> IF k = 0 THEN 0 ELSE step[<<k, g[k - 1]>>]]
    <2> DEFINE V == Nat
               x == 0
    <2>1. x \in V /\ StaysIn(V, step, n)
      BY <1>2
    <2> HIDE DEF V, x
    <2>2. \E g \in [0..n -> V] : g = [k \in 0..n |-> IF k = 0 THEN x ELSE step[<<k, g[k - 1]>>]]
      BY <2>1, ChainRecursion
    <2> QED BY <2>2 DEF V, x
  <1>4. \A k \in 0..n : k # 0 => k \in 1..n /\ k - 1 \in 0..n /\ g[k - 1] \in Nat
    <2>1. \A k \in 0..n : k # 0 => k \in 1..n /\ k - 1 \in 0..n
      OBVIOUS
    <2> QED BY <1>3, <2>1
  <1>5. \A k \in 0..n : g[k] = IF k = 0 THEN 0 ELSE g[k - 1] + count[types[t].members[k].type]
    BY <1>1, <1>3, <1>4
  <1>6. ASSUME NEW i \in 0..n PROVE FirstMembers(t, i, count) = g[i]
    <2> DEFINE Solves(f) == f = [j \in 0..i |-> IF j = 0 THEN 0
                                                ELSE f[j - 1] + count[types[t].members[j].type]]
               h == CHOOSE f : Solves(f)
               f0 == [j \in 0..i |-> g[j]]
    <2>1. i \in Nat /\ \A j \in 0..i : j \in 0..n /\ (j # 0 => j - 1 \in 0..i)
      OBVIOUS
    <2>2. \A j \in 0..i : f0[j] = g[j]
      OBVIOUS
    <2>3. \A j \in 0..i : f0[j] = IF j = 0 THEN 0 ELSE f0[j - 1] + count[types[t].members[j].type]
      BY <1>5, <2>1, <2>2
    <2>4. Solves(f0)
      BY <2>3
    <2>5. Solves(h)
      BY <2>4
    <2>6. FirstMembers(t, i, count) = h[i]
      BY DEF FirstMembers
    <2>7. \A j \in 0..i : h[j] = IF j = 0 THEN 0 ELSE h[j - 1] + count[types[t].members[j].type]
      BY <2>5
    <2> HIDE DEF h, Solves, f0
    <2> DEFINE T == {j \in 0..i : h[j] = g[j]}
    <2>8. 0 \in T
      BY <1>5, <2>1, <2>7
    <2>9. ASSUME NEW j \in 1..i, j - 1 \in T PROVE j \in T
      <3>1. j \in 0..i /\ j # 0 /\ j \in 0..n
        OBVIOUS
      <3> QED BY <1>5, <2>7, <2>9, <3>1
    <2> HIDE DEF T
    <2>10. 0..i \subseteq T
      BY <2>1, <2>8, <2>9, InductionTo
    <2> QED BY <2>1, <2>6, <2>10 DEF T
  <1>7. Sums(g, t, n, count)
    <2>1. 0 \in 0..n /\ \A k \in 1..n : k \in 0..n /\ k # 0
      OBVIOUS
    <2> QED BY <1>3, <1>5, <2>1 DEF Sums
  <1> QED BY <1>6, <1>7

\* One more member, and never less.
LEMMA FirstMembersIs ==
  ASSUME NEW t, NEW n \in Nat, MembersAre(t, n), NEW count \in [TypeIds -> Nat]
  PROVE  /\ FirstMembers(t, 0, count) = 0
         /\ \A i \in 0..n : FirstMembers(t, i, count) \in Nat
         /\ \A i \in 1..n : FirstMembers(t, i, count)
                              = FirstMembers(t, i - 1, count) + count[types[t].members[i].type]
         /\ \A i \in 0..n : FirstMembers(t, i, count) <= FirstMembers(t, n, count)
  <1>1. PICK sum : Sums(sum, t, n, count) /\ \A i \in 0..n : FirstMembers(t, i, count) = sum[i]
    BY FirstMembersUnfold
  <1>2. sum \in [0..n -> Nat] /\ sum[0] = 0
    BY <1>1 DEF Sums
  <1>3. ASSUME NEW i \in 1..n
        PROVE  /\ sum[i] = sum[i - 1] + count[types[t].members[i].type]
               /\ i - 1 \in 0..n /\ i \in 0..n /\ sum[i - 1] \in Nat /\ sum[i] \in Nat
               /\ sum[i - 1] <= sum[i]
    <2>1. i - 1 \in 0..n /\ i \in 0..n
      OBVIOUS
    <2>2. sum[i] = sum[i - 1] + count[types[t].members[i].type]
      BY <1>1 DEF Sums
    <2>3. sum[i - 1] \in Nat /\ sum[i] \in Nat
      BY <1>2, <2>1
    <2>4. count[types[t].members[i].type] \in Nat
      BY DEF MembersAre
    <2> QED BY <2>1, <2>2, <2>3, <2>4
  <1>4. ASSUME NEW i \in 0..n PROVE sum[i] <= sum[n]
    <2> DEFINE T == {k \in 0..(n - i) : sum[i] <= sum[i + k]}
    <2>0. n - i \in Nat /\ i \in Nat
      OBVIOUS
    <2>1. 0 \in T
      <3>1. sum[i] \in Nat /\ i + 0 = i
        BY <1>2
      <3> QED BY <2>0, <3>1
    <2>2. ASSUME NEW k \in 1..(n - i), k - 1 \in T PROVE k \in T
      <3> DEFINE x == i + k
      <3>1. x \in 1..n /\ x - 1 = i + (k - 1) /\ k \in 0..(n - i)
        BY <2>0
      <3>2. sum[i] <= sum[i + (k - 1)]
        BY <2>2
      <3> HIDE DEF x
      <3>3. sum[x - 1] <= sum[x] /\ sum[x - 1] \in Nat /\ sum[x] \in Nat /\ sum[i] \in Nat
        BY <1>2, <1>3, <3>1
      <3>4. sum[i] <= sum[x]
        BY <3>1, <3>2, <3>3
      <3> QED BY <3>1, <3>4 DEF x
    <2> HIDE DEF T
    <2>3. 0..(n - i) \subseteq T
      BY <2>0, <2>1, <2>2, InductionTo
    <2>4. n - i \in T /\ i + (n - i) = n
      BY <2>0, <2>3
    <2> QED BY <2>4 DEF T
  <1>5. 0 \in 0..n /\ n \in 0..n
    OBVIOUS
  <1>6. FirstMembers(t, 0, count) = 0
    BY <1>1, <1>2, <1>5
  <1>7. \A i \in 0..n : FirstMembers(t, i, count) \in Nat
    BY <1>1, <1>2
  <1>8. \A i \in 1..n : FirstMembers(t, i, count)
                          = FirstMembers(t, i - 1, count) + count[types[t].members[i].type]
    BY <1>1, <1>3
  <1>9. \A i \in 0..n : FirstMembers(t, i, count) <= FirstMembers(t, n, count)
    BY <1>1, <1>4, <1>5
  <1> QED BY <1>6, <1>7, <1>8, <1>9

\* It depends on the counts of the members only.
LEMMA FirstMembersAlike ==
  ASSUME NEW t, NEW n \in Nat, MembersAre(t, n),
         NEW count \in [TypeIds -> Nat], NEW other \in [TypeIds -> Nat],
         \A k \in 1..n : count[types[t].members[k].type] = other[types[t].members[k].type]
  PROVE  FirstMembers(t, n, count) = FirstMembers(t, n, other)
  <1>1. PICK a : Sums(a, t, n, count) /\ \A i \in 0..n : FirstMembers(t, i, count) = a[i]
    BY FirstMembersUnfold
  <1>2. PICK b : Sums(b, t, n, other) /\ \A i \in 0..n : FirstMembers(t, i, other) = b[i]
    BY FirstMembersUnfold
  <1> DEFINE T == {k \in 0..n : a[k] = b[k]}
  <1>3. 0 \in T
    BY <1>1, <1>2 DEF Sums
  <1>4. ASSUME NEW k \in 1..n, k - 1 \in T PROVE k \in T
    <2>1. k \in 0..n /\ a[k - 1] = b[k - 1]
      BY <1>4
    <2>2. a[k] = a[k - 1] + count[types[t].members[k].type]
      BY <1>1 DEF Sums
    <2>3. b[k] = b[k - 1] + other[types[t].members[k].type]
      BY <1>2 DEF Sums
    <2> QED BY <2>1, <2>2, <2>3
  <1> HIDE DEF T
  <1>5. 0..n \subseteq T
    BY <1>3, <1>4, InductionTo
  <1>6. n \in 0..n
    OBVIOUS
  <1> QED BY <1>1, <1>2, <1>5, <1>6 DEF T

-------------------------------------------------------------------------------
\* What is inside a type.
LEMMA NIsNat == N \in Nat
  BY TypeIdsAssumption, FS_CardinalityType DEF N

LEMMA ChildrenAreTypes ==
  ASSUME types \in Declarations, NEW t \in TypeIds
  PROVE  Children(t) \subseteq TypeIds
  <1>1. CASE IsField(t)
    BY <1>1 DEF Children
  <1>2. CASE ~ IsField(t) /\ IsArray(t)
    BY <1>2, ElementIsType DEF Children
  <1>3. CASE ~ IsField(t) /\ ~ IsArray(t)
    <2>1. types[t] \in Shapes
      BY DeclarationsAssumption
    <2>2. types[t].members \in Seq([name : MemberNames, type : TypeIds])
      BY <1>3, <2>1 DEF Shapes, IsArray, IsField
    <2>3. DOMAIN types[t].members = 1 .. Len(types[t].members)
      BY <2>2
    <2> QED BY <1>3, <2>3, MemberIsType DEF Children
  <1> QED BY <1>1, <1>2, <1>3

\* The types inside t by their depth.
Layers(r, t) ==
  /\ r \in [0..N -> SUBSET TypeIds]
  /\ r[0] = {t}
  /\ \A k \in 1..N : r[k] = UNION {Children(c) : c \in r[k - 1]}
LEMMA ReachedUnfold ==
  ASSUME types \in Declarations, NEW t \in TypeIds
  PROVE  Layers(Reached(t), t)
  <1> DEFINE V == SUBSET TypeIds
             x == {t}
             n == N
             Under(v) == UNION {Children(c) : c \in v}
             step == [y \in (1..n) \X V |-> Under(y[2])]
             Solves(g) == g = [d \in 0..N |-> IF d = 0 THEN {t}
                                              ELSE UNION {Children(c) : c \in g[d - 1]}]
             h == CHOOSE g : Solves(g)
  <1>1. n \in Nat /\ x \in V
    BY NIsNat
  <1>2. ASSUME NEW v \in V PROVE Under(v) \in V
    BY ChildrenAreTypes
  <1> HIDE DEF Under
  <1>3. ASSUME NEW k \in 1..n, NEW v \in V
        PROVE  step[<<k, v>>] = Under(v) /\ step[<<k, v>>] \in V
    BY <1>2
  <1> HIDE DEF V, step, n, x
  <1>4. StaysIn(V, step, n)
    BY <1>3 DEF StaysIn
  <1>5. PICK g \in [0..n -> V] : g = [k \in 0..n |-> IF k = 0 THEN x ELSE step[<<k, g[k - 1]>>]]
    <2> HIDE DEF h, Solves
    <2>1. \E g \in [0..n -> V] : g = [k \in 0..n |-> IF k = 0 THEN x ELSE step[<<k, g[k - 1]>>]]
      BY <1>1, <1>4, ChainRecursion
    <2> QED BY <2>1
  <1>6. \A k \in 0..n : k # 0 => k \in 1..n /\ g[k - 1] \in V
    <2>1. \A k \in 0..n : k # 0 => k \in 1..n /\ k - 1 \in 0..n
      BY <1>1
    <2> QED BY <1>5, <2>1
  <1>7. \A k \in 0..n : g[k] = IF k = 0 THEN x ELSE Under(g[k - 1])
    <2> SUFFICES ASSUME NEW k \in 0..n PROVE g[k] = IF k = 0 THEN x ELSE Under(g[k - 1])
      OBVIOUS
    <2>1. g[k] = IF k = 0 THEN x ELSE step[<<k, g[k - 1]>>]
      BY <1>5
    <2> QED BY <1>3, <1>6, <2>1
  <1>8. g = [k \in 0..n |-> IF k = 0 THEN x ELSE Under(g[k - 1])]
    BY <1>5, <1>7
  <1>9. Solves(g)
    BY <1>8 DEF Under, x, n
  <1>10. Solves(h)
    BY <1>9
  <1>11. Reached(t) = h
    BY DEF Reached
  <1>12. h = [k \in 0..n |-> IF k = 0 THEN x ELSE Under(h[k - 1])]
    BY <1>10 DEF Under, x, n
  <1> HIDE DEF h, Solves
  <1> DEFINE T == {k \in 0..n : h[k] = g[k]}
  <1>13. 0..n \subseteq T
    <2>1. \A k \in 1..n : k \in 0..n /\ k # 0
      BY <1>1
    <2>2. 0 \in T
      <3>1. 0 \in 0..n
        BY <1>1
      <3>2. h[0] = x
        BY <1>12, <3>1
      <3>3. g[0] = x
        BY <1>8, <3>1
      <3> QED BY <3>1, <3>2, <3>3
    <2>3. ASSUME NEW k \in 1..n, k - 1 \in T PROVE k \in T
      <3>1. h[k - 1] = g[k - 1]
        BY <2>3
      <3>2. h[k] = Under(h[k - 1])
        BY <1>12, <2>1
      <3>3. g[k] = Under(g[k - 1])
        BY <1>8, <2>1
      <3> QED BY <2>1, <3>1, <3>2, <3>3
    <2> HIDE DEF T
    <2> QED BY <1>1, <2>2, <2>3, InductionTo
  <1>14. h = g
    <2>1. \A k \in 0..n : h[k] = g[k]
      BY <1>13
    <2> QED BY <1>8, <1>12, <2>1
  <1>15. Layers(g, t)
    <2>1. \A k \in 1..n : k \in 0..n /\ k # 0
      BY <1>1
    <2>2. g[0] = x
      BY <1>1, <1>7
    <2>3. \A k \in 1..n : g[k] = Under(g[k - 1])
      BY <1>7, <2>1
    <2> QED BY <1>5, <2>2, <2>3 DEF Layers, V, Under, x, n
  <1> QED BY <1>11, <1>14, <1>15

\* A set that holds a type and what each of its types holds has all of them.
ClosedTypes(S) == S \subseteq TypeIds /\ \A x \in S : Children(x) \subseteq S
LEMMA ReachedInside ==
  ASSUME types \in Declarations, NEW S, ClosedTypes(S), NEW t \in S
  PROVE  \A d \in 0..N : Reached(t)[d] \subseteq S
  <1> DEFINE r == Reached(t)
  <1>1. Layers(r, t) /\ N \in Nat
    BY ReachedUnfold, NIsNat DEF ClosedTypes
  <1> HIDE DEF r
  <1> DEFINE T == {d \in 0..N : r[d] \subseteq S}
  <1>2. 0 \in T
    BY <1>1 DEF Layers
  <1>3. ASSUME NEW d \in 1..N, d - 1 \in T PROVE d \in T
    <2>1. r[d] = UNION {Children(c) : c \in r[d - 1]} /\ r[d - 1] \subseteq S /\ d \in 0..N
      BY <1>1, <1>3 DEF Layers
    <2> QED BY <2>1 DEF ClosedTypes
  <1> HIDE DEF T
  <1>4. 0..N \subseteq T
    BY <1>1, <1>2, <1>3, InductionTo
  <1> QED BY <1>4 DEF T, r

\* What a part reaches, the whole reaches one step later.
LEMMA ReachedThroughPart ==
  ASSUME types \in Declarations, NEW t \in TypeIds, NEW c \in Children(t)
  PROVE  \A d \in 1..N : Reached(c)[d - 1] \subseteq Reached(t)[d]
  <1> DEFINE r == Reached(t)
             q == Reached(c)
  <1>1. Layers(r, t) /\ Layers(q, c) /\ N \in Nat
    BY ReachedUnfold, ChildrenAreTypes, NIsNat
  <1> HIDE DEF r, q
  <1> DEFINE T == {d \in 0..N : d # 0 => q[d - 1] \subseteq r[d]}
  <1>2. 0 \in T
    BY <1>1
  <1>3. ASSUME NEW d \in 1..N, d - 1 \in T PROVE d \in T
    <2>1. d \in 0..N /\ r[d] = UNION {Children(x) : x \in r[d - 1]}
      BY <1>1 DEF Layers
    <2>2. CASE d = 1
      <3>1. d - 1 = 0
        BY <2>2
      <3>2. q[d - 1] = {c} /\ r[d - 1] = {t}
        BY <1>1, <3>1 DEF Layers
      <3> QED BY <2>1, <3>2
    <2>3. CASE d # 1
      <3>1. d - 1 \in 1..N /\ d - 1 # 0
        BY <1>1, <2>3
      <3>2. q[d - 1] = UNION {Children(x) : x \in q[d - 1 - 1]}
        BY <1>1, <3>1 DEF Layers
      <3>3. q[d - 1 - 1] \subseteq r[d - 1]
        BY <1>3, <3>1
      <3> QED BY <2>1, <3>2, <3>3
    <2> QED BY <2>2, <2>3
  <1> HIDE DEF T
  <1>4. 0..N \subseteq T
    BY <1>1, <1>2, <1>3, InductionTo
  <1>5. \A d \in 1..N : d \in 0..N /\ d # 0
    BY <1>1
  <1> QED BY <1>4, <1>5 DEF T, r, q

-------------------------------------------------------------------------------
\* A walk down from t need not end.
Endless(t) == \E S \in SUBSET TypeIds : t \in S /\ \A x \in S : Children(x) \cap S # {}

LEMMA EndlessIsCircular ==
  ASSUME types \in Declarations, NEW t \in TypeIds, Endless(t)
  PROVE  Circular(t)
  <1> DEFINE r == Reached(t)
  <1>1. Layers(r, t) /\ N \in Nat
    BY ReachedUnfold, NIsNat
  <1>2. PICK S \in SUBSET TypeIds : t \in S /\ \A x \in S : Children(x) \cap S # {}
    BY DEF Endless
  <1> DEFINE T == {d \in 0..N : r[d] \cap S # {}}
  <1> HIDE DEF r
  <1>3. 0 \in T
    BY <1>1, <1>2 DEF Layers
  <1>4. ASSUME NEW d \in 1..N, d - 1 \in T PROVE d \in T
    <2>1. r[d] = UNION {Children(c) : c \in r[d - 1]} /\ d \in 0..N
      BY <1>1 DEF Layers
    <2>2. PICK x \in r[d - 1] : x \in S
      BY <1>4
    <2>3. PICK y \in Children(x) : y \in S
      BY <1>2, <2>2
    <2> QED BY <2>1, <2>2, <2>3
  <1> HIDE DEF T
  <1>5. 0..N \subseteq T
    BY <1>1, <1>3, <1>4, InductionTo
  <1>6. N \in T
    BY <1>1, <1>5
  <1> QED BY <1>6 DEF T, r, Circular

\* A walk of d steps down from t.
Walk(p, t, d) ==
  /\ p \in [0..d -> TypeIds]
  /\ p[0] = t
  /\ \A k \in 1..d : p[k] \in Children(p[k - 1])
LEMMA WalkTo ==
  ASSUME types \in Declarations, NEW t \in TypeIds
  PROVE  \A d \in 0..N : \A x \in Reached(t)[d] : \E p : Walk(p, t, d) /\ p[d] = x
  <1> DEFINE r == Reached(t)
             T == {d \in 0..N : \A x \in r[d] : \E p : Walk(p, t, d) /\ p[d] = x}
  <1>1. Layers(r, t) /\ N \in Nat
    BY ReachedUnfold, NIsNat
  <1> HIDE DEF r
  <1>2. 0 \in T
    <2> DEFINE p == [k \in 0..0 |-> t]
    <2>1. Walk(p, t, 0) /\ p[0] = t
      BY DEF Walk
    <2>2. \A x \in r[0] : x = t
      BY <1>1 DEF Layers
    <2> QED BY <1>1, <2>1, <2>2
  <1>3. ASSUME NEW d \in 1..N, d - 1 \in T PROVE d \in T
    <2> SUFFICES ASSUME NEW x \in r[d] PROVE \E p : Walk(p, t, d) /\ p[d] = x
      BY <1>1
    <2>1. r[d] = UNION {Children(c) : c \in r[d - 1]} /\ r[d] \in SUBSET TypeIds
      BY <1>1 DEF Layers
    <2>2. PICK c \in r[d - 1] : x \in Children(c)
      BY <2>1
    <2>3. PICK p : Walk(p, t, d - 1) /\ p[d - 1] = c
      BY <1>3, <2>2
    <2> DEFINE q == [k \in 0..d |-> IF k = d THEN x ELSE p[k]]
    <2>4. q[d] = x /\ \A k \in 0..(d - 1) : q[k] = p[k]
      OBVIOUS
    <2>5. q \in [0..d -> TypeIds]
      <3>1. ASSUME NEW k \in 0..d PROVE q[k] \in TypeIds
        <4>1. k = d \/ k \in 0..(d - 1)
          OBVIOUS
        <4> QED BY <2>1, <2>3, <2>4, <4>1 DEF Walk
      <3> QED BY <3>1
    <2>6. q[0] = t
      BY <2>3, <2>4 DEF Walk
    <2> HIDE DEF q
    <2>7. ASSUME NEW k \in 1..d PROVE q[k] \in Children(q[k - 1])
      <3>1. CASE k = d
        <4>1. q[k - 1] = c
          <5>1. k - 1 \in 0..(d - 1) /\ k - 1 = d - 1
            BY <3>1
          <5> QED BY <2>3, <2>4, <5>1
        <4> QED BY <2>2, <2>4, <3>1, <4>1
      <3>2. CASE k # d
        <4>1. k \in 1..(d - 1) /\ k \in 0..(d - 1) /\ k - 1 \in 0..(d - 1)
          BY <3>2
        <4> QED BY <2>3, <2>4, <4>1 DEF Walk
      <3> QED BY <3>1, <3>2
    <2>8. Walk(q, t, d)
      BY <2>5, <2>6, <2>7 DEF Walk
    <2> QED BY <2>4, <2>8
  <1> HIDE DEF T
  <1>4. 0..N \subseteq T
    BY <1>1, <1>2, <1>3, InductionTo
  <1> QED BY <1>4 DEF T, r

LEMMA CircularIsEndless ==
  ASSUME types \in Declarations, NEW t \in TypeIds, Circular(t)
  PROVE  Endless(t)
  <1>1. N \in Nat
    BY NIsNat
  <1>2. PICK x : x \in Reached(t)[N]
    BY DEF Circular
  <1>3. PICK p : Walk(p, t, N)
    <2>1. N \in 0..N
      BY <1>1
    <2> QED BY <1>2, <2>1, WalkTo
  <1> HIDE DEF Walk
  <1>4. PICK i \in 0..N, j \in 0..N : i # j /\ p[i] = p[j]
    <2>1. IsFiniteSet(0..N) /\ Cardinality(0..N) = N + 1
      <3>1. Cardinality(0..N) = IF 0 > N THEN 0 ELSE N - 0 + 1
        BY <1>1, FS_Interval
      <3> QED BY <1>1, <3>1, FS_Interval
    <2>2. Cardinality(TypeIds) < Cardinality(0..N)
      BY <1>1, <2>1 DEF N
    <2>3. p \in [0..N -> TypeIds]
      BY <1>3 DEF Walk
    <2> QED BY <2>1, <2>2, <2>3, TypeIdsAssumption, FS_PigeonHole
  <1>5. PICK a \in 0..N, b \in 0..N : a < b /\ p[a] = p[b]
    <2>1. i < j \/ j < i
      BY <1>4
    <2> QED BY <1>4, <2>1
  <1> DEFINE S == {p[k] : k \in 0..(b - 1)}
  <1>6. S \in SUBSET TypeIds
    <2>1. \A k \in 0..(b - 1) : k \in 0..N
      BY <1>1, <1>5
    <2> QED BY <1>3, <2>1 DEF Walk
  <1>7. t \in S
    <2>1. 0 \in 0..(b - 1)
      BY <1>5
    <2> QED BY <1>3, <2>1 DEF Walk
  <1>8. ASSUME NEW y \in S PROVE Children(y) \cap S # {}
    <2>1. PICK k \in 0..(b - 1) : y = p[k]
      OBVIOUS
    <2>2. p[k + 1] \in Children(p[k])
      <3>1. k + 1 \in 1..N /\ (k + 1) - 1 = k
        BY <1>1, <1>5
      <3> QED BY <1>3, <3>1 DEF Walk
    <2>3. p[k + 1] \in S
      <3>1. CASE k = b - 1
        <4>1. k + 1 = b /\ a \in 0..(b - 1)
          BY <1>5, <3>1
        <4> QED BY <1>5, <4>1
      <3>2. CASE k # b - 1
        <4>1. k + 1 \in 0..(b - 1)
          BY <1>5, <3>2
        <4> QED BY <4>1
      <3> QED BY <3>1, <3>2
    <2> QED BY <2>1, <2>2, <2>3
  <1> HIDE DEF S
  <1> QED BY <1>6, <1>7, <1>8 DEF Endless

\* One that ends has only parts that end, and conversely.
LEMMA EndlessPart ==
  ASSUME types \in Declarations, NEW t \in TypeIds, NEW c \in Children(t), Endless(c)
  PROVE  Endless(t)
  <1>1. PICK S \in SUBSET TypeIds : c \in S /\ \A x \in S : Children(x) \cap S # {}
    BY DEF Endless
  <1> DEFINE R == S \cup {t}
  <1>2. R \in SUBSET TypeIds /\ t \in R
    OBVIOUS
  <1>3. \A x \in R : Children(x) \cap R # {}
    BY <1>1
  <1> QED BY <1>2, <1>3 DEF Endless
LEMMA EndlessHasPart ==
  ASSUME NEW t, Endless(t)
  PROVE  \E c \in Children(t) : Endless(c)
  <1>1. PICK S \in SUBSET TypeIds : t \in S /\ \A x \in S : Children(x) \cap S # {}
    BY DEF Endless
  <1>2. PICK c \in Children(t) : c \in S
    BY <1>1
  <1> QED BY <1>1, <1>2 DEF Endless

-------------------------------------------------------------------------------
\* What the declarations say.
LEMMA ElementsIsNat ==
  ASSUME NEW d, Proper(d)
  PROVE  Elements(d) \in Nat \ {0}
  <1>1. PICK upTo : Products(upTo, d) /\ Elements(d) = upTo[Len(d)]
    BY ElementsUnfold
  <1>2. Len(d) \in 0..Len(d)
    BY DEF Proper
  <1> QED BY <1>1, <1>2 DEF Products
LEMMA DeclaredArray ==
  ASSUME types \in Declarations, NEW t \in TypeIds, IsArray(t)
  PROVE  /\ Proper(types[t].dimensions) /\ ~ IsField(t)
         /\ types[t].element \in TypeIds /\ Children(t) = {types[t].element}
  <1>1. types[t] \in Shapes
    BY DeclarationsAssumption
  <1>2. types[t].dimensions \in Seq(Dimension)
    BY <1>1 DEF Shapes, IsArray
  <1>3. DOMAIN types[t].dimensions = 1..Len(types[t].dimensions)
    BY <1>2
  <1>4. \A i \in DOMAIN types[t].dimensions :
           types[t].dimensions[i].start <= types[t].dimensions[i].end
    BY DeclarationsAssumption DEF IsArray
  <1>5. Proper(types[t].dimensions)
    BY <1>2, <1>3, <1>4 DEF Proper
  <1>6. ~ IsField(t)
    BY DEF IsField, IsArray
  <1> QED BY <1>5, <1>6, ElementIsType DEF Children
LEMMA DeclaredAggregate ==
  ASSUME types \in Declarations, NEW t \in TypeIds, ~ IsField(t), ~ IsArray(t)
  PROVE  /\ Len(types[t].members) \in Nat \ {0}
         /\ DOMAIN types[t].members = 1..Len(types[t].members)
         /\ MembersAre(t, Len(types[t].members))
         /\ \A k \in 1..Len(types[t].members) : types[t].members[k].type \in Children(t)
         /\ \A c \in Children(t) :
               \E k \in 1..Len(types[t].members) : c = types[t].members[k].type
  <1>1. types[t] \in Shapes
    BY DeclarationsAssumption
  <1>2. types[t].members \in Seq([name : MemberNames, type : TypeIds]) /\ types[t].shape = "aggregate"
    BY <1>1 DEF Shapes, IsArray, IsField
  <1>3. types[t].members # <<>>
    BY <1>2, DeclarationsAssumption
  <1>4. Len(types[t].members) \in Nat \ {0} /\ DOMAIN types[t].members = 1..Len(types[t].members)
    BY <1>2, <1>3
  <1>5. MembersAre(t, Len(types[t].members))
    BY MemberIsType DEF MembersAre
  <1>6. Children(t) = {types[t].members[i].type : i \in 1..Len(types[t].members)}
    BY <1>4 DEF Children
  <1> QED BY <1>4, <1>5, <1>6

-------------------------------------------------------------------------------
\* The fields in t, when each type inside it has `count' of them.
CountIn(t, count) ==
  IF IsField(t) THEN 1
  ELSE IF IsArray(t) THEN Elements(types[t].dimensions) * count[types[t].element]
  ELSE FirstMembers(t, Len(types[t].members), count)

LEMMA CountInIsNat ==
  ASSUME types \in Declarations, NEW t \in TypeIds, NEW count \in [TypeIds -> Nat]
  PROVE  CountIn(t, count) \in Nat
  <1>1. CASE IsField(t)
    BY <1>1 DEF CountIn
  <1>2. CASE IsArray(t)
    <2> DEFINE x == Elements(types[t].dimensions)
               y == count[types[t].element]
    <2>1. x \in Nat /\ y \in Nat /\ ~ IsField(t)
      BY <1>2, DeclaredArray, ElementsIsNat
    <2>2. CountIn(t, count) = x * y
      BY <1>2, <2>1 DEF CountIn
    <2> HIDE DEF x, y
    <2> QED BY <2>1, <2>2
  <1>3. CASE ~ IsField(t) /\ ~ IsArray(t)
    <2> DEFINE n == Len(types[t].members)
    <2>1. n \in Nat /\ n \in 0..n /\ MembersAre(t, n)
      BY <1>3, DeclaredAggregate
    <2>2. CountIn(t, count) = FirstMembers(t, n, count)
      BY <1>3 DEF CountIn
    <2> HIDE DEF n
    <2> QED BY <2>1, <2>2, FirstMembersIs
  <1> QED BY <1>1, <1>2, <1>3

LEMMA CountInAlike ==
  ASSUME types \in Declarations, NEW t \in TypeIds,
         NEW count \in [TypeIds -> Nat], NEW other \in [TypeIds -> Nat],
         \A c \in Children(t) : count[c] = other[c]
  PROVE  CountIn(t, count) = CountIn(t, other)
  <1>1. CASE IsField(t)
    BY <1>1 DEF CountIn
  <1>2. CASE IsArray(t)
    BY <1>2, DeclaredArray DEF CountIn
  <1>3. CASE ~ IsField(t) /\ ~ IsArray(t)
    <2> DEFINE n == Len(types[t].members)
    <2>1. /\ n \in Nat /\ MembersAre(t, n)
          /\ \A k \in 1..n : types[t].members[k].type \in Children(t)
      BY <1>3, DeclaredAggregate
    <2>2. CountIn(t, count) = FirstMembers(t, n, count) /\ CountIn(t, other) = FirstMembers(t, n, other)
      BY <1>3 DEF CountIn
    <2>3. \A k \in 1..n : count[types[t].members[k].type] = other[types[t].members[k].type]
      BY <2>1
    <2> HIDE DEF n
    <2> QED BY <2>1, <2>2, <2>3, FirstMembersAlike
  <1> QED BY <1>1, <1>2, <1>3

\* The counts, as far as some depth.
Counts(c) ==
  /\ c \in [0..N -> [TypeIds -> Nat]]
  /\ \A t \in TypeIds : c[0][t] = IF IsField(t) THEN 1 ELSE 0
  /\ \A k \in 1..N : \A t \in TypeIds : c[k][t] = CountIn(t, c[k - 1])
LEMMA CountsUnfold ==
  ASSUME types \in Declarations
  PROVE  \E c : Counts(c) /\ FieldCounts = c[N]
  <1> DEFINE V == [TypeIds -> Nat]
             x == [t \in TypeIds |-> IF IsField(t) THEN 1 ELSE 0]
             n == N
             All(v) == [t \in TypeIds |-> CountIn(t, v)]
             step == [y \in (1..n) \X V |-> All(y[2])]
             Layer(g, d) ==
               [t \in TypeIds |->
                  IF IsField(t) THEN 1
                  ELSE IF d = 0 THEN 0
                  ELSE IF IsArray(t)
                  THEN Elements(types[t].dimensions) * g[d - 1][types[t].element]
                  ELSE FirstMembers(t, Len(types[t].members), g[d - 1])]
             Solves(g) == g = [d \in 0..N |-> Layer(g, d)]
             h == CHOOSE g : Solves(g)
  <1>1. n \in Nat /\ x \in V
    BY NIsNat
  <1>2. ASSUME NEW v \in V PROVE All(v) \in V
    BY CountInIsNat
  <1>3. \A g, d : Layer(g, d) = IF d = 0 THEN x ELSE All(g[d - 1])
    BY DEF CountIn
  <1>4. \A g : Solves(g) <=> g = [d \in 0..n |-> IF d = 0 THEN x ELSE All(g[d - 1])]
    <2> HIDE DEF Layer, All, x
    <2> QED BY <1>3
  <1>5. FieldCounts = h[n]
    BY DEF FieldCounts
  <1>6. (\E g : Solves(g)) => Solves(h)
    OBVIOUS
  <1> HIDE DEF h, Solves, All
  <1>7. ASSUME NEW k \in 1..n, NEW v \in V
        PROVE  step[<<k, v>>] = All(v) /\ step[<<k, v>>] \in V
    BY <1>2
  <1> HIDE DEF V, step, n, x
  <1>8. StaysIn(V, step, n)
    BY <1>7 DEF StaysIn
  <1>9. PICK g \in [0..n -> V] : g = [k \in 0..n |-> IF k = 0 THEN x ELSE step[<<k, g[k - 1]>>]]
    <2>1. \E g \in [0..n -> V] : g = [k \in 0..n |-> IF k = 0 THEN x ELSE step[<<k, g[k - 1]>>]]
      BY <1>1, <1>8, ChainRecursion
    <2> QED BY <2>1
  <1>10. \A k \in 0..n : k # 0 => k \in 1..n /\ g[k - 1] \in V
    <2>1. \A k \in 0..n : k # 0 => k \in 1..n /\ k - 1 \in 0..n
      BY <1>1
    <2> QED BY <1>9, <2>1
  <1>11. \A k \in 0..n : g[k] = IF k = 0 THEN x ELSE All(g[k - 1])
    <2> SUFFICES ASSUME NEW k \in 0..n PROVE g[k] = IF k = 0 THEN x ELSE All(g[k - 1])
      OBVIOUS
    <2>1. g[k] = IF k = 0 THEN x ELSE step[<<k, g[k - 1]>>]
      BY <1>9
    <2> QED BY <1>7, <1>10, <2>1
  <1>12. g = [k \in 0..n |-> IF k = 0 THEN x ELSE All(g[k - 1])]
    BY <1>9, <1>11
  <1>13. h = [k \in 0..n |-> IF k = 0 THEN x ELSE All(h[k - 1])]
    BY <1>4, <1>6, <1>12
  <1> DEFINE T == {k \in 0..n : h[k] = g[k]}
  <1>14. 0..n \subseteq T
    <2>1. \A k \in 1..n : k \in 0..n /\ k # 0
      BY <1>1
    <2>2. 0 \in T
      <3>1. 0 \in 0..n
        BY <1>1
      <3>2. h[0] = x
        BY <1>13, <3>1
      <3>3. g[0] = x
        BY <1>12, <3>1
      <3> QED BY <3>1, <3>2, <3>3
    <2>3. ASSUME NEW k \in 1..n, k - 1 \in T PROVE k \in T
      <3>1. h[k - 1] = g[k - 1]
        BY <2>3
      <3>2. h[k] = All(h[k - 1])
        BY <1>13, <2>1
      <3>3. g[k] = All(g[k - 1])
        BY <1>12, <2>1
      <3> QED BY <2>1, <3>1, <3>2, <3>3
    <2> HIDE DEF T
    <2> QED BY <1>1, <2>2, <2>3, InductionTo
  <1>15. h[n] = g[n]
    BY <1>1, <1>14
  <1>16. Counts(g)
    <2>1. \A k \in 1..n : k \in 0..n /\ k # 0
      BY <1>1
    <2>2. g[0] = x
      BY <1>1, <1>11
    <2>3. \A k \in 1..n : g[k] = All(g[k - 1])
      BY <1>11, <2>1
    <2>4. \A t \in TypeIds : g[0][t] = IF IsField(t) THEN 1 ELSE 0
      BY <2>2 DEF x
    <2>5. \A k \in 1..n : \A t \in TypeIds : g[k][t] = CountIn(t, g[k - 1])
      BY <2>3 DEF All
    <2>6. g \in [0..N -> [TypeIds -> Nat]]
      BY <1>9 DEF V, n
    <2> QED BY <2>4, <2>5, <2>6 DEF Counts, n
  <1> QED BY <1>5, <1>15, <1>16 DEF n

\* Where a walk down has ended, the count does not change any more.
Settled(c, x, d) == \A e \in 0..N : e >= d => c[e][x] = c[d][x]
LEMMA CountsSettle ==
  ASSUME types \in Declarations, NEW c, Counts(c)
  PROVE  \A d \in 1..N : \A x \in TypeIds : Reached(x)[d] = {} => Settled(c, x, d - 1)
  <1>1. N \in Nat
    BY NIsNat
  <1> DEFINE T == {d \in 0..N : d # 0 => \A x \in TypeIds : Reached(x)[d] = {} => Settled(c, x, d - 1)}
  <1>2. 0 \in T
    BY <1>1
  <1>3. ASSUME NEW d \in 1..N, d - 1 \in T PROVE d \in T
    <2> SUFFICES ASSUME NEW x \in TypeIds, Reached(x)[d] = {} PROVE Settled(c, x, d - 1)
      BY <1>1
    <2>1. CASE IsField(x)
      <3>1. ASSUME NEW e \in 0..N PROVE c[e][x] = 1
        <4>1. e = 0 \/ e \in 1..N
          BY <1>1
        <4> QED BY <2>1, <4>1 DEF Counts, CountIn
      <3>2. d - 1 \in 0..N
        BY <1>1
      <3> QED BY <3>1, <3>2 DEF Settled
    <2>2. CASE ~ IsField(x)
      <3>1. Children(x) # {}
        <4>1. CASE IsArray(x)
          BY <4>1, DeclaredArray
        <4>2. CASE ~ IsArray(x)
          <5>1. Len(types[x].members) \in Nat \ {0}
            BY <2>2, <4>2, DeclaredAggregate
          <5>2. 1 \in 1..Len(types[x].members)
            BY <5>1
          <5> QED BY <2>2, <4>2, <5>2, DeclaredAggregate
        <4> QED BY <4>1, <4>2
      <3>2. ASSUME NEW y \in Children(x) PROVE Reached(y)[d - 1] = {} /\ y \in TypeIds
        BY ReachedThroughPart, ChildrenAreTypes
      <3>3. d - 1 # 0
        <4> SUFFICES ASSUME d - 1 = 0 PROVE FALSE
          OBVIOUS
        <4>1. PICK y : y \in Children(x)
          BY <3>1
        <4>2. Reached(y)[0] = {y}
          BY <3>2, <4>1, ReachedUnfold DEF Layers
        <4> QED BY <3>2, <4>1, <4>2
      <3>4. d - 1 \in 1..N /\ d - 2 \in 0..N /\ d - 1 \in 0..N /\ d - 1 - 1 = d - 2
        BY <1>1, <3>3
      <3>5. ASSUME NEW y \in Children(x) PROVE Settled(c, y, d - 2)
        BY <1>3, <3>2, <3>3, <3>4
      <3>6. ASSUME NEW e \in 0..N, e >= d - 1 PROVE c[e][x] = c[d - 1][x]
        <4>1. e \in 1..N /\ e - 1 \in 0..N /\ e - 1 >= d - 2
          BY <1>1, <3>4, <3>6
        <4>2. \A y \in Children(x) : c[e - 1][y] = c[d - 2][y]
          BY <3>5, <4>1 DEF Settled
        <4>3. c[e][x] = CountIn(x, c[e - 1]) /\ c[d - 1][x] = CountIn(x, c[d - 2])
          BY <3>4, <4>1 DEF Counts
        <4>4. c[e - 1] \in [TypeIds -> Nat] /\ c[d - 2] \in [TypeIds -> Nat]
          BY <3>4, <4>1 DEF Counts
        <4> QED BY <4>2, <4>3, <4>4, CountInAlike
      <3> QED BY <3>6 DEF Settled
    <2> QED BY <2>1, <2>2
  <1> HIDE DEF T
  <1>4. 0..N \subseteq T
    BY <1>1, <1>2, <1>3, InductionTo
  <1>5. \A d \in 1..N : d \in 0..N /\ d # 0
    BY <1>1
  <1> QED BY <1>4, <1>5 DEF T

\* A type that is not circular has as many fields as what it holds says.
LEMMA FieldCountsIs ==
  ASSUME types \in Declarations
  PROVE  /\ FieldCounts \in [TypeIds -> Nat]
         /\ \A t \in TypeIds : ~ Circular(t) => FieldCounts[t] = CountIn(t, FieldCounts)
  <1>1. N \in Nat /\ N \in 0..N
    BY NIsNat
  <1>2. PICK c : Counts(c) /\ FieldCounts = c[N]
    BY CountsUnfold
  <1>3. FieldCounts \in [TypeIds -> Nat]
    BY <1>1, <1>2 DEF Counts
  <1>4. ASSUME NEW t \in TypeIds, ~ Circular(t) PROVE FieldCounts[t] = CountIn(t, FieldCounts)
    <2>1. Reached(t)[N] = {}
      BY <1>4 DEF Circular
    <2>2. N # 0
      <3>1. Reached(t)[0] = {t}
        BY ReachedUnfold DEF Layers
      <3> QED BY <2>1, <3>1
    <2>3. N \in 1..N /\ N - 1 \in 0..N
      BY <1>1, <2>2
    <2>4. c[N][t] = CountIn(t, c[N - 1])
      BY <1>2, <2>3 DEF Counts
    <2>5. ASSUME NEW y \in Children(t) PROVE c[N - 1][y] = c[N][y]
      <3>1. Reached(y)[N - 1] = {} /\ y \in TypeIds
        BY <2>1, <2>3, ReachedThroughPart, ChildrenAreTypes
      <3>2. N - 1 # 0
        <4>1. Reached(y)[0] = {y}
          BY <3>1, ReachedUnfold DEF Layers
        <4> QED BY <3>1, <4>1
      <3>3. N - 1 \in 1..N /\ N - 1 - 1 = N - 2
        BY <1>1, <2>3, <3>2
      <3>4. Settled(c, y, N - 2)
        BY <1>2, <3>1, <3>3, CountsSettle
      <3>5. N >= N - 2 /\ N - 1 >= N - 2
        BY <1>1
      <3> QED BY <1>1, <2>3, <3>4, <3>5 DEF Settled
    <2>6. c[N - 1] \in [TypeIds -> Nat] /\ c[N] \in [TypeIds -> Nat]
      BY <1>1, <1>2, <2>3 DEF Counts
    <2> QED BY <1>2, <2>4, <2>5, <2>6, CountInAlike
  <1> QED BY <1>3, <1>4

-------------------------------------------------------------------------------
\* What one more piece of a name, the k-th, leads to.
LedNext(r, x, k) ==
  IF IsArray(r.type)
  THEN [type |-> types[r.type].element,
        before |-> r.before
            + RowMajor(x, IF k = 1 THEN RootSpans ELSE types[r.type].dimensions)
              * FieldCounts[types[r.type].element]]
  ELSE [type |-> types[r.type].members[MemberOf(r.type, x)].type,
        before |-> r.before + FirstMembers(r.type, MemberOf(r.type, x) - 1, FieldCounts)]
Leads(g, name, n) ==
  g = [k \in 0..n |-> IF k = 0 THEN [type |-> root, before |-> 0]
                               ELSE LedNext(g[k - 1], name[k], k)]
LEMMA LeadsExist ==
  ASSUME NEW name, NEW n \in Nat
  PROVE  \E g : Leads(g, name, n)
  <1> DEFINE x == [type |-> root, before |-> 0]
             T == {m \in 0..n : \E g : Leads(g, name, m)}
  <1> HIDE DEF x
  <1>1. \A g, m : Leads(g, name, m) <=>
                    g = [k \in 0..m |-> IF k = 0 THEN x ELSE LedNext(g[k - 1], name[k], k)]
    BY DEF Leads, x
  <1>2. 0 \in T
    <2> DEFINE g == [k \in 0..0 |-> x]
    <2>1. g = [k \in 0..0 |-> IF k = 0 THEN x ELSE LedNext(g[k - 1], name[k], k)]
      OBVIOUS
    <2> HIDE DEF g
    <2>2. Leads(g, name, 0)
      BY <1>1, <2>1
    <2>3. 0 \in 0..n
      OBVIOUS
    <2> QED BY <2>2, <2>3
  <1>3. ASSUME NEW m \in 1..n, m - 1 \in T PROVE m \in T
    <2>1. PICK g : g = [k \in 0..(m - 1) |-> IF k = 0 THEN x ELSE LedNext(g[k - 1], name[k], k)]
      BY <1>1, <1>3
    <2> DEFINE v == LedNext(g[m - 1], name[m], m)
               h == [k \in 0..m |-> IF k = m THEN v ELSE g[k]]
    <2>2. h[m] = v /\ \A k \in 0..(m - 1) : h[k] = g[k]
      OBVIOUS
    <2>3. ASSUME NEW k \in 0..m
          PROVE  h[k] = IF k = 0 THEN x ELSE LedNext(h[k - 1], name[k], k)
      <3>1. CASE k = m
        <4>1. m - 1 \in 0..(m - 1) /\ k # 0
          BY <3>1
        <4>2. h[k - 1] = g[m - 1]
          BY <2>2, <3>1, <4>1
        <4> HIDE DEF h
        <4> QED BY <2>2, <3>1, <4>1, <4>2
      <3>2. CASE k # m
        <4>1. k \in 0..(m - 1) /\ (k # 0 => k - 1 \in 0..(m - 1))
          BY <3>2
        <4>2. h[k] = g[k] /\ (k # 0 => h[k - 1] = g[k - 1])
          BY <2>2, <4>1
        <4> HIDE DEF h
        <4> QED BY <2>1, <4>1, <4>2
      <3> QED BY <3>1, <3>2
    <2>4. h = [k \in 0..m |-> h[k]]
      OBVIOUS
    <2> HIDE DEF h
    <2>5. h = [k \in 0..m |-> IF k = 0 THEN x ELSE LedNext(h[k - 1], name[k], k)]
      BY <2>3, <2>4
    <2>6. Leads(h, name, m)
      BY <1>1, <2>5
    <2>7. m \in 0..n
      OBVIOUS
    <2> QED BY <2>6, <2>7
  <1> HIDE DEF T
  <1>4. 0..n \subseteq T
    BY <1>2, <1>3, InductionTo
  <1> QED BY <1>4 DEF T

LEMMA LeadsAlike ==
  ASSUME NEW name, NEW other, NEW n \in Nat, NEW m \in Nat, n <= m,
         \A k \in 1..n : name[k] = other[k],
         NEW g, Leads(g, name, n), NEW h, Leads(h, other, m)
  PROVE  g[n] = h[n]
  <1> DEFINE x == [type |-> root, before |-> 0]
             T == {k \in 0..n : g[k] = h[k]}
  <1> HIDE DEF x
  <1>1. /\ g = [k \in 0..n |-> IF k = 0 THEN x ELSE LedNext(g[k - 1], name[k], k)]
        /\ h = [k \in 0..m |-> IF k = 0 THEN x ELSE LedNext(h[k - 1], other[k], k)]
    BY DEF Leads, x
  <1>2. 0 \in T
    <2>1. 0 \in 0..n /\ 0 \in 0..m
      OBVIOUS
    <2>2. g[0] = x
      BY <1>1, <2>1
    <2>3. h[0] = x
      BY <1>1, <2>1
    <2> QED BY <2>1, <2>2, <2>3
  <1>3. ASSUME NEW k \in 1..n, k - 1 \in T PROVE k \in T
    <2>1. k \in 0..n /\ k \in 0..m /\ k # 0
      OBVIOUS
    <2>2. g[k] = LedNext(g[k - 1], name[k], k)
      BY <1>1, <2>1
    <2>3. h[k] = LedNext(h[k - 1], other[k], k)
      BY <1>1, <2>1
    <2>4. g[k - 1] = h[k - 1]
      BY <1>3
    <2> QED BY <2>1, <2>2, <2>3, <2>4
  <1> HIDE DEF T
  <1>4. 0..n \subseteq T
    BY <1>2, <1>3, InductionTo
  <1> QED BY <1>4 DEF T

LEMMA LedIs ==
  ASSUME NEW name, Len(name) \in Nat
  PROVE  \E g : Leads(g, name, Len(name)) /\ Led(name) = g[Len(name)]
  <1> DEFINE Solves(f) ==
        f = [k \in 0..Len(name) |->
               IF k = 0 THEN [type |-> root, before |-> 0]
               ELSE LET t == f[k - 1].type
                        i == MemberOf(t, name[k])
                    IN  IF IsArray(t)
                        THEN [type |-> types[t].element,
                              before |-> f[k - 1].before
                                  + RowMajor(name[k], IF k = 1 THEN RootSpans
                                                               ELSE types[t].dimensions)
                                    * FieldCounts[types[t].element]]
                        ELSE [type |-> types[t].members[i].type,
                              before |-> f[k - 1].before
                                  + FirstMembers(t, i - 1, FieldCounts)]]
             h == CHOOSE f : Solves(f)
  <1>1. Led(name) = h[Len(name)]
    BY DEF Led
  <1>2. \A f : Solves(f) <=> Leads(f, name, Len(name))
    BY DEF Leads, LedNext
  <1>3. (\E f : Solves(f)) => Solves(h)
    OBVIOUS
  <1> HIDE DEF Solves, h
  <1>4. Solves(h)
    BY <1>2, <1>3, LeadsExist
  <1> QED BY <1>1, <1>2, <1>4

\* The entry itself comes first, and a longer name leads on from a shorter.
LEMMA LedNowhere == Led(<<>>) = [type |-> root, before |-> 0]
  <1>1. Len(<<>>) = 0
    OBVIOUS
  <1>2. PICK g : Leads(g, <<>>, 0) /\ Led(<<>>) = g[0]
    BY <1>1, LedIs
  <1> DEFINE x == [type |-> root, before |-> 0]
  <1> HIDE DEF x
  <1>3. g = [k \in 0..0 |-> IF k = 0 THEN x ELSE LedNext(g[k - 1], <<>>[k], k)]
    BY <1>2 DEF Leads, x
  <1>4. g[0] = x
    BY <1>3
  <1> QED BY <1>2, <1>4 DEF x
LEMMA LedOn ==
  ASSUME NEW name, IsList(name), NEW x
  PROVE  Led(Append(name, x)) = LedNext(Led(name), x, Len(name) + 1)
  <1> DEFINE u == Append(name, x)
             n == Len(name)
  <1>1. /\ Len(u) = n + 1 /\ n \in Nat /\ u[n + 1] = x
        /\ \A k \in 1..n : name[k] = u[k]
    BY ListAppend DEF IsList
  <1> HIDE DEF u
  <1>2. PICK g : Leads(g, name, n) /\ Led(name) = g[n]
    BY <1>1, LedIs
  <1> HIDE DEF n
  <1>3. n + 1 \in Nat /\ n <= n + 1
    BY <1>1
  <1>4. PICK h : Leads(h, u, n + 1) /\ Led(u) = h[n + 1]
    BY <1>1, <1>3, LedIs
  <1>5. g[n] = h[n]
    <2> DEFINE m == n + 1
    <2>1. n \in Nat /\ \A k \in 1..n : name[k] = u[k]
      BY <1>1
    <2>2. m \in Nat /\ n <= m /\ Leads(h, u, m)
      BY <1>3, <1>4
    <2>3. Leads(g, name, n)
      BY <1>2
    <2> HIDE DEF m
    <2> QED BY <2>1, <2>2, <2>3, LeadsAlike
  <1>6. h[n + 1] = LedNext(h[n], u[n + 1], n + 1)
    <2> DEFINE y == [type |-> root, before |-> 0]
    <2>1. n + 1 \in 0..(n + 1) /\ n + 1 # 0 /\ (n + 1) - 1 = n
      BY <1>1
    <2> HIDE DEF y
    <2>2. h = [k \in 0..(n + 1) |-> IF k = 0 THEN y ELSE LedNext(h[k - 1], u[k], k)]
      BY <1>4 DEF Leads, y
    <2> QED BY <2>1, <2>2
  <1> QED BY <1>1, <1>2, <1>4, <1>5, <1>6 DEF u, n

-------------------------------------------------------------------------------
(***************************************************************************)
(* The walk in progress.  s are its calls, f the fields found.             *)
(***************************************************************************)
\* The j-th part of t.
PartType(t, j) == IF IsArray(t) THEN types[t].element ELSE types[t].members[j].type
\* The fields of the first j parts of t.
Offset(t, j) == IF IsArray(t) THEN j * FieldCounts[types[t].element]
                              ELSE FirstMembers(t, j, FieldCounts)

\* Every array inside t can be counted, and none contains itself.
Countable(t) ==
  \E S \in SUBSET TypeIds :
    /\ t \in S
    /\ \A x \in S : Children(x) \subseteq S
    /\ \A x \in S : IsArray(x) => Elements(types[x].dimensions) <= MaxUsize
Sane(t) == ~ Endless(t) /\ Countable(t)

\* The k-th call: its next part is the one its indices name.
IsCall(r, k) ==
  /\ r.done \in 0..Parts(r)
  /\ IsList(r.name) /\ Len(r.name) = k - 1
  /\ IsArray(r.type) =>
        /\ r.spans = IF k = 1 THEN RootSpans ELSE types[r.type].dimensions
        /\ Proper(r.spans) /\ Elements(r.spans) <= MaxUsize
        /\ r.done < Parts(r) => Inside(r.indices, r.spans) /\ RowMajor(r.indices, r.spans) = r.done
AreCalls(s) == \A k \in 1..Len(s) : IsCall(s[k], k)

\* Each call is on a part of the one below it, the first on the entry's type.
Nest(s) ==
  /\ Len(s) > 0 => s[1].type = root
  /\ \A k \in 2..Len(s) : /\ s[k - 1].done > 0
                          /\ s[k].type = PartType(s[k - 1].type, s[k - 1].done)
                          /\ s[k].type \in Reached(root)[k - 1]

\* The parts a call has been through, the one it is in left out.
Through(s, k) == IF k = Len(s) THEN s[k].done ELSE s[k].done - 1
PartsAreSane(s) ==
  \A k \in 1..Len(s) : \A j \in 1..Through(s, k) : Sane(PartType(s[k].type, j))

\* The fields before each call's first; all the calls' fields are within the total.
Begins(start, s) ==
  /\ start \in [1..Len(s) -> Nat]
  /\ start[1] = 0
  /\ \A k \in 2..Len(s) : start[k] = start[k - 1] + Offset(s[k - 1].type, s[k - 1].done - 1)
  /\ \A k \in 1..Len(s) : start[k] + Offset(s[k].type, Parts(s[k])) <= Total
  /\ MembersDiffer =>
        \A k \in 1..Len(s) : Led(s[k].name) = [type |-> s[k].type, before |-> start[k]]
Starts(start, s, n) ==
  /\ Begins(start, s)
  /\ n = start[Len(s)] + Offset(s[Len(s)].type, s[Len(s)].done)
InPlace(s, f) ==
  s # <<>> /\ ~ Endless(root) => \E start : Starts(start, s, Len(f))
FieldsLead(f) ==
  ~ Endless(root) /\ MembersDiffer =>
    \A i \in 1..Len(f) : Led(f[i].name) = [type |-> f[i].type, before |-> i - 1]

\* When the entry's call has returned.
RootDone(s, f) ==
  s = <<>> /\ f # <<>> =>
    /\ ~ Endless(root) /\ Len(f) = Total
    /\ \A c \in Children(root) : Countable(c)
RootFits ==
  IsArray(root) =>
    /\ subset # <<>> => Fits(subset[1], types[root].dimensions)
    /\ Elements(RootSpans) <= MaxUsize
Reason ==
  \/ Endless(root) \/ ~ RootFits \/ Total > MaxExpandedFields
  \/ \E t \in ArraysInside \ {root} : Elements(types[t].dimensions) > MaxUsize
Verdicts(s, f, v) ==
  /\ v \in {"walking", "expanded", "refused"}
  /\ v = "refused" => Reason
  /\ v = "expanded" => s = <<>> /\ f # <<>>
  /\ s # <<>> \/ f # <<>> => RootFits

WalkHolds(s, f, v) ==
  /\ subset \in Subsets /\ ~ IsField(root)
  /\ AreCalls(s) /\ Nest(s) /\ PartsAreSane(s)
  /\ InPlace(s, f) /\ FieldsLead(f)
  /\ RootDone(s, f) /\ Verdicts(s, f, v)
WalkInv == ExpansionInv /\ WalkHolds(frames, fields, verdict)

\* The types stay as they are, so that what is said of them does.
LEMMA WalkStays ==
  ASSUME UNCHANGED <<types, root, subset>>, NEW s, NEW f, NEW v
  PROVE  WalkHolds(s, f, v)' = WalkHolds(s, f, v)
  BY DEF WalkHolds, AreCalls, IsCall, Nest, PartsAreSane, Through, Sane, Countable, InPlace,
         Starts, Begins, FieldsLead, RootDone, Verdicts, RootFits, Reason, PartType, Offset, Parts,
         RootSpans, Spans, Reached, Children, IsField, IsArray, Endless, FieldCounts,
         FirstMembers, Total, MembersDiffer, Led, MemberOf, ArraysInside
LEMMA WalkCarries ==
  ASSUME UNCHANGED <<types, root, subset>>, NEW s, NEW f, NEW v, WalkHolds(s, f, v),
         frames' = s, fields' = f, verdict' = v
  PROVE  WalkHolds(frames, fields, verdict)'
  <1>1. WalkHolds(s, f, v)'
    BY WalkStays
  <1> QED BY <1>1

-------------------------------------------------------------------------------
\* The first parts of a type have fields one part after another.
LEMMA OffsetIs ==
  ASSUME types \in Declarations, NEW t \in TypeIds, ~ IsField(t), NEW n \in Nat,
         ~ IsArray(t) => n = Len(types[t].members)
  PROVE  /\ Offset(t, 0) = 0
         /\ \A j \in 0..n : Offset(t, j) \in Nat
         /\ \A j \in 1..n : /\ PartType(t, j) \in Children(t)
                            /\ Offset(t, j) = Offset(t, j - 1) + FieldCounts[PartType(t, j)]
         /\ \A j \in 0..n : Offset(t, j) <= Offset(t, n)
  <1>0. FieldCounts \in [TypeIds -> Nat]
    BY FieldCountsIs
  <1>1. CASE IsArray(t)
    <2> DEFINE c == FieldCounts[types[t].element]
    <2>1. c \in Nat
      BY <1>0, <1>1, DeclaredArray
    <2>2. \A j : Offset(t, j) = j * c /\ PartType(t, j) = types[t].element
      BY <1>1 DEF Offset, PartType
    <2>3. types[t].element \in Children(t)
      BY <1>1, DeclaredArray
    <2> DEFINE e == types[t].element
    <2>4. FieldCounts[e] = c
      OBVIOUS
    <2> HIDE DEF c, e
    <2>5. ASSUME NEW j \in 0..n PROVE j * c \in Nat /\ j * c <= n * c
      <3>1. j * c \in Nat /\ (n - j) * c \in Nat /\ n * c = j * c + (n - j) * c
        BY <2>1
      <3> DEFINE x == j * c
                 y == (n - j) * c
      <3> HIDE DEF x, y
      <3>2. x <= x + y /\ x \in Nat
        BY <3>1 DEF x, y
      <3> QED BY <3>1, <3>2 DEF x, y
    <2>6. 0 * c = 0
      BY <2>1
    <2>7. ASSUME NEW j \in 1..n PROVE j * c = (j - 1) * c + c
      BY <2>1
    <2> QED BY <2>2, <2>3, <2>4, <2>5, <2>6, <2>7 DEF e
  <1>2. CASE ~ IsArray(t)
    <2>1. MembersAre(t, n) /\ \A k \in 1..n : types[t].members[k].type \in Children(t)
      BY <1>2, DeclaredAggregate
    <2>2. /\ FirstMembers(t, 0, FieldCounts) = 0
          /\ \A i \in 0..n : FirstMembers(t, i, FieldCounts) \in Nat
          /\ \A i \in 1..n : FirstMembers(t, i, FieldCounts)
                               = FirstMembers(t, i - 1, FieldCounts) + FieldCounts[types[t].members[i].type]
          /\ \A i \in 0..n : FirstMembers(t, i, FieldCounts) <= FirstMembers(t, n, FieldCounts)
      BY <1>0, <2>1, FirstMembersIs
    <2> QED BY <1>2, <2>1, <2>2 DEF Offset, PartType
  <1> QED BY <1>1, <1>2

\* All the parts of a type that ends are what the type is.
LEMMA OffsetOfAll ==
  ASSUME types \in Declarations, NEW t \in TypeIds, ~ IsField(t), ~ Endless(t)
  PROVE  /\ IsArray(t) => Offset(t, Elements(types[t].dimensions)) = FieldCounts[t]
         /\ ~ IsArray(t) => Offset(t, Len(types[t].members)) = FieldCounts[t]
  <1>1. FieldCounts[t] = CountIn(t, FieldCounts)
    BY FieldCountsIs, CircularIsEndless
  <1> QED BY <1>1 DEF CountIn, Offset
LEMMA OffsetOfRoot ==
  ASSUME types \in Declarations, root \in TypeIds, ~ IsField(root), ~ Endless(root)
  PROVE  /\ IsArray(root) => Offset(root, Elements(RootSpans)) = Total
         /\ ~ IsArray(root) => Offset(root, Len(types[root].members)) = Total
  BY OffsetOfAll DEF Offset, Total

\* What a type that ends reaches ends.
LEMMA ReachedEnds ==
  ASSUME types \in Declarations, NEW t \in TypeIds, ~ Endless(t), NEW d \in 0..N,
         NEW x \in Reached(t)[d]
  PROVE  ~ Endless(x) /\ x \in TypeIds
  <1> DEFINE S == {y \in TypeIds : ~ Endless(y)}
  <1>1. ClosedTypes(S)
    BY ChildrenAreTypes, EndlessPart DEF ClosedTypes
  <1>2. t \in S
    OBVIOUS
  <1> HIDE DEF S
  <1>3. x \in S
    BY <1>1, <1>2, ReachedInside
  <1> QED BY <1>3 DEF S

\* What is reached one step further.
LEMMA ReachedOn ==
  ASSUME types \in Declarations, NEW t \in TypeIds, NEW d \in 0..N, d + 1 <= N,
         NEW x \in Reached(t)[d], NEW c \in Children(x)
  PROVE  c \in Reached(t)[d + 1]
  <1>1. Layers(Reached(t), t) /\ N \in Nat
    BY ReachedUnfold, NIsNat
  <1>2. d + 1 \in 1..N /\ (d + 1) - 1 = d
    BY <1>1
  <1>3. Reached(t)[d + 1] = UNION {Children(y) : y \in Reached(t)[d]}
    BY <1>1, <1>2 DEF Layers
  <1> QED BY <1>3

\* Arrays that can be counted, taken together.
LEMMA CountableTogether ==
  ASSUME types \in Declarations, NEW t \in TypeIds, \A c \in Children(t) : Countable(c)
  PROVE  /\ (IsArray(t) => Elements(types[t].dimensions) <= MaxUsize) => Countable(t)
         /\ \A d \in 0..N : \A x \in Reached(t)[d] \ {t} :
               IsArray(x) => Elements(types[x].dimensions) <= MaxUsize
  <1> DEFINE Small(x) == IsArray(x) => Elements(types[x].dimensions) <= MaxUsize
             C == {x \in TypeIds : Countable(x)}
             S == C \cup {t}
  <1>1. ASSUME NEW x \in C PROVE Children(x) \subseteq C /\ Small(x)
    <2>1. PICK R \in SUBSET TypeIds :
                 /\ x \in R
                 /\ \A y \in R : Children(y) \subseteq R
                 /\ \A y \in R : Small(y)
      BY DEF Countable
    <2>2. \A y \in R : Countable(y)
      BY <2>1 DEF Countable
    <2> QED BY <2>1, <2>2
  <1>2. Children(t) \subseteq C
    BY ChildrenAreTypes
  <1>3. ClosedTypes(S)
    BY <1>1, <1>2 DEF ClosedTypes
  <1>4. ASSUME Small(t) PROVE Countable(t)
    <2>1. S \in SUBSET TypeIds /\ t \in S /\ \A x \in S : Children(x) \subseteq S
      BY <1>3 DEF ClosedTypes
    <2>2. \A x \in S : Small(x)
      BY <1>1, <1>4
    <2> HIDE DEF S
    <2> QED BY <2>1, <2>2 DEF Countable
  <1>5. ASSUME NEW d \in 0..N, NEW x \in Reached(t)[d] \ {t} PROVE Small(x)
    <2> HIDE DEF S
    <2>1. t \in S
      BY DEF S
    <2>2. x \in S
      BY <1>3, <2>1, ReachedInside
    <2> QED BY <1>1, <2>2 DEF S
  <1> QED BY <1>4, <1>5

-------------------------------------------------------------------------------
\* A call's name for its next part.
PartName(r) == IF IsArray(r.type) THEN r.indices ELSE types[r.type].members[r.done + 1].name

\* A call on a composite.
Calling(r, k) == IsFrame(r) /\ ~ IsField(r.type) /\ IsCall(r, k)

\* What a call counts.
LEMMA PartsIs ==
  ASSUME types \in Declarations, NEW k, NEW r, Calling(r, k)
  PROVE  /\ r.type \in TypeIds /\ r.done \in Nat /\ Parts(r) \in Nat \ {0}
         /\ IsArray(r.type) => Parts(r) = Elements(r.spans)
         /\ ~ IsArray(r.type) => Parts(r) = Len(types[r.type].members)
  <1>1. r.type \in TypeIds /\ r.done \in Nat
    BY DEF Calling, IsFrame
  <1>2. CASE IsArray(r.type)
    BY <1>1, <1>2, ElementsIsNat DEF Parts, Calling, IsCall
  <1>3. CASE ~ IsArray(r.type)
    BY <1>1, <1>3, DeclaredAggregate DEF Parts, Calling
  <1> QED BY <1>1, <1>2, <1>3

LEMMA AdvancedKeeps ==
  ASSUME NEW r, IsFrame(r)
  PROVE  /\ Advanced(r).type = r.type /\ Advanced(r).name = r.name
         /\ Advanced(r).spans = r.spans /\ Advanced(r).done = r.done + 1
         /\ Advanced(r).indices = Following(r.indices, r.spans)
         /\ Parts(Advanced(r)) = Parts(r)
  <1>1. /\ Advanced(r).type = r.type /\ Advanced(r).name = r.name
        /\ Advanced(r).spans = r.spans /\ Advanced(r).done = r.done + 1
        /\ Advanced(r).indices = Following(r.indices, r.spans)
    BY DEF Advanced, IsFrame
  <1> QED BY <1>1 DEF Parts

\* A call that goes on, and a call made.
LEMMA AdvancedCalls ==
  ASSUME types \in Declarations, NEW k, NEW r, Calling(r, k), r.done < Parts(r)
  PROVE  Calling(Advanced(r), k)
  <1> DEFINE a == Advanced(r)
  <1>1. /\ a.type = r.type /\ a.name = r.name
        /\ a.spans = r.spans /\ a.done = r.done + 1
        /\ a.indices = Following(r.indices, r.spans)
        /\ Parts(a) = Parts(r) /\ IsFrame(a)
    BY AdvancedKeeps, AdvancedIsFrame DEF Calling
  <1> HIDE DEF a
  <1>2. r.done \in Nat /\ Parts(r) \in Nat
    BY PartsIs
  <1>3. a.done \in 0..Parts(a)
    BY <1>1, <1>2
  <1>4. ASSUME IsArray(r.type), a.done < Parts(a)
        PROVE  Inside(a.indices, a.spans) /\ RowMajor(a.indices, a.spans) = a.done
    <2>1. Proper(r.spans) /\ Inside(r.indices, r.spans) /\ RowMajor(r.indices, r.spans) = r.done
      BY <1>4 DEF Calling, IsCall
    <2>2. Parts(r) = Elements(r.spans)
      BY <1>4, PartsIs
    <2>3. RowMajor(r.indices, r.spans) + 1 < Elements(r.spans)
      BY <1>1, <1>4, <2>1, <2>2
    <2> QED BY <1>1, <2>1, <2>3, FollowingIsNext
  <1> QED BY <1>1, <1>3, <1>4 DEF Calling, IsCall, a

LEMMA FrameCalls ==
  ASSUME types \in Declarations, NEW t \in TypeIds, ~ IsField(t), NEW chosen,
         NEW name, IsList(name), NEW k, Len(name) = k - 1,
         IsArray(t) => /\ Spans(t, chosen) = IF k = 1 THEN RootSpans ELSE types[t].dimensions
                       /\ Proper(Spans(t, chosen)) /\ Elements(Spans(t, chosen)) <= MaxUsize
  PROVE  LET r == FrameOf(t, name, chosen)
         IN  /\ Calling(r, k) /\ r.type = t /\ r.name = name /\ r.done = 0
             /\ IsArray(t) => r.spans = Spans(t, chosen)
  <1> DEFINE r == FrameOf(t, name, chosen)
  <1>1. /\ IsFrame(r) /\ r.type = t /\ r.name = name /\ r.done = 0
        /\ r.spans = (IF IsArray(t) THEN Spans(t, chosen) ELSE <<>>)
        /\ r.indices = [i \in DOMAIN r.spans |-> r.spans[i].start]
    BY FrameIsFrame DEF FrameOf
  <1> HIDE DEF r
  <1>2. Parts(r) \in Nat
    <2>1. CASE IsArray(t)
      BY <1>1, <2>1, ElementsIsNat DEF Parts
    <2>2. CASE ~ IsArray(t)
      BY <1>1, <2>2, DeclaredAggregate DEF Parts
    <2> QED BY <2>1, <2>2
  <1>3. ASSUME IsArray(t) PROVE Inside(r.indices, r.spans) /\ RowMajor(r.indices, r.spans) = 0
    <2> DEFINE d == r.spans
               i == r.indices
    <2>1. Proper(d) /\ i = [a \in DOMAIN d |-> d[a].start]
      BY <1>1, <1>3
    <2> HIDE DEF d, i
    <2>2. DOMAIN d = 1..Len(d) /\ Len(d) \in Nat
      BY <2>1 DEF Proper
    <2>3. DOMAIN i = 1..Len(d) /\ \A a \in 1..Len(d) : i[a] = d[a].start
      BY <2>1, <2>2
    <2>4. \A a \in 1..Len(d) : i[a] \in Nat /\ i[a] \in d[a].start..d[a].end
      <3> SUFFICES ASSUME NEW a \in 1..Len(d) PROVE i[a] \in Nat /\ i[a] \in d[a].start..d[a].end
        OBVIOUS
      <3>1. d[a].start \in Nat /\ d[a].end \in Nat /\ d[a].start <= d[a].end
        BY <2>1, WidthIs
      <3> QED BY <2>3, <3>1
    <2>5. Len(i) = Len(d)
      <3>1. i \in [1..Len(d) -> Nat]
        BY <2>1, <2>2, <2>3, <2>4
      <3> QED BY <2>2, <3>1
    <2>6. Inside(i, d)
      BY <2>3, <2>4, <2>5 DEF Inside
    <2> QED BY <2>1, <2>3, <2>6, RowMajorIs DEF d, i
  <1>4. IsCall(r, k)
    BY <1>1, <1>2, <1>3 DEF IsCall
  <1> QED BY <1>1, <1>4 DEF Calling, r

\* The part a call goes on to.
LEMMA NextPart ==
  ASSUME types \in Declarations, NEW k, NEW r, Calling(r, k), r.done < Parts(r)
  PROVE  LET c == PartType(r.type, r.done + 1)
         IN  /\ c \in Children(r.type) /\ c \in TypeIds
             /\ Offset(r.type, r.done) \in Nat /\ FieldCounts[c] \in Nat
             /\ Offset(r.type, r.done + 1) = Offset(r.type, r.done) + FieldCounts[c]
             /\ Offset(r.type, r.done + 1) <= Offset(r.type, Parts(r))
             /\ Offset(r.type, Parts(r)) \in Nat
  <1> DEFINE t == r.type
             n == Parts(r)
             m == r.done
  <1>1. /\ t \in TypeIds /\ ~ IsField(t) /\ n \in Nat /\ m \in Nat /\ m < n
        /\ ~ IsArray(t) => n = Len(types[t].members)
    BY PartsIs DEF Calling
  <1>2. FieldCounts \in [TypeIds -> Nat]
    BY FieldCountsIs
  <1> HIDE DEF t, n, m
  <1>3. m + 1 \in 1..n /\ m + 1 \in 0..n /\ m \in 0..n /\ n \in 0..n /\ (m + 1) - 1 = m
    BY <1>1
  <1>4. /\ \A j \in 0..n : Offset(t, j) \in Nat
        /\ \A j \in 1..n : /\ PartType(t, j) \in Children(t)
                           /\ Offset(t, j) = Offset(t, j - 1) + FieldCounts[PartType(t, j)]
        /\ \A j \in 0..n : Offset(t, j) <= Offset(t, n)
    BY <1>1, OffsetIs
  <1>5. PartType(t, m + 1) \in TypeIds
    BY <1>1, <1>3, <1>4, ChildrenAreTypes
  <1> QED BY <1>2, <1>3, <1>4, <1>5 DEF t, n, m

LEMMA LedToPart ==
  ASSUME types \in Declarations, MembersDiffer,
         NEW k \in Nat, NEW r, Calling(r, k), r.done < Parts(r), NEW b,
         Led(r.name) = [type |-> r.type, before |-> b]
  PROVE  Led(Append(r.name, PartName(r)))
           = [type |-> PartType(r.type, r.done + 1), before |-> b + Offset(r.type, r.done)]
  <1> DEFINE x == PartName(r)
             t == r.type
  <1>1. IsList(r.name) /\ Len(r.name) = k - 1 /\ t \in TypeIds /\ Len(r.name) \in Nat
    BY PartsIs DEF Calling, IsCall, IsList
  <1>2. Led(Append(r.name, x)) = LedNext([type |-> t, before |-> b], x, Len(r.name) + 1)
    <2> HIDE DEF x
    <2> QED BY <1>1, LedOn
  <1>3. CASE IsArray(t)
    <2>1. RowMajor(x, r.spans) = r.done
      BY <1>3 DEF Calling, IsCall, PartName
    <2>2. r.spans = IF Len(r.name) + 1 = 1 THEN RootSpans ELSE types[t].dimensions
      <3>1. r.spans = IF k = 1 THEN RootSpans ELSE types[t].dimensions
        BY <1>3 DEF Calling, IsCall
      <3>2. Len(r.name) + 1 = k
        BY <1>1
      <3> QED BY <3>1, <3>2
    <2> HIDE DEF x, t
    <2>3. LedNext([type |-> t, before |-> b], x, Len(r.name) + 1)
            = [type |-> types[t].element, before |-> b + r.done * FieldCounts[types[t].element]]
      BY <1>3, <2>1, <2>2 DEF LedNext
    <2> QED BY <1>2, <1>3, <2>3 DEF PartType, Offset, x, t
  <1>4. CASE ~ IsArray(t)
    <2> DEFINE m == r.done + 1
    <2>1. ~ IsField(t) /\ m \in 1..Len(types[t].members) /\ m - 1 = r.done
      BY <1>4, PartsIs DEF Calling
    <2>2. x = types[t].members[m].name
      BY <1>4 DEF PartName
    <2> HIDE DEF x, t
    <2>3. DOMAIN types[t].members = 1..Len(types[t].members)
      BY <1>1, <1>4, <2>1, DeclaredAggregate
    <2>4. \A i \in 1..Len(types[t].members) : types[t].members[i].name = x => i = m
      BY <1>1, <1>4, <2>1, <2>2, <2>3 DEF MembersDiffer
    <2>5. MemberOf(t, x) = m
      BY <2>1, <2>2, <2>3, <2>4 DEF MemberOf
    <2>6. LedNext([type |-> t, before |-> b], x, Len(r.name) + 1)
            = [type |-> types[t].members[m].type, before |-> b + FirstMembers(t, m - 1, FieldCounts)]
      BY <1>4, <2>5 DEF LedNext
    <2> QED BY <1>2, <1>4, <2>1, <2>6 DEF PartType, Offset, x, t, m
  <1> QED BY <1>3, <1>4

-------------------------------------------------------------------------------
\* The calls in progress, together.
LEMMA FramesCall ==
  ASSUME ExpansionInv, AreCalls(frames)
  PROVE  /\ Len(frames) \in Nat /\ Len(frames) <= N /\ N \in Nat
         /\ \A k \in 1..Len(frames) : Calling(frames[k], k) /\ k \in Nat
  <1>1. Len(frames) \in Nat /\ Len(frames) <= N
    BY NestedIsShort DEF ExpansionInv, Nested, IsList
  <1> QED BY <1>1, NIsNat DEF ExpansionInv, Nested, OnComposites, AreCalls, Calling

LEMMA TopCalls ==
  ASSUME ExpansionInv, AreCalls(frames), frames # <<>>
  PROVE  /\ Len(frames) \in Nat \ {0} /\ Len(frames) \in 1..Len(frames)
         /\ Top = frames[Len(frames)] /\ Calling(Top, Len(frames))
  <1>1. Len(frames) \in Nat \ {0}
    BY BelowNested DEF ExpansionInv
  <1>2. Len(frames) \in 1..Len(frames)
    BY <1>1
  <1> QED BY <1>1, <1>2, FramesCall DEF Top

LEMMA PartIsChild ==
  ASSUME types \in Declarations, NEW k, NEW r, Calling(r, k), NEW j \in 1..Parts(r)
  PROVE  /\ PartType(r.type, j) \in Children(r.type) /\ PartType(r.type, j) \in TypeIds
  <1> DEFINE t == r.type
             n == Parts(r)
  <1>1. /\ t \in TypeIds /\ ~ IsField(t) /\ n \in Nat
        /\ ~ IsArray(t) => n = Len(types[t].members)
    BY PartsIs DEF Calling
  <1>2. j \in 1..n
    OBVIOUS
  <1> HIDE DEF t, n
  <1>3. PartType(t, j) \in Children(t)
    BY <1>1, <1>2, OffsetIs
  <1> QED BY <1>1, <1>3, ChildrenAreTypes DEF t

\* The innermost call's type is inside the entry's.
LEMMA TopReached ==
  ASSUME ExpansionInv, AreCalls(frames), Nest(frames), frames # <<>>
  PROVE  Top.type \in Reached(root)[Len(frames) - 1]
  <1>1. Len(frames) \in Nat \ {0} /\ Top = frames[Len(frames)]
    BY TopCalls
  <1>2. CASE Len(frames) = 1
    <2>1. Top.type = root
      BY <1>1, <1>2 DEF Nest
    <2>2. Reached(root)[0] = {root}
      BY ReachedUnfold DEF Layers, ExpansionInv
    <2> QED BY <1>2, <2>1, <2>2
  <1>3. CASE Len(frames) # 1
    <2>1. Len(frames) \in 2..Len(frames)
      BY <1>1, <1>3
    <2> QED BY <1>1, <2>1 DEF Nest
  <1> QED BY <1>2, <1>3

\* A part of a call that is the type of another is inside itself.
LEMMA LoopIsEndless ==
  ASSUME ExpansionInv, AreCalls(frames), Nest(frames), frames # <<>>,
         NEW c \in Children(Top.type), c \in Visiting
  PROVE  Endless(root)
  <1> DEFINE n == Len(frames)
             S == {frames[k].type : k \in 1..n}
  <1>1. n \in Nat \ {0} /\ Top = frames[n] /\ DOMAIN frames = 1..n /\ n \in 1..n
    BY TopCalls, ListDomain DEF ExpansionInv, Nested
  <1>2. c \in S
    BY <1>1 DEF Visiting
  <1>3. root \in S
    <2>1. 1 \in 1..n /\ n > 0
      BY <1>1
    <2>2. frames[1].type = root
      BY <2>1 DEF Nest
    <2> QED BY <2>1, <2>2
  <1>4. S \in SUBSET TypeIds
    BY DEF ExpansionInv, Nested, IsFrame
  <1>5. ASSUME NEW x \in S PROVE Children(x) \cap S # {}
    <2>1. PICK k \in 1..n : x = frames[k].type
      OBVIOUS
    <2>2. CASE k = n
      BY <1>1, <1>2, <2>1, <2>2
    <2>3. CASE k # n
      <3> DEFINE r == frames[k]
                 j == k + 1
      <3>1. j \in 2..n /\ j \in 1..n /\ j - 1 = k
        BY <1>1, <2>3
      <3>2. r.done > 0 /\ frames[j].type = PartType(r.type, r.done)
        BY <3>1 DEF Nest
      <3>3. Calling(r, k)
        BY FramesCall
      <3> HIDE DEF r, j
      <3>4. r.done \in 0..Parts(r) /\ r.done \in Nat /\ Parts(r) \in Nat
        BY <3>3, PartsIs DEF Calling, IsCall, ExpansionInv
      <3>5. r.done \in 1..Parts(r)
        BY <3>2, <3>4
      <3>6. PartType(r.type, r.done) \in Children(r.type)
        BY <3>3, <3>5, PartIsChild DEF ExpansionInv
      <3>7. frames[j].type \in S
        BY <3>1
      <3> QED BY <2>1, <3>2, <3>6, <3>7 DEF r
    <2> QED BY <2>2, <2>3
  <1> HIDE DEF S
  <1> QED BY <1>3, <1>4, <1>5 DEF Endless

-------------------------------------------------------------------------------
\* The innermost call goes on; its types, names and places stay.
GoingOn == Append(Below, Advanced(Top))
LEMMA GoingOnIs ==
  ASSUME ExpansionInv, AreCalls(frames), frames # <<>>
  PROVE  /\ Nested(GoingOn) /\ Len(GoingOn) = Len(frames)
         /\ \A k \in 1..Len(frames) : k # Len(frames) => GoingOn[k] = frames[k]
         /\ GoingOn[Len(frames)] = Advanced(Top)
         /\ \A k \in 1..Len(frames) :
               /\ GoingOn[k].type = frames[k].type /\ GoingOn[k].name = frames[k].name
               /\ Parts(GoingOn[k]) = Parts(frames[k])
  <1>1. Nested(GoingOn) /\ Len(GoingOn) = Len(frames)
    BY AdvancedNested DEF ExpansionInv, GoingOn
  <1>2. /\ Nested(Below) /\ Len(frames) \in Nat \ {0} /\ Len(Below) = Len(frames) - 1
        /\ \A i \in 1..Len(Below) : Below[i] = frames[i]
    BY BelowNested DEF ExpansionInv
  <1>3. /\ \A i \in 1..Len(Below) : GoingOn[i] = Below[i]
        /\ GoingOn[Len(Below) + 1] = Advanced(Top)
    BY <1>2, ListAppend DEF Nested, GoingOn
  <1>4. GoingOn[Len(frames)] = Advanced(Top)
    BY <1>2, <1>3
  <1>5. ASSUME NEW k \in 1..Len(frames), k # Len(frames) PROVE GoingOn[k] = frames[k]
    <2>1. k \in 1..Len(Below)
      BY <1>2, <1>5
    <2> QED BY <1>2, <1>3, <2>1
  <1>6. ASSUME NEW k \in 1..Len(frames)
        PROVE  /\ GoingOn[k].type = frames[k].type /\ GoingOn[k].name = frames[k].name
               /\ Parts(GoingOn[k]) = Parts(frames[k])
    <2>1. CASE k = Len(frames)
      <3>1. IsFrame(Top) /\ Top = frames[k]
        BY <2>1, TopCalls DEF Calling
      <3> QED BY <1>4, <2>1, <3>1, AdvancedKeeps
    <2>2. CASE k # Len(frames)
      BY <1>5, <2>2
    <2> QED BY <2>1, <2>2
  <1> QED BY <1>1, <1>4, <1>5, <1>6

LEMMA CallsGoOn ==
  ASSUME ExpansionInv, AreCalls(frames), frames # <<>>, Top.done < Parts(Top)
  PROVE  AreCalls(GoingOn) /\ OnComposites(GoingOn)
  <1>1. Calling(Advanced(Top), Len(frames))
    BY TopCalls, AdvancedCalls DEF ExpansionInv
  <1>2. ASSUME NEW k \in 1..Len(frames) PROVE Calling(GoingOn[k], k)
    BY <1>1, FramesCall, GoingOnIs
  <1> QED BY <1>2, GoingOnIs DEF AreCalls, OnComposites, Calling

LEMMA NestGoesOn ==
  ASSUME ExpansionInv, AreCalls(frames), Nest(frames), frames # <<>>
  PROVE  Nest(GoingOn)
  <1>1. Len(GoingOn) = Len(frames) /\ Len(frames) \in Nat \ {0} /\ 1 \in 1..Len(frames)
    BY GoingOnIs, TopCalls
  <1>2. GoingOn[1].type = root
    BY <1>1, GoingOnIs DEF Nest
  <1>3. ASSUME NEW k \in 2..Len(frames)
        PROVE  /\ GoingOn[k - 1].done > 0
               /\ GoingOn[k].type = PartType(GoingOn[k - 1].type, GoingOn[k - 1].done)
               /\ GoingOn[k].type \in Reached(root)[k - 1]
    <2>1. k - 1 \in 1..Len(frames) /\ k - 1 # Len(frames) /\ k \in 1..Len(frames)
      BY <1>1
    <2>2. GoingOn[k - 1] = frames[k - 1] /\ GoingOn[k].type = frames[k].type
      BY <2>1, GoingOnIs
    <2> QED BY <2>2 DEF Nest
  <1> QED BY <1>1, <1>2, <1>3 DEF Nest

LEMMA BeginsGoOn ==
  ASSUME ExpansionInv, AreCalls(frames), frames # <<>>, NEW start, Begins(start, frames)
  PROVE  Begins(start, GoingOn)
  <1>1. Len(GoingOn) = Len(frames) /\ Len(frames) \in Nat
    BY GoingOnIs, TopCalls
  <1>2. ASSUME NEW k \in 2..Len(frames)
        PROVE  start[k] = start[k - 1] + Offset(GoingOn[k - 1].type, GoingOn[k - 1].done - 1)
    <2>1. k - 1 \in 1..Len(frames) /\ k - 1 # Len(frames)
      BY <1>1
    <2>2. GoingOn[k - 1] = frames[k - 1]
      BY <2>1, GoingOnIs
    <2> QED BY <2>2 DEF Begins
  <1>3. \A k \in 1..Len(frames) : start[k] + Offset(GoingOn[k].type, Parts(GoingOn[k])) <= Total
    BY GoingOnIs DEF Begins
  <1>4. ASSUME MembersDiffer, NEW k \in 1..Len(frames)
        PROVE  Led(GoingOn[k].name) = [type |-> GoingOn[k].type, before |-> start[k]]
    BY <1>4, GoingOnIs DEF Begins
  <1> QED BY <1>1, <1>2, <1>3, <1>4 DEF Begins

\* But for the part just begun, what has been gone through is sane.
LEMMA PartsGoOn ==
  ASSUME ExpansionInv, AreCalls(frames), PartsAreSane(frames), frames # <<>>
  PROVE  \A k \in 1..Len(frames) : \A j \in 1..(GoingOn[k].done - 1) :
            Sane(PartType(GoingOn[k].type, j))
  <1> SUFFICES ASSUME NEW k \in 1..Len(frames), NEW j \in 1..(GoingOn[k].done - 1)
               PROVE  Sane(PartType(GoingOn[k].type, j))
    OBVIOUS
  <1>1. GoingOn[k].type = frames[k].type
    BY GoingOnIs
  <1>2. GoingOn[k].done - 1 = Through(frames, k)
    <2>1. CASE k = Len(frames)
      <3>1. GoingOn[k].done = Top.done + 1 /\ Top = frames[k] /\ Top.done \in Nat
        BY <2>1, GoingOnIs, TopCalls, AdvancedKeeps DEF Calling, IsFrame
      <3> QED BY <2>1, <3>1 DEF Through
    <2>2. CASE k # Len(frames)
      BY <2>2, GoingOnIs DEF Through
    <2> QED BY <2>1, <2>2
  <1>3. j \in 1..Through(frames, k)
    BY <1>2
  <1> QED BY <1>1, <1>3 DEF PartsAreSane

-------------------------------------------------------------------------------
\* The part that is begun, and its name.
Part == PartType(Top.type, Top.done + 1)
PartsName == Append(Top.name, PartName(Top))

LEMMA DescendCollects ==
  ASSUME Descend
  PROVE  /\ verdict = "walking" /\ frames # <<>> /\ Top.done < Parts(Top)
         /\ Collect(Part, PartsName, <<>>, GoingOn)
         /\ UNCHANGED <<types, root, subset>>
  <1>1. CASE IsArray(Top.type)
    BY <1>1 DEF Descend, Part, PartsName, PartName, PartType, GoingOn
  <1>2. CASE ~ IsArray(Top.type)
    BY <1>2 DEF Descend, Part, PartsName, PartName, PartType, GoingOn
  <1> QED BY <1>1, <1>2

LEMMA PartIs ==
  ASSUME ExpansionInv, AreCalls(frames), frames # <<>>, Top.done < Parts(Top)
  PROVE  /\ Part \in Children(Top.type) /\ Part \in TypeIds /\ FieldCounts[Part] \in Nat
         /\ IsList(PartsName) /\ Len(PartsName) = Len(frames)
  <1>1. Calling(Top, Len(frames)) /\ Len(frames) \in Nat
    BY TopCalls
  <1>2. Part \in Children(Top.type) /\ Part \in TypeIds /\ FieldCounts[Part] \in Nat
    BY <1>1, NextPart DEF Part, ExpansionInv
  <1>3. IsList(Top.name) /\ Len(Top.name) = Len(frames) - 1
    BY <1>1 DEF Calling, IsCall
  <1>4. IsList(PartsName) /\ Len(PartsName) = Len(Top.name) + 1
    BY <1>3, ListAppend DEF PartsName
  <1> QED BY <1>1, <1>2, <1>3, <1>4

LEMMA TotalIsNat ==
  ASSUME types \in Declarations, root \in TypeIds, ~ IsField(root),
         IsArray(root) => Proper(RootSpans)
  PROVE  Total \in Nat
  <1>1. FieldCounts \in [TypeIds -> Nat]
    BY FieldCountsIs
  <1>2. CASE IsArray(root)
    <2> DEFINE x == Elements(RootSpans)
               y == FieldCounts[types[root].element]
    <2>1. x \in Nat /\ y \in Nat
      BY <1>1, <1>2, ElementsIsNat, DeclaredArray
    <2>2. Total = x * y
      BY <1>2 DEF Total
    <2> HIDE DEF x, y
    <2> QED BY <2>1, <2>2
  <1> QED BY <1>1, <1>2 DEF Total

\* Where the part's fields begin and end.
LEMMA PartInPlace ==
  ASSUME ExpansionInv, AreCalls(frames), Nest(frames), frames # <<>>, Top.done < Parts(Top),
         NEW start, NEW n, Starts(start, frames, n)
  PROVE  /\ Begins(start, GoingOn) /\ n \in Nat
         /\ n + FieldCounts[Part] = start[Len(frames)]
               + Offset(GoingOn[Len(frames)].type, GoingOn[Len(frames)].done)
         /\ n = start[Len(frames)]
               + Offset(GoingOn[Len(frames)].type, GoingOn[Len(frames)].done - 1)
         /\ n + FieldCounts[Part] <= Total
         /\ MembersDiffer => Led(PartsName) = [type |-> Part, before |-> n]
  <1> DEFINE L == Len(frames)
             r == Top
             b == start[L]
             o == Offset(r.type, r.done)
             p == Offset(r.type, r.done + 1)
             q == Offset(r.type, Parts(r))
             c == FieldCounts[Part]
  <1>1. L \in Nat \ {0} /\ L \in 1..L /\ r = frames[L] /\ Calling(r, L) /\ r.done \in Nat
    BY TopCalls DEF Calling, IsFrame
  <1>2. o \in Nat /\ p = o + c /\ p <= q /\ q \in Nat /\ c \in Nat
    BY <1>1, NextPart DEF ExpansionInv, Part
  <1>3. Begins(start, frames) /\ n = b + o
    BY <1>1 DEF Starts
  <1>4. b \in Nat /\ b + q <= Total
    BY <1>1, <1>3 DEF Begins
  <1>5. GoingOn[L].type = r.type /\ GoingOn[L].done = r.done + 1
    BY <1>1, GoingOnIs, AdvancedKeeps DEF Calling
  <1>6. GoingOn[L].done - 1 = r.done
    BY <1>1, <1>5
  <1>7. Begins(start, GoingOn)
    BY <1>3, BeginsGoOn
  <1>8. ASSUME MembersDiffer PROVE Led(PartsName) = [type |-> Part, before |-> n]
    <2>1. Led(r.name) = [type |-> r.type, before |-> b]
      BY <1>1, <1>3, <1>8 DEF Begins
    <2> HIDE DEF L, b, r
    <2>2. Led(Append(r.name, PartName(r)))
            = [type |-> PartType(r.type, r.done + 1), before |-> b + o]
      BY <1>1, <1>8, <2>1, LedToPart DEF ExpansionInv, r
    <2> QED BY <1>3, <2>2 DEF r, Part, PartsName
  <1>9. /\ GoingOn[L].type = r.type
        /\ Offset(GoingOn[L].type, GoingOn[L].done) = p
        /\ Offset(GoingOn[L].type, GoingOn[L].done - 1) = o
    BY <1>5, <1>6
  <1>10. b + p <= b + q
    <2> HIDE DEF b, p, q, o, c
    <2>1. p \in Nat
      BY <1>2
    <2> QED BY <1>2, <1>4, <2>1
  <1>11. n + c = b + p /\ n \in Nat /\ b + p \in Nat /\ b + q \in Nat
    <2> HIDE DEF b, p, q, o, c
    <2> QED BY <1>2, <1>3, <1>4
  <1>12. Total \in Int
    <2>1. ~ IsField(root) /\ root \in TypeIds /\ (IsArray(root) => Proper(RootSpans))
      <3>1. 1 \in 1..L
        BY <1>1
      <3>2. frames[1].type = root /\ Calling(frames[1], 1)
        BY <1>1, <3>1, FramesCall DEF Nest
      <3> QED BY <3>2 DEF Calling, IsCall, ExpansionInv
    <2> QED BY <2>1, TotalIsNat DEF ExpansionInv
  <1>13. n + c <= Total
    <2> HIDE DEF b, p, q, o, c
    <2> QED BY <1>4, <1>10, <1>11, <1>12
  <1> QED BY <1>3, <1>7, <1>8, <1>9, <1>11, <1>13

\* A field is sane, and is one.
LEMMA FieldIs ==
  ASSUME types \in Declarations, NEW t \in TypeIds, IsField(t)
  PROVE  Sane(t) /\ FieldCounts[t] = 1
  <1>1. Children(t) = {} /\ ~ IsArray(t)
    BY DEF Children, IsField, IsArray
  <1>2. ~ Endless(t)
    BY <1>1, EndlessHasPart
  <1>3. FieldCounts[t] = 1
    BY <1>2, CircularIsEndless, FieldCountsIs DEF CountIn
  <1>4. Countable(t)
    <2> DEFINE S == {t}
    <2>1. /\ S \in SUBSET TypeIds /\ t \in S
          /\ \A x \in S : Children(x) \subseteq S
          /\ \A x \in S : IsArray(x) => Elements(types[x].dimensions) <= MaxUsize
      BY <1>1
    <2> HIDE DEF S
    <2> QED BY <2>1 DEF Countable
  <1> QED BY <1>2, <1>3, <1>4 DEF Sane

-------------------------------------------------------------------------------
(***************************************************************************)
(* The steps of the walk.                                                  *)
(***************************************************************************)
\* A part that is refused is refused for a reason.
LEMMA RefusedForReason ==
  ASSUME ExpansionInv, WalkHolds(frames, fields, "walking"), frames # <<>>,
         Top.done < Parts(Top), ~ Accepted(Part, <<>>)
  PROVE  Reason
  <1>1. AreCalls(frames) /\ Nest(frames) /\ types \in Declarations /\ root \in TypeIds
    BY DEF WalkHolds, ExpansionInv
  <1>2. Part \in Children(Top.type) /\ Part \in TypeIds
    BY <1>1, PartIs
  <1> SUFFICES ASSUME ~ Endless(root) PROVE Reason
    BY DEF Reason
  <1>3. CASE IsField(Part)
    <2>1. PICK start : Starts(start, frames, Len(fields))
      BY DEF WalkHolds, InPlace
    <2>2. FieldCounts[Part] = 1
      BY <1>1, <1>2, <1>3, FieldIs
    <2>3. Len(fields) + FieldCounts[Part] <= Total /\ Len(fields) \in Nat
      BY <1>1, <2>1, PartInPlace
    <2>4. ~ (Len(fields) < MaxExpandedFields)
      BY <1>3 DEF Accepted
    <2>5. Total \in Int
      <3>1. ~ IsField(root)
        BY DEF WalkHolds
      <3>2. 1 \in 1..Len(frames) /\ Len(frames) > 0
        BY <1>1, TopCalls
      <3>3. frames[1].type = root /\ Calling(frames[1], 1)
        BY <1>1, <3>2, FramesCall DEF Nest
      <3> QED BY <1>1, <3>1, <3>3, TotalIsNat DEF Calling, IsCall
    <2>6. Total > MaxExpandedFields
      BY <2>2, <2>3, <2>4, <2>5, LimitsAssumption
    <2> QED BY <2>6 DEF Reason
  <1>4. CASE ~ IsField(Part)
    <2>1. Part \notin Visiting
      BY <1>1, <1>2, LoopIsEndless
    <2>2. IsArray(Part) /\ ~ (Elements(types[Part].dimensions) <= MaxUsize)
      BY <1>4, <2>1 DEF Accepted, Spans
    <2>3. Elements(types[Part].dimensions) > MaxUsize
      BY <1>1, <1>2, <2>2, DeclaredArray, ElementsIsNat, LimitsAssumption
    <2>4. Len(frames) \in 1..Len(frames) /\ Len(frames) <= N /\ N \in Nat /\ Len(frames) \in Nat \ {0}
      BY <1>1, TopCalls, FramesCall
    <2> DEFINE d == Len(frames) - 1
    <2>5. d \in 0..N /\ d + 1 <= N /\ d + 1 = Len(frames) /\ Len(frames) \in 0..N
      BY <2>4
    <2>6. Top.type \in Reached(root)[d]
      BY <1>1, TopReached
    <2>7. Part \in Reached(root)[d + 1]
      <3> HIDE DEF d
      <3> QED BY <1>1, <1>2, <2>5, <2>6, ReachedOn
    <2>8. Part \in ArraysInside
      BY <2>2, <2>5, <2>7 DEF ArraysInside
    <2>9. Part # root
      <3>1. 1 \in 1..Len(frames) /\ Len(frames) > 0 /\ DOMAIN frames = 1..Len(frames)
        BY <2>4, ListDomain DEF ExpansionInv, Nested
      <3>2. root \in Visiting
        BY <1>1, <3>1 DEF Nest, Visiting
      <3> QED BY <2>1, <3>2
    <2> QED BY <2>3, <2>8, <2>9 DEF Reason
  <1> QED BY <1>3, <1>4

\* A part that is a field.
LEMMA FieldStep ==
  ASSUME ExpansionInv, WalkHolds(frames, fields, "walking"), frames # <<>>,
         Top.done < Parts(Top), IsField(Part)
  PROVE  WalkHolds(GoingOn, Append(fields, [name |-> PartsName, type |-> Part]), "walking")
  <1> DEFINE x == [name |-> PartsName, type |-> Part]
             f == Append(fields, x)
             L == Len(frames)
             n == Len(fields)
  <1>1. AreCalls(frames) /\ Nest(frames) /\ PartsAreSane(frames) /\ types \in Declarations
    BY DEF WalkHolds, ExpansionInv
  <1>2. Part \in TypeIds /\ Sane(Part) /\ FieldCounts[Part] = 1
    BY <1>1, PartIs, FieldIs
  <1>3. /\ Len(f) = n + 1 /\ n \in Nat
        /\ \A i \in 1..n : f[i] = fields[i]
        /\ f[n + 1] = x
    BY ListAppend DEF ExpansionInv, IsList
  <1>4. AreCalls(GoingOn) /\ Nest(GoingOn)
    BY <1>1, CallsGoOn, NestGoesOn
  <1>5. L \in Nat \ {0} /\ Len(GoingOn) = L /\ L \in 1..L
    BY <1>1, TopCalls, GoingOnIs
  <1>6. GoingOn # <<>>
    BY <1>5
  <1> HIDE DEF f, x, n, L
  <1>7. PartsAreSane(GoingOn)
    <2> SUFFICES ASSUME NEW k \in 1..L, NEW j \in 1..Through(GoingOn, k)
                 PROVE  Sane(PartType(GoingOn[k].type, j))
      BY <1>5 DEF PartsAreSane
    <2>1. \A i \in 1..(GoingOn[k].done - 1) : Sane(PartType(GoingOn[k].type, i))
      BY <1>1, PartsGoOn DEF L
    <2>2. CASE k # L
      BY <1>5, <2>1, <2>2 DEF Through
    <2>3. CASE k = L
      <3>1. GoingOn[k].done = Top.done + 1 /\ GoingOn[k].type = Top.type /\ Top.done \in Nat
        BY <1>1, <2>3, GoingOnIs, TopCalls, AdvancedKeeps DEF Calling, IsFrame, L
      <3>2. Through(GoingOn, k) = Top.done + 1
        BY <1>5, <2>3, <3>1 DEF Through
      <3>3. CASE j = Top.done + 1
        BY <1>2, <3>1, <3>3 DEF Part
      <3>4. CASE j # Top.done + 1
        <4>1. j \in 1..(GoingOn[k].done - 1)
          BY <3>1, <3>2, <3>4
        <4> QED BY <2>1, <4>1
      <3> QED BY <3>3, <3>4
    <2> QED BY <2>2, <2>3
  <1>8. InPlace(GoingOn, f)
    <2> SUFFICES ASSUME ~ Endless(root) PROVE \E start : Starts(start, GoingOn, Len(f))
      BY DEF InPlace
    <2>1. PICK start : Starts(start, frames, n)
      BY DEF WalkHolds, InPlace, n
    <2>2. /\ Begins(start, GoingOn)
          /\ n + FieldCounts[Part] = start[L] + Offset(GoingOn[L].type, GoingOn[L].done)
      BY <1>1, <2>1, PartInPlace DEF L
    <2>3. Starts(start, GoingOn, Len(f))
      BY <1>2, <1>3, <1>5, <2>2 DEF Starts
    <2> QED BY <2>3
  <1>9. FieldsLead(f)
    <2> SUFFICES ASSUME ~ Endless(root), MembersDiffer, NEW i \in 1..(n + 1)
                 PROVE  Led(f[i].name) = [type |-> f[i].type, before |-> i - 1]
      BY <1>3 DEF FieldsLead
    <2>1. CASE i = n + 1
      <3>1. PICK start : Starts(start, frames, n)
        BY DEF WalkHolds, InPlace, n
      <3>2. Led(PartsName) = [type |-> Part, before |-> n]
        BY <1>1, <3>1, PartInPlace
      <3>3. f[i].name = PartsName /\ f[i].type = Part /\ i - 1 = n
        BY <1>3, <2>1 DEF x
      <3> QED BY <3>2, <3>3
    <2>2. CASE i # n + 1
      <3>1. i \in 1..n
        BY <1>3, <2>2
      <3>2. Led(fields[i].name) = [type |-> fields[i].type, before |-> i - 1]
        BY <3>1 DEF WalkHolds, FieldsLead, n
      <3> QED BY <1>3, <3>1, <3>2
    <2> QED BY <2>1, <2>2
  <1>10. subset \in Subsets /\ ~ IsField(root) /\ RootFits
    BY DEF WalkHolds, Verdicts
  <1> QED BY <1>4, <1>6, <1>7, <1>8, <1>9, <1>10 DEF WalkHolds, RootDone, Verdicts, f, x

LEMMA OffsetAtStart ==
  ASSUME types \in Declarations, NEW t \in TypeIds, ~ IsField(t)
  PROVE  Offset(t, 0) = 0
  <1>1. CASE IsArray(t)
    BY <1>1, OffsetIs, DeclaredArray, ElementsIsNat
  <1>2. CASE ~ IsArray(t)
    BY <1>2, OffsetIs, DeclaredAggregate
  <1> QED BY <1>1, <1>2

\* A part that is a composite.
LEMMA CompositeStep ==
  ASSUME ExpansionInv, WalkHolds(frames, fields, "walking"), frames # <<>>,
         Top.done < Parts(Top), ~ IsField(Part), Accepted(Part, <<>>)
  PROVE  WalkHolds(Append(GoingOn, FrameOf(Part, PartsName, <<>>)), fields, "walking")
  <1> DEFINE r == FrameOf(Part, PartsName, <<>>)
             s == Append(GoingOn, r)
             L == Len(frames)
             n == Len(fields)
  <1>1. /\ AreCalls(frames) /\ Nest(frames) /\ PartsAreSane(frames)
        /\ types \in Declarations /\ root \in TypeIds
    BY DEF WalkHolds, ExpansionInv
  <1>2. /\ Part \in Children(Top.type) /\ Part \in TypeIds /\ FieldCounts[Part] \in Nat
        /\ IsList(PartsName) /\ Len(PartsName) = L
    BY <1>1, PartIs
  <1>3. AreCalls(GoingOn) /\ Nest(GoingOn) /\ Nested(GoingOn)
    BY <1>1, CallsGoOn, NestGoesOn, GoingOnIs
  <1>4. /\ L \in Nat \ {0} /\ Len(GoingOn) = L /\ L \in 1..L
        /\ L <= N /\ N \in Nat
    BY <1>1, TopCalls, GoingOnIs, FramesCall
  <1>5. /\ Len(s) = L + 1 /\ \A k \in 1..L : s[k] = GoingOn[k]
        /\ s[L + 1] = r
    <2> HIDE DEF r, L
    <2> QED BY <1>3, <1>4, ListAppend DEF Nested
  <1>6. Calling(r, L + 1) /\ r.type = Part /\ r.name = PartsName /\ r.done = 0
        /\ (IsArray(Part) => r.spans = types[Part].dimensions)
    <2> DEFINE k == L + 1
    <2>1. Len(PartsName) = k - 1 /\ k # 1
      BY <1>2, <1>4
    <2>2. Spans(Part, <<>>) = types[Part].dimensions
      BY DEF Spans
    <2>3. IsArray(Part) => Proper(Spans(Part, <<>>)) /\ Elements(Spans(Part, <<>>)) <= MaxUsize
      BY <1>1, <1>2, <2>2, DeclaredArray DEF Accepted
    <2> HIDE DEF k, L
    <2> QED BY <1>1, <1>2, <2>1, <2>2, <2>3, FrameCalls DEF k
  <1> HIDE DEF r, s, L, n
  <1>7. \A k \in 1..(L + 1) : k \in 1..L \/ k = L + 1
    BY <1>4
  <1>8. AreCalls(s)
    BY <1>3, <1>4, <1>5, <1>6, <1>7 DEF AreCalls, Calling
  <1>9. GoingOn[L].done = Top.done + 1 /\ GoingOn[L].type = Top.type /\ Top.done \in Nat
    BY <1>1, GoingOnIs, TopCalls, AdvancedKeeps DEF Calling, IsFrame, L
  <1>10. Nest(s)
    <2>1. s[1].type = root
      <3>1. 1 \in 1..L /\ L > 0
        BY <1>4
      <3> QED BY <1>3, <1>4, <1>5, <3>1 DEF Nest
    <2>2. ASSUME NEW k \in 2..(L + 1)
          PROVE  /\ s[k - 1].done > 0
                 /\ s[k].type = PartType(s[k - 1].type, s[k - 1].done)
                 /\ s[k].type \in Reached(root)[k - 1]
      <3>1. CASE k = L + 1
        <4>1. s[k - 1] = GoingOn[L] /\ s[k] = r
          <5>1. k - 1 = L
            BY <1>4, <3>1
          <5> QED BY <1>4, <1>5, <3>1, <5>1
        <4>2. s[k - 1].done > 0
          BY <1>9, <4>1
        <4>3. s[k].type = PartType(s[k - 1].type, s[k - 1].done)
          BY <1>6, <1>9, <4>1 DEF Part
        <4>4. Part \in Reached(root)[L]
          <5> DEFINE d == L - 1
          <5>1. d \in 0..N /\ d + 1 <= N /\ d + 1 = L
            BY <1>4
          <5>2. Top.type \in Reached(root)[d]
            BY <1>1, TopReached DEF L
          <5> HIDE DEF d
          <5> QED BY <1>1, <1>2, <5>1, <5>2, ReachedOn
        <4>5. k - 1 = L
          BY <1>4, <3>1
        <4> QED BY <1>6, <4>1, <4>2, <4>3, <4>4, <4>5
      <3>2. CASE k # L + 1
        <4>1. k \in 2..L /\ k \in 1..L /\ k - 1 \in 1..L
          BY <1>4, <3>2
        <4> QED BY <1>3, <1>4, <1>5, <4>1 DEF Nest
      <3> QED BY <3>1, <3>2
    <2> QED BY <1>5, <2>1, <2>2 DEF Nest
  <1>11. PartsAreSane(s)
    <2> SUFFICES ASSUME NEW k \in 1..(L + 1), NEW j \in 1..Through(s, k)
                 PROVE  Sane(PartType(s[k].type, j))
      BY <1>5 DEF PartsAreSane
    <2>1. CASE k = L + 1
      <3>1. Through(s, k) = 0
        BY <1>5, <1>6, <2>1 DEF Through
      <3> QED BY <3>1
    <2>2. CASE k # L + 1
      <3>1. k \in 1..L
        BY <1>4, <2>2
      <3>2. Through(s, k) = GoingOn[k].done - 1 /\ s[k] = GoingOn[k]
        BY <1>5, <2>2, <3>1 DEF Through
      <3> QED BY <1>1, <3>1, <3>2, PartsGoOn DEF L
    <2> QED BY <2>1, <2>2
  <1>12. InPlace(s, fields)
    <2> SUFFICES ASSUME ~ Endless(root) PROVE \E start : Starts(start, s, n)
      BY DEF InPlace, n
    <2>1. PICK old : Starts(old, frames, n)
      BY DEF WalkHolds, InPlace, n
    <2>2. /\ Begins(old, GoingOn) /\ n \in Nat
          /\ n = old[L] + Offset(GoingOn[L].type, GoingOn[L].done - 1)
          /\ n + FieldCounts[Part] <= Total
          /\ MembersDiffer => Led(PartsName) = [type |-> Part, before |-> n]
      BY <1>1, <2>1, PartInPlace DEF L
    <2> DEFINE start == [k \in 1..(L + 1) |-> IF k = L + 1 THEN n ELSE old[k]]
    <2>3. start[L + 1] = n /\ \A k \in 1..L : start[k] = old[k]
      BY <1>4
    <2>4. start \in [1..(L + 1) -> Nat]
      <3>1. \A k \in 1..L : old[k] \in Nat
        BY <1>4, <2>2 DEF Begins
      <3> QED BY <1>7, <2>2, <3>1
    <2> HIDE DEF start
    <2>5. start[1] = 0
      <3>1. 1 \in 1..L
        BY <1>4
      <3> QED BY <2>2, <2>3, <3>1 DEF Begins
    <2>6. ASSUME NEW k \in 2..(L + 1)
          PROVE  start[k] = start[k - 1] + Offset(s[k - 1].type, s[k - 1].done - 1)
      <3>1. CASE k = L + 1
        <4>1. k - 1 = L
          BY <1>4, <3>1
        <4> QED BY <1>4, <1>5, <2>2, <2>3, <3>1, <4>1
      <3>2. CASE k # L + 1
        <4>1. k \in 2..L /\ k \in 1..L /\ k - 1 \in 1..L
          BY <1>4, <3>2
        <4> QED BY <1>4, <1>5, <2>2, <2>3, <4>1 DEF Begins
      <3> QED BY <3>1, <3>2
    <2>7. ~ Endless(Part)
      <3> DEFINE d == L - 1
      <3>1. d \in 0..N
        BY <1>4
      <3>2. Top.type \in Reached(root)[d]
        BY <1>1, TopReached DEF L
      <3> HIDE DEF d
      <3>3. ~ Endless(Top.type) /\ Top.type \in TypeIds
        BY <1>1, <3>1, <3>2, ReachedEnds
      <3> QED BY <1>1, <1>2, <3>3, EndlessPart
    <2>8. Offset(Part, Parts(r)) = FieldCounts[Part]
      BY <1>1, <1>2, <1>6, <2>7, OffsetOfAll DEF Parts
    <2>9. ASSUME NEW k \in 1..(L + 1)
          PROVE  start[k] + Offset(s[k].type, Parts(s[k])) <= Total
      <3>1. CASE k = L + 1
        BY <1>5, <1>6, <2>2, <2>3, <2>8, <3>1
      <3>2. CASE k # L + 1
        <4>1. k \in 1..L
          BY <1>7, <3>2
        <4> QED BY <1>4, <1>5, <2>2, <2>3, <4>1 DEF Begins
      <3> QED BY <3>1, <3>2
    <2>10. ASSUME MembersDiffer, NEW k \in 1..(L + 1)
           PROVE  Led(s[k].name) = [type |-> s[k].type, before |-> start[k]]
      <3>1. CASE k = L + 1
        BY <1>5, <1>6, <2>2, <2>3, <2>10, <3>1
      <3>2. CASE k # L + 1
        <4>1. k \in 1..L
          BY <1>7, <3>2
        <4> QED BY <1>4, <1>5, <2>2, <2>3, <2>10, <4>1 DEF Begins
      <3> QED BY <3>1, <3>2
    <2>11. Begins(start, s)
      BY <1>5, <2>4, <2>5, <2>6, <2>9, <2>10 DEF Begins
    <2>12. n = start[Len(s)] + Offset(s[Len(s)].type, s[Len(s)].done)
      <3>1. Offset(Part, 0) = 0
        BY <1>1, <1>2, OffsetAtStart
      <3> QED BY <1>5, <1>6, <2>2, <2>3, <3>1
    <2>13. Starts(start, s, n)
      BY <2>11, <2>12 DEF Starts
    <2> QED BY <2>13
  <1>13. subset \in Subsets /\ ~ IsField(root) /\ RootFits /\ FieldsLead(fields)
    BY DEF WalkHolds, Verdicts
  <1>14. s # <<>>
    BY <1>4, <1>5
  <1> QED BY <1>8, <1>10, <1>11, <1>12, <1>13, <1>14 DEF WalkHolds, RootDone, Verdicts, s, r

\* A call that has gone through all its parts: its type is sane, and its fields
\* are those of its type.
LEMMA DoneIsSane ==
  ASSUME ExpansionInv, WalkHolds(frames, fields, "walking"), frames # <<>>,
         Top.done = Parts(Top)
  PROVE  /\ \A c \in Children(Top.type) : Sane(c)
         /\ ~ Endless(Top.type)
         /\ Len(frames) # 1 => Sane(Top.type)
  <1> DEFINE L == Len(frames)
             t == Top.type
  <1>1. AreCalls(frames) /\ Nest(frames) /\ PartsAreSane(frames) /\ types \in Declarations
    BY DEF WalkHolds, ExpansionInv
  <1>2. L \in Nat \ {0} /\ L \in 1..L /\ Top = frames[L] /\ Calling(Top, L)
    BY <1>1, TopCalls
  <1>3. t \in TypeIds /\ ~ IsField(t) /\ Parts(Top) \in Nat \ {0}
    BY <1>1, <1>2, PartsIs DEF Calling
  <1>4. \A j \in 1..Parts(Top) : Sane(PartType(t, j))
    BY <1>1, <1>2 DEF PartsAreSane, Through
  <1>5. ASSUME NEW c \in Children(t) PROVE Sane(c)
    <2>1. CASE IsArray(t)
      <3>1. 1 \in 1..Parts(Top) /\ c = PartType(t, 1)
        BY <1>1, <1>3, <2>1, DeclaredArray DEF PartType
      <3> QED BY <1>4, <3>1
    <2>2. CASE ~ IsArray(t)
      <3>1. PICK k \in 1..Len(types[t].members) : c = types[t].members[k].type
        BY <1>1, <1>3, <2>2, DeclaredAggregate
      <3>2. k \in 1..Parts(Top) /\ c = PartType(t, k)
        BY <1>1, <1>2, <2>2, <3>1, PartsIs DEF PartType
      <3> QED BY <1>4, <3>2
    <2> QED BY <2>1, <2>2
  <1>6. ~ Endless(t)
    BY <1>5, EndlessHasPart DEF Sane
  <1>7. ASSUME L # 1 PROVE Countable(t)
    <2>1. IsArray(t) => Elements(types[t].dimensions) <= MaxUsize
      BY <1>2, <1>7 DEF Calling, IsCall
    <2> QED BY <1>1, <1>3, <1>5, <2>1, CountableTogether DEF Sane
  <1> QED BY <1>5, <1>6, <1>7 DEF Sane

\* It returns to the call below, which has been through this part then.
LEMMA ReturnStep ==
  ASSUME ExpansionInv, WalkHolds(frames, fields, "walking"), frames # <<>>,
         Top.done = Parts(Top)
  PROVE  WalkHolds(Below, fields, "walking")
  <1> DEFINE L == Len(frames)
             m == L - 1
             n == Len(fields)
             t == Top.type
  <1>1. /\ AreCalls(frames) /\ Nest(frames) /\ PartsAreSane(frames)
        /\ types \in Declarations /\ root \in TypeIds
    BY DEF WalkHolds, ExpansionInv
  <1>2. L \in Nat \ {0} /\ L \in 1..L /\ Top = frames[L] /\ Calling(Top, L)
    BY <1>1, TopCalls
  <1>3. Len(Below) = m /\ \A k \in 1..m : Below[k] = frames[k]
    BY BelowNested DEF ExpansionInv
  <1>4. t \in TypeIds /\ ~ IsField(t) /\ Parts(Top) \in Nat \ {0}
    BY <1>1, <1>2, PartsIs DEF Calling
  <1>5. /\ \A c \in Children(t) : Sane(c)
        /\ ~ Endless(t)
        /\ L # 1 => Sane(t)
    BY DoneIsSane
  <1>6. subset \in Subsets /\ ~ IsField(root) /\ RootFits /\ FieldsLead(fields)
    BY DEF WalkHolds, Verdicts
  <1> HIDE DEF L, n, t
  <1>7. m \in Nat /\ \A k \in 1..m : k \in 1..L /\ k # L
    BY <1>2
  <1>8. AreCalls(Below)
    BY <1>1, <1>3, <1>7 DEF AreCalls, L
  <1>9. Nest(Below)
    <2>1. ASSUME m > 0 PROVE Below[1].type = root
      <3>1. 1 \in 1..m /\ L > 0
        BY <1>2, <1>7, <2>1
      <3> QED BY <1>1, <1>3, <3>1 DEF Nest, L
    <2>2. ASSUME NEW k \in 2..m
          PROVE  /\ Below[k - 1].done > 0
                 /\ Below[k].type = PartType(Below[k - 1].type, Below[k - 1].done)
                 /\ Below[k].type \in Reached(root)[k - 1]
      <3>1. k \in 1..m /\ k - 1 \in 1..m /\ k \in 2..L
        BY <1>2, <1>7
      <3> QED BY <1>1, <1>3, <3>1 DEF Nest, L
    <2> QED BY <1>3, <2>1, <2>2 DEF Nest
  <1>10. ASSUME m # 0
         PROVE  /\ m \in 1..m /\ m \in 1..L /\ frames[m].done \in Nat \ {0}
                /\ t = PartType(frames[m].type, frames[m].done)
                /\ Calling(frames[m], m) /\ L \in 2..L
    <2>1. m \in 1..m /\ m \in 1..L /\ L \in 2..L
      BY <1>2, <1>7, <1>10
    <2>2. frames[L - 1].done > 0 /\ frames[L].type = PartType(frames[L - 1].type, frames[L - 1].done)
      BY <1>1, <2>1 DEF Nest, L
    <2>3. Calling(frames[m], m)
      BY <1>1, <2>1, FramesCall DEF L
    <2>4. frames[m].done \in Nat
      BY <2>3 DEF Calling, IsFrame
    <2> QED BY <1>2, <2>1, <2>2, <2>3, <2>4 DEF t
  <1>11. PartsAreSane(Below)
    <2> SUFFICES ASSUME NEW k \in 1..m, NEW j \in 1..Through(Below, k)
                 PROVE  Sane(PartType(Below[k].type, j))
      BY <1>3 DEF PartsAreSane
    <2>1. Below[k] = frames[k] /\ k \in 1..L /\ Through(frames, k) = frames[k].done - 1
      BY <1>3, <1>7 DEF Through, L
    <2>2. CASE k # m
      <3>1. Through(Below, k) = Through(frames, k)
        BY <1>3, <2>1, <2>2 DEF Through
      <3> QED BY <1>1, <2>1, <3>1 DEF PartsAreSane, L
    <2>3. CASE k = m
      <3>1. m # 0
        BY <1>7, <2>3
      <3>2. Through(Below, k) = frames[k].done /\ frames[k].done \in Nat
        BY <1>3, <1>10, <2>1, <2>3, <3>1 DEF Through
      <3>3. CASE j = frames[k].done
        <4>1. L # 1
          BY <1>2, <3>1
        <4> QED BY <1>5, <1>10, <2>1, <2>3, <3>1, <3>3, <4>1
      <3>4. CASE j # frames[k].done
        <4>1. j \in 1..Through(frames, k)
          BY <2>1, <3>2, <3>4
        <4> QED BY <1>1, <2>1, <4>1 DEF PartsAreSane, L
      <3> QED BY <3>3, <3>4
    <2> QED BY <2>2, <2>3
  <1>12. ASSUME NEW start, ~ Endless(root), Starts(start, frames, n)
         PROVE  /\ n = start[L] + Offset(t, Parts(Top))
                /\ Begins(start, frames)
    BY <1>2, <1>12 DEF Starts, L, t
  <1>13. InPlace(Below, fields)
    <2> SUFFICES ASSUME ~ Endless(root), Below # <<>>
                 PROVE \E start : Starts(start, Below, n)
      BY DEF InPlace, n
    <2>0. m # 0
      <3>1. Nested(Below)
        BY BelowNested DEF ExpansionInv
      <3>2. SUFFICES ASSUME Len(Below) = 0 PROVE FALSE
        BY <1>3
      <3>3. Below = [k \in 1..0 |-> Below[k]]
        BY <3>1, <3>2 DEF Nested, IsList
      <3> QED BY <3>3
    <2>1. PICK start : Starts(start, frames, n)
      BY DEF WalkHolds, InPlace, n
    <2>2. n = start[L] + Offset(t, Parts(Top)) /\ Begins(start, frames)
      BY <1>12, <2>1
    <2>3. Offset(t, Parts(Top)) = FieldCounts[t]
      <3>1. IsArray(t) => Top.spans = types[t].dimensions
        <4>1. L # 1
          BY <1>2, <2>0
        <4> QED BY <1>2, <4>1 DEF Calling, IsCall, t
      <3> QED BY <1>1, <1>4, <1>5, <3>1, OffsetOfAll DEF Parts, t
    <2> DEFINE r == frames[m]
    <2>4. /\ m \in 1..m /\ m \in 1..L /\ r.done \in Nat \ {0}
          /\ t = PartType(r.type, r.done)
          /\ Calling(r, m) /\ L \in 2..L
      BY <1>10, <2>0
    <2>5. start[L] = start[m] + Offset(r.type, r.done - 1)
      BY <2>2, <2>4 DEF Begins, L
    <2>6. start[m] \in Nat
      BY <2>2, <2>4 DEF Begins, L
    <2>7. /\ Offset(r.type, r.done) = Offset(r.type, r.done - 1) + FieldCounts[t]
          /\ Offset(r.type, r.done - 1) \in Nat /\ FieldCounts[t] \in Nat
      <3> HIDE DEF r, m
      <3> DEFINE u == r.type
                 p == Parts(r)
                 j == r.done
      <3>1. /\ u \in TypeIds /\ ~ IsField(u) /\ p \in Nat
            /\ ~ IsArray(u) => p = Len(types[u].members)
        BY <1>1, <2>4, PartsIs DEF Calling
      <3>2. j \in 0..p
        BY <2>4 DEF Calling, IsCall
      <3>3. j \in Nat \ {0}
        BY <2>4
      <3> HIDE DEF u, p, j
      <3>4. j \in 1..p /\ j - 1 \in 0..p
        BY <3>1, <3>2, <3>3
      <3>5. Offset(u, j) = Offset(u, j - 1) + FieldCounts[PartType(u, j)] /\ Offset(u, j - 1) \in Nat
        BY <1>1, <3>1, <3>4, OffsetIs
      <3>6. FieldCounts[t] \in Nat
        BY <1>1, <1>4, FieldCountsIs
      <3> QED BY <2>4, <3>5, <3>6 DEF u, j
    <2>8. n = start[m] + Offset(r.type, r.done)
      BY <2>2, <2>3, <2>5, <2>6, <2>7
    <2> HIDE DEF m
    <2>9. \E new : Starts(new, Below, n)
      <3> DEFINE new == [k \in 1..m |-> start[k]]
      <3>1. \A k \in 1..m : new[k] = start[k]
        OBVIOUS
      <3>2. new \in [1..m -> Nat]
        BY <1>7, <2>2 DEF Begins, L
      <3> HIDE DEF new
      <3>3. new[1] = 0
        <4>1. 1 \in 1..m
          BY <1>7, <2>0
        <4> QED BY <2>2, <3>1, <4>1 DEF Begins
      <3>4. ASSUME NEW k \in 2..m
            PROVE  new[k] = new[k - 1] + Offset(Below[k - 1].type, Below[k - 1].done - 1)
        <4>1. k \in 1..m /\ k - 1 \in 1..m /\ k \in 2..L
          BY <1>2, <1>7 DEF m
        <4> QED BY <1>3, <2>2, <3>1, <4>1 DEF Begins, L
      <3>5. \A k \in 1..m : new[k] + Offset(Below[k].type, Parts(Below[k])) <= Total
        BY <1>3, <1>7, <2>2, <3>1 DEF Begins, L
      <3>6. MembersDiffer =>
              \A k \in 1..m : Led(Below[k].name) = [type |-> Below[k].type, before |-> new[k]]
        BY <1>3, <1>7, <2>2, <3>1 DEF Begins, L
      <3>7. Begins(new, Below)
        BY <1>3, <3>2, <3>3, <3>4, <3>5, <3>6 DEF Begins
      <3>8. n = new[m] + Offset(Below[m].type, Below[m].done)
        BY <1>3, <2>4, <2>8, <3>1
      <3> QED BY <1>3, <3>7, <3>8 DEF Starts
    <2> QED BY <2>9
  <1>14. RootDone(Below, fields)
    <2> SUFFICES ASSUME Below = <<>>
                 PROVE  /\ ~ Endless(root) /\ n = Total
                        /\ \A c \in Children(root) : Countable(c)
      BY DEF RootDone, n
    <2>1. L = 1
      BY <1>2, <1>3
    <2>2. Top.type = root
      BY <1>1, <1>2, <2>1 DEF Nest, L
    <2>3. ~ Endless(root) /\ \A c \in Children(root) : Countable(c)
      BY <1>5, <2>2 DEF Sane, t
    <2>4. PICK start : Starts(start, frames, n)
      BY <2>3 DEF WalkHolds, InPlace, n
    <2>5. n = start[L] + Offset(t, Parts(Top)) /\ Begins(start, frames)
      BY <1>12, <2>3, <2>4
    <2>6. start[L] = 0
      BY <2>1, <2>5 DEF Begins
    <2>7. IsArray(root) => Top.spans = RootSpans
      BY <1>2, <2>1, <2>2 DEF Calling, IsCall
    <2>8. Offset(t, Parts(Top)) = Total
      BY <1>1, <1>6, <2>2, <2>3, <2>7, OffsetOfRoot DEF Parts, t
    <2>9. Total \in Nat
      <3>1. IsArray(root) => Proper(RootSpans)
        BY <1>2, <2>1, <2>2, <2>7 DEF Calling, IsCall
      <3> QED BY <1>1, <1>6, <3>1, TotalIsNat
    <2> QED BY <2>3, <2>5, <2>6, <2>8, <2>9
  <1> QED BY <1>6, <1>8, <1>9, <1>11, <1>13, <1>14 DEF WalkHolds, Verdicts

\* The entry's own call.
LEMMA BeginRefused ==
  ASSUME ExpansionInv, WalkHolds(frames, fields, "walking"), frames = <<>>,
         ~ Accepted(root, subset)
  PROVE  Reason
  <1>1. ~ IsField(root)
    BY DEF WalkHolds
  <1>2. root \notin Visiting
    BY DEF Visiting
  <1>3. ~ RootFits
    BY <1>1, <1>2 DEF Accepted, RootFits, RootSpans
  <1> QED BY <1>3 DEF Reason

LEMMA BeginStep ==
  ASSUME ExpansionInv, WalkHolds(frames, fields, "walking"), frames = <<>>, fields = <<>>,
         Accepted(root, subset)
  PROVE  WalkHolds(Append(<<>>, FrameOf(root, <<>>, subset)), fields, "walking")
  <1> DEFINE r == FrameOf(root, <<>>, subset)
             s == Append(<<>>, r)
  <1>1. /\ types \in Declarations /\ root \in TypeIds /\ ~ IsField(root) /\ subset \in Subsets
        /\ RootSpans = Spans(root, subset)
    BY DEF WalkHolds, ExpansionInv, RootSpans
  <1>2. RootFits
    BY <1>1 DEF Accepted, RootFits
  <1>3. ASSUME IsArray(root) PROVE Proper(RootSpans)
    <2>1. CASE subset = <<>>
      BY <1>1, <1>3, <2>1, DeclaredArray DEF Spans
    <2>2. CASE subset # <<>>
      <3>1. RootSpans = subset[1] /\ subset[1] \in Seq(Dimension)
        BY <1>1, <2>2, SubsetsAssumption DEF Spans
      <3>2. Fits(subset[1], types[root].dimensions)
        BY <1>2, <1>3, <2>2 DEF RootFits
      <3>3. DOMAIN subset[1] = 1..Len(subset[1])
        BY <3>1
      <3> QED BY <3>1, <3>2, <3>3 DEF Fits, Proper
    <2> QED BY <2>1, <2>2
  <1>4. /\ Calling(r, 1) /\ r.type = root /\ r.name = <<>> /\ r.done = 0
        /\ IsArray(root) => r.spans = RootSpans
    <2> DEFINE k == 1
    <2>1. IsList(<<>>) /\ Len(<<>>) = k - 1
      BY EmptyNested
    <2>2. IsArray(root) => /\ Spans(root, subset) = IF k = 1 THEN RootSpans ELSE types[root].dimensions
                           /\ Proper(Spans(root, subset)) /\ Elements(Spans(root, subset)) <= MaxUsize
      BY <1>1, <1>2, <1>3 DEF RootFits
    <2> HIDE DEF k
    <2>3. Calling(r, k) /\ r.type = root /\ r.name = <<>> /\ r.done = 0
          /\ (IsArray(root) => r.spans = Spans(root, subset))
      BY <1>1, <2>1, <2>2, FrameCalls
    <2> HIDE DEF r
    <2> QED BY <1>1, <2>3 DEF k
  <1> HIDE DEF r
  <1>5. Len(s) = 1 /\ s[1] = r
    OBVIOUS
  <1> HIDE DEF s
  <1>6. \A k \in 1..1 : k = 1
    OBVIOUS
  <1>7. AreCalls(s) /\ Nest(s)
    <2>1. AreCalls(s)
      BY <1>4, <1>5, <1>6 DEF AreCalls, Calling
    <2>2. \A k \in 2..1 : FALSE
      OBVIOUS
    <2>3. Nest(s)
      BY <1>4, <1>5, <2>2 DEF Nest
    <2> QED BY <2>1, <2>3
  <1>8. PartsAreSane(s)
    <2>1. ASSUME NEW k \in 1..1 PROVE Through(s, k) = 0
      BY <1>4, <1>5, <1>6 DEF Through
    <2> QED BY <1>5, <2>1 DEF PartsAreSane
  <1>9. InPlace(s, fields)
    <2> SUFFICES ASSUME ~ Endless(root) PROVE \E start : Starts(start, s, 0)
      BY <1>1, EmptyNested DEF InPlace
    <2> DEFINE start == [k \in 1..1 |-> 0]
    <2>1. start[1] = 0 /\ start \in [1..1 -> Nat]
      OBVIOUS
    <2> HIDE DEF start
    <2>2. Offset(root, Parts(r)) = Total
      BY <1>1, <1>4, OffsetOfRoot DEF Parts
    <2>3. Total \in Nat
      BY <1>1, <1>3, TotalIsNat
    <2>4. Led(r.name) = [type |-> root, before |-> 0]
      BY <1>4, LedNowhere
    <2>5. Offset(root, 0) = 0
      BY <1>1, OffsetAtStart
    <2>6. \A k \in 2..1 : FALSE
      OBVIOUS
    <2>7. Begins(start, s)
      <3>1. ASSUME NEW k \in 1..1 PROVE start[k] + Offset(s[k].type, Parts(s[k])) <= Total
        BY <1>4, <1>5, <1>6, <2>1, <2>2, <2>3
      <3>2. ASSUME NEW k \in 1..1 PROVE Led(s[k].name) = [type |-> s[k].type, before |-> start[k]]
        BY <1>4, <1>5, <1>6, <2>1, <2>4
      <3> QED BY <1>5, <2>1, <2>6, <3>1, <3>2 DEF Begins
    <2>8. Starts(start, s, 0)
      BY <1>4, <1>5, <2>1, <2>5, <2>7 DEF Starts
    <2> QED BY <2>8
  <1>10. s # <<>> /\ FieldsLead(fields)
    BY <1>5 DEF WalkHolds
  <1> QED BY <1>1, <1>2, <1>7, <1>8, <1>9, <1>10 DEF WalkHolds, RootDone, Verdicts, s, r

-------------------------------------------------------------------------------
LEMMA WalkInit == CompositeInit => WalkInv
  <1> SUFFICES ASSUME CompositeInit PROVE WalkInv
    OBVIOUS
  <1>1. ExpansionInv
    BY ExpansionInit
  <1>2. frames = <<>> /\ fields = <<>> /\ verdict = "walking" /\ subset \in Subsets /\ ~ IsField(root)
    BY DEF CompositeInit
  <1>3. Len(<<>>) = 0
    OBVIOUS
  <1>4. AreCalls(frames) /\ Nest(frames) /\ PartsAreSane(frames) /\ FieldsLead(fields)
    BY <1>2, <1>3 DEF AreCalls, Nest, PartsAreSane, FieldsLead
  <1>5. InPlace(frames, fields) /\ RootDone(frames, fields) /\ Verdicts(frames, fields, verdict)
    BY <1>2 DEF InPlace, RootDone, Verdicts
  <1> QED BY <1>1, <1>2, <1>4, <1>5 DEF WalkInv, WalkHolds

LEMMA WalkStep == WalkInv /\ [CompositeNext]_compositeVars => WalkInv'
  <1> SUFFICES ASSUME WalkInv, [CompositeNext]_compositeVars PROVE WalkHolds(frames, fields, verdict)'
    BY ExpansionStep DEF WalkInv
  <1>1. ExpansionInv /\ WalkHolds(frames, fields, verdict)
    BY DEF WalkInv
  <1>2. ASSUME UNCHANGED <<types, root, subset>>, verdict = "walking", verdict' = "refused",
               UNCHANGED <<frames, fields>>, Reason
        PROVE  WalkHolds(frames, fields, verdict)'
    <2>1. PICK s, f, v : s = frames /\ f = fields /\ v = "refused"
      OBVIOUS
    <2>2. WalkHolds(s, f, v)
      BY <1>1, <1>2, <2>1 DEF WalkHolds, Verdicts
    <2> QED BY <1>2, <2>1, <2>2, WalkCarries
  <1>3. CASE Begin
    <2>1. /\ verdict = "walking" /\ frames = <<>> /\ fields = <<>>
          /\ Collect(root, <<>>, subset, <<>>) /\ UNCHANGED <<types, root, subset>>
      BY <1>3 DEF Begin
    <2>2. WalkHolds(frames, fields, "walking") /\ ~ IsField(root)
      BY <1>1, <2>1 DEF WalkHolds
    <2>3. CASE ~ Accepted(root, subset)
      <3>1. Reason
        BY <1>1, <2>1, <2>2, <2>3, BeginRefused
      <3> QED BY <1>2, <2>1, <2>3, <3>1 DEF Collect
    <2>4. CASE Accepted(root, subset)
      <3>1. PICK s, f, v : s = Append(<<>>, FrameOf(root, <<>>, subset)) /\ f = fields /\ v = "walking"
        OBVIOUS
      <3>2. WalkHolds(s, f, v)
        BY <1>1, <2>1, <2>2, <2>4, <3>1, BeginStep
      <3>3. frames' = s /\ fields' = f /\ verdict' = v
        BY <2>1, <2>2, <2>4, <3>1 DEF Collect
      <3> QED BY <2>1, <3>2, <3>3, WalkCarries
    <2> QED BY <2>3, <2>4
  <1>4. CASE Descend
    <2>1. /\ verdict = "walking" /\ frames # <<>> /\ Top.done < Parts(Top)
          /\ Collect(Part, PartsName, <<>>, GoingOn)
          /\ UNCHANGED <<types, root, subset>>
      BY <1>4, DescendCollects
    <2>2. WalkHolds(frames, fields, "walking")
      BY <1>1, <2>1
    <2>3. CASE ~ Accepted(Part, <<>>)
      <3>1. Reason
        BY <1>1, <2>1, <2>2, <2>3, RefusedForReason
      <3> QED BY <1>2, <2>1, <2>3, <3>1 DEF Collect
    <2>4. CASE Accepted(Part, <<>>) /\ IsField(Part)
      <3>1. PICK s, f, v : /\ s = GoingOn /\ v = "walking"
                           /\ f = Append(fields, [name |-> PartsName, type |-> Part])
        OBVIOUS
      <3>2. WalkHolds(s, f, v)
        BY <1>1, <2>1, <2>2, <2>4, <3>1, FieldStep
      <3>3. frames' = s /\ fields' = f /\ verdict' = v
        BY <2>1, <2>4, <3>1 DEF Collect
      <3> QED BY <2>1, <3>2, <3>3, WalkCarries
    <2>5. CASE Accepted(Part, <<>>) /\ ~ IsField(Part)
      <3>1. PICK s, f, v : /\ s = Append(GoingOn, FrameOf(Part, PartsName, <<>>))
                           /\ f = fields /\ v = "walking"
        OBVIOUS
      <3>2. WalkHolds(s, f, v)
        BY <1>1, <2>1, <2>2, <2>5, <3>1, CompositeStep
      <3>3. frames' = s /\ fields' = f /\ verdict' = v
        BY <2>1, <2>5, <3>1 DEF Collect
      <3> QED BY <2>1, <3>2, <3>3, WalkCarries
    <2> QED BY <2>3, <2>4, <2>5
  <1>5. CASE Return
    <2>1. /\ verdict = "walking" /\ frames # <<>> /\ Top.done = Parts(Top)
          /\ frames' = Below /\ UNCHANGED <<types, root, subset, fields, verdict>>
      BY <1>5 DEF Return
    <2>2. PICK s, f, v : s = Below /\ f = fields /\ v = "walking"
      OBVIOUS
    <2>3. WalkHolds(s, f, v)
      BY <1>1, <2>1, <2>2, ReturnStep
    <2> QED BY <2>1, <2>2, <2>3, WalkCarries
  <1>6. CASE Finish
    <2>1. /\ verdict = "walking" /\ frames = <<>> /\ fields # <<>>
          /\ verdict' = "expanded" /\ UNCHANGED <<types, root, subset, frames, fields>>
      BY <1>6 DEF Finish
    <2>2. PICK s, f, v : s = frames /\ f = fields /\ v = "expanded"
      OBVIOUS
    <2>3. WalkHolds(s, f, v)
      BY <1>1, <2>1, <2>2 DEF WalkHolds, Verdicts
    <2> QED BY <2>1, <2>2, <2>3, WalkCarries
  <1>7. CASE UNCHANGED compositeVars
    <2>1. UNCHANGED <<types, root, subset, frames, fields, verdict>>
      BY <1>7 DEF compositeVars
    <2>2. PICK s, f, v : s = frames /\ f = fields /\ v = verdict
      OBVIOUS
    <2> QED BY <1>1, <2>1, <2>2, WalkCarries
  <1> QED BY <1>3, <1>4, <1>5, <1>6, <1>7 DEF CompositeNext

\* The fields collect_leaves lists come in the order their bits have, each at
\* the place its name computes to, none left out and none twice, however
\* arrays and aggregates nest; members of one aggregate with one name excepted.
THEOREM FieldsComeInPlace == CompositeSafety => []FieldsAreInPlace
  <1>1. WalkInv => FieldsAreInPlace
    <2> SUFFICES ASSUME WalkInv, ~ Circular(root), MembersDiffer, NEW i \in DOMAIN fields
                 PROVE  /\ Led(fields[i].name).before = i - 1
                        /\ Led(fields[i].name).type = fields[i].type
      BY DEF FieldsAreInPlace
    <2>1. ~ Endless(root)
      BY EndlessIsCircular DEF WalkInv, ExpansionInv
    <2>2. i \in 1..Len(fields)
      BY ListDomain DEF WalkInv, ExpansionInv
    <2>3. Led(fields[i].name) = [type |-> fields[i].type, before |-> i - 1]
      BY <2>1, <2>2 DEF WalkInv, WalkHolds, FieldsLead
    <2> QED BY <2>3
  <1> QED BY <1>1, WalkInit, WalkStep, PTL DEF CompositeSafety

-------------------------------------------------------------------------------
\* A subset fits when what it chooses is something, and inside the array.
LEMMA ElementOf ==
  ASSUME NEW d, NEW i
  PROVE  i \in ElementsOf(d) <=> /\ i = [a \in DOMAIN d |-> i[a]]
                                 /\ \A a \in DOMAIN d : i[a] \in d[a].start..d[a].end
  <1> DEFINE V == UNION {x.start..x.end : x \in Range(d)}
  <1>1. ASSUME NEW a \in DOMAIN d, NEW y \in d[a].start..d[a].end PROVE y \in V
    <2>1. d[a] \in Range(d)
      BY DEF Range
    <2> QED BY <2>1
  <1>2. ElementsOf(d) = {j \in [DOMAIN d -> V] : \A a \in DOMAIN d : j[a] \in d[a].start..d[a].end}
    BY DEF ElementsOf
  <1> HIDE DEF V
  <1>3. ASSUME i = [a \in DOMAIN d |-> i[a]], \A a \in DOMAIN d : i[a] \in d[a].start..d[a].end
        PROVE  i \in ElementsOf(d)
    <2>1. \A a \in DOMAIN d : i[a] \in V
      BY <1>1, <1>3
    <2>2. i \in [DOMAIN d -> V]
      BY <1>3, <2>1
    <2> QED BY <1>2, <1>3, <2>2
  <1>4. ASSUME i \in ElementsOf(d)
        PROVE  i = [a \in DOMAIN d |-> i[a]] /\ \A a \in DOMAIN d : i[a] \in d[a].start..d[a].end
    <2>1. i \in [DOMAIN d -> V]
      BY <1>2, <1>4
    <2> QED BY <1>2, <1>4, <2>1
  <1> QED BY <1>3, <1>4

LEMMA FittingIsInside ==
  ASSUME NEW c \in Seq(Dimension), NEW d \in Seq(Dimension)
  PROVE  Fits(c, d) <=> ElementsOf(c) # {} /\ ElementsOf(c) \subseteq ElementsOf(d)
  <1>1. /\ DOMAIN c = 1..Len(c) /\ DOMAIN d = 1..Len(d)
        /\ Len(c) \in Nat /\ Len(d) \in Nat
    OBVIOUS
  <1>2. \A a \in DOMAIN c : c[a].start \in Nat /\ c[a].end \in Nat
    <2> SUFFICES ASSUME NEW a \in DOMAIN c PROVE c[a].start \in Nat /\ c[a].end \in Nat
      OBVIOUS
    <2>1. c[a] \in Dimension
      BY <1>1, ElementOfSeq
    <2> QED BY <2>1 DEF Dimension
  <1>3. \A a \in DOMAIN d : d[a].start \in Nat /\ d[a].end \in Nat
    <2> SUFFICES ASSUME NEW a \in DOMAIN d PROVE d[a].start \in Nat /\ d[a].end \in Nat
      OBVIOUS
    <2>1. d[a] \in Dimension
      BY <1>1, ElementOfSeq
    <2> QED BY <2>1 DEF Dimension
  <1>4. ASSUME Fits(c, d) PROVE ElementsOf(c) # {} /\ ElementsOf(c) \subseteq ElementsOf(d)
    <2>1. /\ DOMAIN c = DOMAIN d
          /\ \A a \in DOMAIN c : /\ d[a].start <= c[a].start
                                 /\ c[a].end <= d[a].end
                                 /\ c[a].start <= c[a].end
      BY <1>1, <1>4 DEF Fits
    <2> DEFINE i == [a \in DOMAIN c |-> c[a].start]
    <2>2. i = [a \in DOMAIN c |-> i[a]] /\ \A a \in DOMAIN c : i[a] = c[a].start
      OBVIOUS
    <2> HIDE DEF i
    <2>3. \A a \in DOMAIN c : i[a] \in c[a].start..c[a].end
      BY <1>2, <2>1, <2>2
    <2>4. i \in ElementsOf(c)
      BY <2>2, <2>3, ElementOf
    <2>5. ASSUME NEW j \in ElementsOf(c) PROVE j \in ElementsOf(d)
      <3>1. j = [a \in DOMAIN c |-> j[a]] /\ \A a \in DOMAIN c : j[a] \in c[a].start..c[a].end
        BY ElementOf
      <3>2. \A a \in DOMAIN d : j[a] \in d[a].start..d[a].end
        <4> SUFFICES ASSUME NEW a \in DOMAIN d PROVE j[a] \in d[a].start..d[a].end
          OBVIOUS
        <4>1. j[a] \in c[a].start..c[a].end /\ d[a].start <= c[a].start /\ c[a].end <= d[a].end
          BY <2>1, <3>1
        <4>2. /\ c[a].start \in Nat /\ c[a].end \in Nat
              /\ d[a].start \in Nat /\ d[a].end \in Nat
          BY <1>2, <1>3, <2>1
        <4> QED BY <4>1, <4>2
      <3> QED BY <2>1, <3>1, <3>2, ElementOf
    <2> QED BY <2>4, <2>5
  <1>5. ASSUME NEW i \in ElementsOf(c), ElementsOf(c) \subseteq ElementsOf(d) PROVE Fits(c, d)
    <2>1. i = [a \in DOMAIN c |-> i[a]] /\ \A a \in DOMAIN c : i[a] \in c[a].start..c[a].end
      BY ElementOf
    <2>2. i = [a \in DOMAIN d |-> i[a]] /\ \A a \in DOMAIN d : i[a] \in d[a].start..d[a].end
      BY <1>5, ElementOf
    <2>3. DOMAIN c = DOMAIN d
      BY <2>1, <2>2
    <2>4. Len(c) = Len(d)
      <3> DEFINE m == Len(c)
                 n == Len(d)
      <3>1. 1..m = 1..n /\ m \in Nat /\ n \in Nat
        BY <1>1, <2>3
      <3> HIDE DEF m, n
      <3>2. m # 0 => m \in 1..m
        BY <3>1
      <3>3. n # 0 => n \in 1..n
        BY <3>1
      <3>4. m # 0 => m \in 1..n
        BY <3>1, <3>2
      <3>5. n # 0 => n \in 1..m
        BY <3>1, <3>3
      <3>6. m = n
        BY <3>1, <3>4, <3>5
      <3> QED BY <3>6 DEF m, n
    <2>5. ASSUME NEW a \in DOMAIN c, NEW y \in c[a].start..c[a].end
          PROVE  y \in d[a].start..d[a].end
      <3> DEFINE j == [b \in DOMAIN c |-> IF b = a THEN y ELSE i[b]]
      <3>1. /\ j = [b \in DOMAIN c |-> j[b]]
            /\ \A b \in DOMAIN c : j[b] = IF b = a THEN y ELSE i[b]
        OBVIOUS
      <3> HIDE DEF j
      <3>2. \A b \in DOMAIN c : j[b] \in c[b].start..c[b].end
        BY <2>1, <2>5, <3>1
      <3>3. j \in ElementsOf(d)
        BY <1>5, <3>1, <3>2, ElementOf
      <3>4. j[a] \in d[a].start..d[a].end
        BY <2>3, <3>3, ElementOf
      <3> QED BY <3>1, <3>4
    <2>6. ASSUME NEW a \in DOMAIN c
          PROVE  /\ d[a].start <= c[a].start
                 /\ c[a].end <= d[a].end
                 /\ c[a].start <= c[a].end
      <3>1. /\ c[a].start \in Nat /\ c[a].end \in Nat
            /\ d[a].start \in Nat /\ d[a].end \in Nat
        BY <1>2, <1>3, <2>3
      <3>2. c[a].start <= c[a].end
        BY <2>1, <3>1
      <3>3. c[a].start \in c[a].start..c[a].end /\ c[a].end \in c[a].start..c[a].end
        BY <3>1, <3>2
      <3>4. c[a].start \in d[a].start..d[a].end /\ c[a].end \in d[a].start..d[a].end
        BY <2>5, <3>3
      <3> QED BY <3>1, <3>2, <3>4
    <2> QED BY <2>4, <2>6 DEF Fits
  <1> QED BY <1>4, <1>5

\* An expansion ends with all the fields the types stand for and only when no
\* type contains itself, the subset lies inside the array and every array can
\* be counted; collect_leaves refuses only when one of these does not hold or
\* there are more fields than MAX_EXPANDED_FIELDS.
THEOREM RefusalsAreJustified == CompositeSafety => []RefusalIsJustified
  <1> DEFINE unfit == /\ IsArray(root) /\ subset # <<>>
                      /\ \/ ElementsOf(subset[1]) = {}
                         \/ ~ ElementsOf(subset[1]) \subseteq ElementsOf(types[root].dimensions)
             overflow == \/ IsArray(root) /\ Elements(RootSpans) > MaxUsize
                         \/ \E t \in ArraysInside \ {root} :
                               Elements(types[t].dimensions) > MaxUsize
  <1>1. ASSUME WalkInv PROVE RefusalIsJustified
    <2>0. /\ types \in Declarations /\ root \in TypeIds /\ ~ IsField(root) /\ subset \in Subsets
          /\ MaxUsize \in Nat
      BY <1>1, LimitsAssumption DEF WalkInv, ExpansionInv, WalkHolds
    <2>1. Endless(root) <=> Circular(root)
      BY <2>0, EndlessIsCircular, CircularIsEndless
    <2>2. ASSUME IsArray(root), subset # <<>>
          PROVE  unfit <=> ~ Fits(subset[1], types[root].dimensions)
      <3>1. subset[1] \in Seq(Dimension) /\ types[root].dimensions \in Seq(Dimension)
        BY <2>0, <2>2, SubsetsAssumption, DeclaredArray DEF Proper
      <3> QED BY <2>2, <3>1, FittingIsInside
    <2>3. ASSUME IsArray(root), ~ unfit PROVE Elements(RootSpans) \in Nat
      <3>1. Proper(RootSpans)
        <4>1. CASE subset = <<>>
          BY <2>0, <2>3, <4>1, DeclaredArray DEF RootSpans, Spans
        <4>2. CASE subset # <<>>
          <5>1. RootSpans = subset[1] /\ subset[1] \in Seq(Dimension)
            BY <2>0, <4>2, SubsetsAssumption DEF RootSpans, Spans
          <5>2. Fits(subset[1], types[root].dimensions)
            BY <2>2, <2>3, <4>2
          <5>3. DOMAIN subset[1] = 1..Len(subset[1])
            BY <5>1
          <5> QED BY <5>1, <5>2, <5>3 DEF Fits, Proper
        <4> QED BY <4>1, <4>2
      <3> QED BY <3>1, ElementsIsNat
    <2>4. RootFits <=> ~ unfit /\ ~ (IsArray(root) /\ Elements(RootSpans) > MaxUsize)
      <3>1. CASE ~ IsArray(root)
        BY <3>1 DEF RootFits
      <3>2. CASE IsArray(root) /\ unfit
        BY <2>2, <3>2 DEF RootFits
      <3>3. CASE IsArray(root) /\ ~ unfit
        <4>1. subset # <<>> => Fits(subset[1], types[root].dimensions)
          BY <2>2, <3>3
        <4>2. Elements(RootSpans) <= MaxUsize <=> ~ (Elements(RootSpans) > MaxUsize)
          BY <2>0, <2>3, <3>3
        <4> HIDE DEF unfit
        <4> QED BY <3>3, <4>1, <4>2 DEF RootFits
      <3> QED BY <3>1, <3>2, <3>3
    <2>5. ASSUME verdict = "expanded"
          PROVE  ~ Circular(root) /\ ~ unfit /\ ~ overflow /\ Len(fields) = Total
      <3>1. frames = <<>> /\ fields # <<>> /\ RootFits
        BY <1>1, <2>5 DEF WalkInv, WalkHolds, Verdicts
      <3>2. /\ ~ Endless(root) /\ Len(fields) = Total
            /\ \A c \in Children(root) : Countable(c)
        BY <1>1, <3>1 DEF WalkInv, WalkHolds, RootDone
      <3>3. ASSUME NEW t \in ArraysInside \ {root} PROVE ~ (Elements(types[t].dimensions) > MaxUsize)
        <4>1. PICK d \in 0..N : t \in Reached(root)[d]
          BY DEF ArraysInside
        <4>2. IsArray(t) /\ t # root
          BY DEF ArraysInside
        <4>3. Elements(types[t].dimensions) <= MaxUsize
          BY <2>0, <3>2, <4>1, <4>2, CountableTogether
        <4>4. t \in TypeIds
          BY <2>0, <3>2, <4>1, ReachedEnds
        <4>5. Elements(types[t].dimensions) \in Nat
          BY <2>0, <4>2, <4>4, DeclaredArray, ElementsIsNat
        <4> QED BY <2>0, <4>3, <4>5
      <3> HIDE DEF unfit
      <3> QED BY <2>1, <2>4, <3>1, <3>2, <3>3
    <2>6. ASSUME verdict = "refused"
          PROVE  Circular(root) \/ unfit \/ overflow \/ Total > MaxExpandedFields
      <3>1. Reason
        BY <1>1, <2>6 DEF WalkInv, WalkHolds, Verdicts
      <3> HIDE DEF unfit
      <3> QED BY <2>1, <2>4, <3>1 DEF Reason
    <2> HIDE DEF unfit, overflow
    <2>7. RefusalIsJustified <=>
            /\ verdict = "expanded" => ~ Circular(root) /\ ~ unfit /\ ~ overflow /\ Len(fields) = Total
            /\ verdict = "refused" => Circular(root) \/ unfit \/ overflow \/ Total > MaxExpandedFields
      BY DEF RefusalIsJustified, unfit, overflow
    <2> QED BY <2>5, <2>6, <2>7
  <1>2. WalkInv => RefusalIsJustified
    BY <1>1
  <1> QED BY <1>2, WalkInit, WalkStep, PTL DEF CompositeSafety
===============================================================================
