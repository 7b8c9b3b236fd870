--------------------------------- MODULE Lists ---------------------------------
(***************************************************************************)
(* Facts about lists, numbers and recursion that the proofs of several     *)
(* components rest on.                                                     *)
(*                                                                         *)
(* The induction theorems of the library take a predicate as a parameter;  *)
(* what is here is about sets of numbers instead, so that it can be cited  *)
(* with the set that is meant.  A recursive function is CHOOSE of one that *)
(* satisfies its equation: TreeRecursion, LevelRecursion and               *)
(* FiniteRecursion give that there is one.                                 *)
(***************************************************************************)
EXTENDS Integers, Ordering, SequenceTheorems, WellFoundedInduction, TLAPS

\* A set of numbers has a least one.
LEMMA Least ==
  ASSUME NEW T, T \subseteq Nat, T # {}
  PROVE  \E m \in T : \A n \in T : m <= n
  <1> DEFINE Below == OpToRel(<, Nat)
  <1>1. IsWellFoundedOn(Below, Nat)
    BY NatLessThanWellFounded
  <1>2. \A x, y \in Nat : <<y, x>> \in Below <=> y < x
    BY DEF OpToRel
  <1> HIDE DEF Below
  <1>3. PICK m \in T : \A n \in T : ~ (<<n, m>> \in Below)
    BY <1>1, WFMin
  <1>4. ASSUME NEW n \in T PROVE m <= n
    <2>1. m \in Nat /\ n \in Nat /\ ~ (n < m)
      BY <1>2, <1>3
    <2> QED BY <2>1
  <1> QED BY <1>4

\* A set with 0 that holds the next of each of its numbers holds all.
LEMMA Induction ==
  ASSUME NEW S, 0 \in S, \A n \in Nat : n \in S => n + 1 \in S
  PROVE  Nat \subseteq S
  <1> DEFINE T == Nat \ S
  <1> SUFFICES ASSUME T # {} PROVE FALSE
    OBVIOUS
  <1>1. PICK m \in T : \A n \in T : m <= n
    <2> HIDE DEF T
    <2>1. T \subseteq Nat
      BY DEF T
    <2> QED BY <2>1, Least
  <1>2. m \in Nat /\ m # 0 /\ m - 1 \in Nat /\ m - 1 \in S
    BY <1>1
  <1> QED BY <1>1, <1>2

\* The same for the numbers up to n.
LEMMA InductionTo ==
  ASSUME NEW n \in Nat, NEW S, 0 \in S,
         \A k \in 1 .. n : k - 1 \in S => k \in S
  PROVE  0 .. n \subseteq S
  <1> DEFINE T == {k \in Nat : k <= n => k \in S}
  <1>1. 0 \in T
    OBVIOUS
  <1>2. ASSUME NEW k \in Nat, k \in T PROVE k + 1 \in T
    <2>1. CASE k + 1 <= n
      <3>1. k + 1 \in 1 .. n /\ k + 1 - 1 = k /\ k \in S
        BY <1>2, <2>1
      <3> QED BY <3>1
    <2> QED BY <2>1
  <1>3. Nat \subseteq T
    <2> HIDE DEF T
    <2> QED BY <1>1, <1>2, Induction
  <1> QED BY <1>3

\* And from all earlier ones.
LEMMA CourseOfValues ==
  ASSUME NEW n \in Nat, NEW S, \A k \in 0 .. n : 0 .. k - 1 \subseteq S => k \in S
  PROVE  0 .. n \subseteq S
  <1> DEFINE T == (0 .. n) \ S
  <1> SUFFICES ASSUME T # {} PROVE FALSE
    OBVIOUS
  <1>1. PICK m \in T : \A k \in T : m <= k
    <2> HIDE DEF T
    <2>1. T \subseteq Nat
      BY DEF T
    <2> QED BY <2>1, Least
  <1>2. 0 .. m - 1 \subseteq S
    BY <1>1
  <1> QED BY <1>1, <1>2

\* There is a function on 0 .. n whose value at k follows from its value at an
\* earlier place, and it has its values in V.
Earlier(parent, n) == \A k \in 1 .. n : parent[k] \in 0 .. k - 1
StaysIn(V, step, n) == \A k \in 1 .. n : \A v \in V : step[<<k, v>>] \in V
Follows(g, x, parent, step, n) ==
  g[0] = x /\ \A k \in 1 .. n : g[k] = step[<<k, g[parent[k]]>>]
LEMMA TreeRecursion ==
  ASSUME NEW V, NEW x \in V, NEW n \in Nat,
         NEW parent, Earlier(parent, n), NEW step, StaysIn(V, step, n)
  PROVE  \E g \in [0 .. n -> V] : Follows(g, x, parent, step, n)
  <1> USE DEF Earlier, StaysIn, Follows
  <1> DEFINE Solves(g, m) ==
               g[0] = x /\ \A k \in 1 .. m : g[k] = step[<<k, g[parent[k]]>>]
             S == {m \in 0 .. n : \E g \in [0 .. m -> V] : Solves(g, m)}
  <1>1. 0 \in S
    <2> DEFINE g == [k \in 0 .. 0 |-> x]
    <2>1. g \in [0 .. 0 -> V] /\ g[0] = x
      OBVIOUS
    <2>2. \A k \in 1 .. 0 : FALSE
      OBVIOUS
    <2> HIDE DEF g
    <2>3. Solves(g, 0)
      BY <2>1, <2>2
    <2> QED BY <2>1, <2>3
  <1>2. ASSUME NEW m \in 1 .. n, m - 1 \in S PROVE m \in S
    <2>1. PICK g \in [0 .. m - 1 -> V] : Solves(g, m - 1)
      BY <1>2
    <2> DEFINE v == step[<<m, g[parent[m]]>>]
               h == [k \in 0 .. m |-> IF k = m THEN v ELSE g[k]]
    <2>2. v \in V
      BY <2>1
    <2> HIDE DEF v
    <2>3. h \in [0 .. m -> V] /\ \A k \in 0 .. m : h[k] = IF k = m THEN v ELSE g[k]
      BY <2>2
    <2> HIDE DEF h
    <2>4. h[0] = x
      BY <2>1, <2>3
    <2>5. ASSUME NEW k \in 1 .. m PROVE h[k] = step[<<k, h[parent[k]]>>]
      <3>1. parent[k] \in 0 .. k - 1
        OBVIOUS
      <3>2. h[parent[k]] = g[parent[k]]
        BY <2>3, <3>1
      <3>3. CASE k = m
        <4>1. h[m] = step[<<m, g[parent[m]]>>]
          BY <2>3 DEF v
        <4> QED BY <3>2, <3>3, <4>1
      <3>4. CASE k # m
        <4>1. k \in 1 .. m - 1 /\ h[k] = g[k]
          BY <2>3, <3>4
        <4> QED BY <2>1, <3>2, <4>1
      <3> QED BY <3>3, <3>4
    <2>6. Solves(h, m)
      BY <2>4, <2>5
    <2> HIDE DEF Solves
    <2>7. m \in 0 .. n
      OBVIOUS
    <2> QED BY <2>3, <2>6, <2>7
  <1>3. n \in S
    <2> HIDE DEF S
    <2>1. 0 .. n \subseteq S
      BY <1>1, <1>2, InductionTo
    <2> QED BY <2>1
  <1> QED BY <1>3

\* The same along the numbers up to n, as one function.
LEMMA ChainRecursion ==
  ASSUME NEW V, NEW x \in V, NEW n \in Nat, NEW step, StaysIn(V, step, n)
  PROVE  \E g \in [0 .. n -> V] :
            g = [k \in 0 .. n |-> IF k = 0 THEN x ELSE step[<<k, g[k - 1]>>]]
  <1> DEFINE parent == [k \in 1 .. n |-> k - 1]
  <1>1. \A k \in 1 .. n : parent[k] = k - 1 /\ k - 1 \in 0 .. k - 1
    OBVIOUS
  <1> HIDE DEF parent
  <1>2. Earlier(parent, n)
    BY <1>1 DEF Earlier
  <1>3. PICK g \in [0 .. n -> V] : Follows(g, x, parent, step, n)
    BY <1>2, TreeRecursion
  <1>4. \A k \in 0 .. n : k # 0 => k \in 1 .. n
    OBVIOUS
  <1>5. \A k \in 0 .. n : g[k] = IF k = 0 THEN x ELSE step[<<k, g[k - 1]>>]
    BY <1>1, <1>3, <1>4 DEF Follows
  <1> QED BY <1>3, <1>5

\* There is a function on D whose value at x follows from its values where the
\* level is lower, and it has its values in V.
Leveled(level, D, n) == level \in [D -> 0 .. n]
Alike(g, h, level, D, x) == \A y \in D : level[y] < level[x] => g[y] = h[y]
LooksDown(step, level, D, V) ==
  \A x \in D : \A g, h \in [D -> V] :
     Alike(g, h, level, D, x) => step[<<x, g>>] = step[<<x, h>>]
StaysWithin(step, D, V) == \A x \in D : \A g \in [D -> V] : step[<<x, g>>] \in V
Obeys(g, step, D) == \A x \in D : g[x] = step[<<x, g>>]
LEMMA LevelRecursion ==
  ASSUME NEW D, NEW V, NEW v \in V, NEW n \in Nat, NEW level, Leveled(level, D, n),
         NEW step, StaysWithin(step, D, V), LooksDown(step, level, D, V)
  PROVE  \E g \in [D -> V] : Obeys(g, step, D)
  <1> DEFINE Solves(g, m) == \A x \in D : level[x] < m => g[x] = step[<<x, g>>]
             S == {m \in 0 .. n + 1 : \E g \in [D -> V] : Solves(g, m)}
  <1>1. \A x \in D : level[x] \in 0 .. n
    BY DEF Leveled
  <1>2. 0 \in S
    <2> DEFINE g == [x \in D |-> v]
    <2>1. g \in [D -> V]
      OBVIOUS
    <2>2. \A x \in D : ~ (level[x] < 0)
      BY <1>1
    <2> HIDE DEF g
    <2>3. Solves(g, 0)
      BY <2>2
    <2>4. 0 \in 0 .. n + 1
      OBVIOUS
    <2> QED BY <2>1, <2>3, <2>4
  <1>3. ASSUME NEW m \in 1 .. n + 1, m - 1 \in S PROVE m \in S
    <2>1. PICK g \in [D -> V] : Solves(g, m - 1)
      BY <1>3
    <2> DEFINE h == [x \in D |-> IF level[x] = m - 1 THEN step[<<x, g>>] ELSE g[x]]
    <2>2. h \in [D -> V]
      BY DEF StaysWithin
    <2>3. \A x \in D : h[x] = IF level[x] = m - 1 THEN step[<<x, g>>] ELSE g[x]
      OBVIOUS
    <2> HIDE DEF h
    <2>4. ASSUME NEW x \in D, level[x] < m PROVE h[x] = step[<<x, h>>]
      <3>1. \A y \in D : level[y] < level[x] => level[y] # m - 1
        BY <1>1, <2>4
      <3>2. Alike(g, h, level, D, x)
        BY <2>3, <3>1 DEF Alike
      <3>3. step[<<x, g>>] = step[<<x, h>>]
        BY <2>2, <3>2 DEF LooksDown
      <3>4. CASE level[x] = m - 1
        BY <2>3, <3>3, <3>4
      <3>5. CASE level[x] < m - 1
        <4>1. level[x] # m - 1
          BY <1>1, <3>5
        <4> QED BY <2>1, <2>3, <3>3, <3>5, <4>1
      <3>6. level[x] = m - 1 \/ level[x] < m - 1
        BY <1>1, <2>4
      <3> QED BY <3>4, <3>5, <3>6
    <2> HIDE DEF Solves
    <2>5. Solves(h, m)
      BY <2>4 DEF Solves
    <2> QED BY <2>2, <2>5
  <1>4. n + 1 \in S
    <2> HIDE DEF S
    <2>1. 0 .. n + 1 \subseteq S
      BY <1>2, <1>3, InductionTo
    <2> QED BY <2>1
  <1>5. PICK g \in [D -> V] : Solves(g, n + 1)
    BY <1>4
  <1>6. \A x \in D : level[x] < n + 1
    BY <1>1
  <1> QED BY <1>5, <1>6 DEF Obeys

-------------------------------------------------------------------------------
\* A list is typed by its shape alone.
IsList(s) == Len(s) \in Nat /\ s = [i \in 1 .. Len(s) |-> s[i]]

LEMMA ListDomain ==
  ASSUME NEW s, IsList(s)
  PROVE  DOMAIN s = 1 .. Len(s)
  BY DEF IsList
LEMMA ListIsSeq ==
  ASSUME NEW s, IsList(s), NEW x
  PROVE  s \in Seq({s[i] : i \in 1 .. Len(s)} \cup {x})
  BY DEF IsList
LEMMA ListOfIsSeq ==
  ASSUME NEW s, IsList(s), NEW S, \A i \in 1 .. Len(s) : s[i] \in S
  PROVE  s \in Seq(S)
  BY DEF IsList
LEMMA SeqIsList ==
  ASSUME NEW S, NEW s \in Seq(S)
  PROVE  IsList(s)
  BY DEF IsList

\* Lists grow at their end and change in place.
LEMMA ListAppend ==
  ASSUME NEW s, IsList(s), NEW x
  PROVE  /\ IsList(Append(s, x))
         /\ Len(Append(s, x)) = Len(s) + 1
         /\ \A i \in 1 .. Len(s) : Append(s, x)[i] = s[i]
         /\ Append(s, x)[Len(s) + 1] = x
  <1> DEFINE S == {s[i] : i \in 1 .. Len(s)} \cup {x}
  <1>1. s \in Seq(S) /\ x \in S
    BY ListIsSeq
  <1> HIDE DEF S
  <1>2. /\ Append(s, x) \in Seq(S)
        /\ Len(Append(s, x)) = Len(s) + 1
        /\ \A i \in 1 .. Len(s) : Append(s, x)[i] = s[i]
        /\ Append(s, x)[Len(s) + 1] = x
    BY <1>1, AppendProperties
  <1>3. IsList(Append(s, x))
    BY <1>2, SeqIsList
  <1> QED BY <1>2, <1>3
Put(s, k, x) == [s EXCEPT ![k] = x]
LEMMA ListPut ==
  ASSUME NEW s, IsList(s), NEW k \in 1 .. Len(s), NEW x
  PROVE  /\ IsList(Put(s, k, x))
         /\ Len(Put(s, k, x)) = Len(s)
         /\ \A i \in 1 .. Len(s) : Put(s, k, x)[i] = IF i = k THEN x ELSE s[i]
  <1> DEFINE S == {s[i] : i \in 1 .. Len(s)} \cup {x}
  <1>1. s \in Seq(S) /\ x \in S
    BY ListIsSeq
  <1> HIDE DEF S
  <1>2. /\ Put(s, k, x) \in Seq(S)
        /\ Len(Put(s, k, x)) = Len(s)
        /\ \A i \in 1 .. Len(s) : Put(s, k, x)[i] = IF i = k THEN x ELSE s[i]
    BY <1>1, ExceptSeq DEF Put
  <1>3. IsList(Put(s, k, x))
    BY <1>2, SeqIsList
  <1> QED BY <1>2, <1>3

LEMMA ListConcat ==
  ASSUME NEW s, IsList(s), NEW t, IsList(t)
  PROVE  /\ IsList(s \o t)
         /\ Len(s \o t) = Len(s) + Len(t)
         /\ \A i \in 1 .. Len(s) : (s \o t)[i] = s[i]
         /\ \A i \in 1 .. Len(t) : (s \o t)[Len(s) + i] = t[i]
  <1> DEFINE S == {s[i] : i \in 1 .. Len(s)} \cup {t[i] : i \in 1 .. Len(t)}
             u == s \o t
  <1>1. s \in Seq(S) /\ t \in Seq(S)
    BY ListOfIsSeq
  <1>2. Len(s) \in Nat /\ Len(t) \in Nat
    BY DEF IsList
  <1> HIDE DEF S
  <1>3. /\ u \in Seq(S)
        /\ Len(u) = Len(s) + Len(t)
        /\ \A i \in 1 .. Len(s) + Len(t) :
              u[i] = IF i <= Len(s) THEN s[i] ELSE t[i - Len(s)]
    BY <1>1, ConcatProperties
  <1> HIDE DEF u
  <1>4. IsList(u)
    BY <1>3, SeqIsList
  <1>5. \A i \in 1 .. Len(s) : u[i] = s[i]
    BY <1>2, <1>3
  <1>6. ASSUME NEW i \in 1 .. Len(t) PROVE u[Len(s) + i] = t[i]
    <2>1. /\ Len(s) + i \in 1 .. Len(s) + Len(t)
          /\ ~ (Len(s) + i <= Len(s)) /\ Len(s) + i - Len(s) = i
      BY <1>2
    <2> QED BY <1>3, <2>1
  <1> QED BY <1>2, <1>3, <1>4, <1>5, <1>6 DEF u

\* The end of a list is cut off.
LEMMA ListFront ==
  ASSUME NEW s, IsList(s), s # <<>>, NEW front, front = SubSeq(s, 1, Len(s) - 1)
  PROVE  /\ IsList(front)
         /\ Len(s) \in Nat \ {0}
         /\ Len(front) = Len(s) - 1
         /\ \A i \in 1 .. Len(front) : front[i] = s[i]
  <1> DEFINE S == {s[i] : i \in 1 .. Len(s)} \cup {0}
  <1>1. s \in Seq(S)
    BY ListIsSeq
  <1>2. Len(s) \in Nat \ {0}
    BY <1>1, EmptySeq
  <1>3. \A i \in 1 .. Len(s) : s[i] \in S
    OBVIOUS
  <1> HIDE DEF S
  <1> DEFINE n == Len(s) - 1
  <1>4. 1 \in Int /\ n \in Int /\ \A i \in 1 .. n : s[i] \in S
    BY <1>2, <1>3
  <1> HIDE DEF n
  <1>5. /\ SubSeq(s, 1, n) \in Seq(S)
        /\ Len(SubSeq(s, 1, n)) = IF 1 <= n THEN n - 1 + 1 ELSE 0
        /\ \A i \in 1 .. n - 1 + 1 : SubSeq(s, 1, n)[i] = s[1 + i - 1]
    BY <1>4, SubSeqProperties
  <1>6. n = Len(s) - 1 /\ n \in Nat /\ front = SubSeq(s, 1, n)
    BY <1>2 DEF n
  <1>7. IsList(front)
    BY <1>5, <1>6, SeqIsList
  <1>8. Len(front) = n /\ \A i \in 1 .. n : front[i] = s[i]
    BY <1>5, <1>6
  <1> QED BY <1>2, <1>6, <1>7, <1>8

\* There is a function on 0 .. n whose values each follow from the one before.
HasChain(n, base, Next(_, _)) ==
  \E f : f = [k \in 0 .. n |-> IF k = 0 THEN base ELSE Next(k, f[k - 1])]

\* There always is, whatever the values are.
LEMMA FiniteRecursion ==
  ASSUME NEW n \in Nat, NEW base, NEW Next(_, _)
  PROVE  HasChain(n, base, Next)
  <1> DEFINE Solves(f, m) ==
               f = [k \in 0 .. m |-> IF k = 0 THEN base ELSE Next(k, f[k - 1])]
             S == {m \in Nat : \E f : Solves(f, m)}
  <1>1. 0 \in S
    <2> DEFINE f == [k \in 0 .. 0 |-> base]
    <2>1. f = [k \in 0 .. 0 |-> IF k = 0 THEN base ELSE Next(k, f[k - 1])]
      <3>1. \A k \in 0 .. 0 : k = 0
        OBVIOUS
      <3> QED BY <3>1
    <2> HIDE DEF f
    <2>2. Solves(f, 0)
      BY <2>1
    <2> HIDE DEF Solves
    <2> QED BY <2>2
  <1>2. ASSUME NEW m \in Nat, m \in S PROVE m + 1 \in S
    <2>1. PICK f : Solves(f, m)
      BY <1>2
    <2>2. \A k \in 0 .. m : f[k] = IF k = 0 THEN base ELSE Next(k, f[k - 1])
      BY <2>1
    <2> DEFINE v == Next(m + 1, f[m])
               g == [k \in 0 .. m + 1 |-> IF k = m + 1 THEN v ELSE f[k]]
    <2>3. \A k \in 0 .. m + 1 : g[k] = IF k = m + 1 THEN v ELSE f[k]
      OBVIOUS
    <2>4. ASSUME NEW k \in 0 .. m + 1
          PROVE  g[k] = IF k = 0 THEN base ELSE Next(k, g[k - 1])
      <3>1. CASE k = 0
        <4>1. k \in 0 .. m /\ k # m + 1
          BY <3>1
        <4>2. g[k] = f[k]
          BY <2>3, <4>1
        <4>3. f[k] = base
          BY <2>2, <3>1, <4>1
        <4> QED BY <3>1, <4>2, <4>3
      <3>2. CASE k = m + 1
        <4>1. k # 0 /\ k - 1 = m /\ m \in 0 .. m + 1 /\ m # m + 1
          BY <3>2
        <4>2. g[m] = f[m] /\ g[k] = v
          BY <2>3, <3>2, <4>1
        <4> HIDE DEF g
        <4> QED BY <3>2, <4>1, <4>2
      <3>3. CASE k # 0 /\ k # m + 1
        <4>1. k \in 0 .. m /\ k - 1 \in 0 .. m + 1 /\ k - 1 # m + 1
          BY <3>3
        <4>2. g[k] = f[k] /\ g[k - 1] = f[k - 1]
          BY <2>3, <3>3, <4>1
        <4>3. f[k] = Next(k, f[k - 1])
          BY <2>2, <3>3, <4>1
        <4> HIDE DEF g
        <4> QED BY <3>3, <4>2, <4>3
      <3> QED BY <3>1, <3>2, <3>3
    <2>5. Solves(g, m + 1)
      <3>1. g = [k \in 0 .. m + 1 |-> g[k]]
        OBVIOUS
      <3> HIDE DEF g
      <3> QED BY <2>4, <3>1
    <2> HIDE DEF Solves
    <2>6. m + 1 \in Nat
      OBVIOUS
    <2> QED BY <2>5, <2>6
  <1>3. n \in S
    <2> HIDE DEF S
    <2>1. Nat \subseteq S
      BY <1>1, <1>2, Induction
    <2> QED BY <2>1
  <1> QED BY <1>3 DEF HasChain

-------------------------------------------------------------------------------
\* A list of numbers that go up.
Ascends(s) ==
  /\ IsList(s)
  /\ \A i \in 1 .. Len(s) : s[i] \in Nat
  /\ \A i, j \in 1 .. Len(s) : i < j => s[i] < s[j]
Members(s) == {s[i] : i \in 1 .. Len(s)}

\* It is given by the numbers in it.
LEMMA AscendingIsOne ==
  ASSUME NEW s, Ascends(s), NEW t, Ascends(t), Members(s) = Members(t)
  PROVE  s = t
  <1>1. /\ Len(s) \in Nat /\ Len(t) \in Nat
        /\ \A i \in 1 .. Len(s) : s[i] \in Nat
        /\ \A i \in 1 .. Len(t) : t[i] \in Nat
    BY DEF Ascends, IsList
  <1> DEFINE S == {k \in 0 .. Len(s) : k = 0 \/ (k <= Len(t) /\ s[k] = t[k])}
  <1>2. ASSUME NEW k \in 0 .. Len(s), 0 .. k - 1 \subseteq S PROVE k \in S
    <2>1. CASE k = 0
      BY <2>1
    <2>2. CASE k # 0
      <3>1. k \in 1 .. Len(s) /\ \A j \in 1 .. k - 1 : j <= Len(t) /\ s[j] = t[j]
        BY <1>1, <1>2, <2>2
      <3>2. PICK m \in 1 .. Len(t) : t[m] = s[k]
        BY <3>1 DEF Members
      <3>3. m >= k
        <4>1. SUFFICES ASSUME m < k PROVE FALSE
          BY <3>1, <3>2, <1>1
        <4>2. m \in 1 .. k - 1
          BY <4>1, <3>1, <3>2, <1>1
        <4>3. s[m] = t[m] /\ m \in 1 .. Len(s)
          BY <3>1, <4>2, <1>1
        <4>4. s[m] < s[k]
          BY <3>1, <4>1, <4>3 DEF Ascends
        <4> QED BY <1>1, <3>1, <3>2, <4>3, <4>4
      <3>4. k \in 1 .. Len(t)
        BY <1>1, <3>1, <3>2, <3>3
      <3>5. t[k] <= s[k]
        <4>1. m = k \/ t[k] < t[m]
          BY <3>2, <3>3, <3>4, <1>1 DEF Ascends
        <4> QED BY <1>1, <3>1, <3>2, <3>4, <4>1
      <3>6. PICK n \in 1 .. Len(s) : s[n] = t[k]
        BY <3>4 DEF Members
      <3>7. n >= k
        <4>1. SUFFICES ASSUME n < k PROVE FALSE
          BY <3>1, <3>6, <1>1
        <4>2. n \in 1 .. k - 1
          BY <4>1, <3>1, <3>6, <1>1
        <4>3. s[n] = t[n] /\ n \in 1 .. Len(t)
          BY <3>1, <4>2, <1>1
        <4>4. t[n] < t[k]
          BY <3>4, <4>1, <4>3 DEF Ascends
        <4> QED BY <1>1, <3>4, <3>6, <4>3, <4>4
      <3>8. s[k] <= t[k]
        <4>1. n = k \/ s[k] < s[n]
          BY <3>1, <3>6, <3>7, <1>1 DEF Ascends
        <4> QED BY <1>1, <3>1, <3>6, <3>4, <4>1
      <3> QED BY <1>1, <3>1, <3>4, <3>5, <3>8
    <2> QED BY <2>1, <2>2
  <1> HIDE DEF S
  <1>3. 0 .. Len(s) \subseteq S
    BY <1>1, <1>2, CourseOfValues
  <1>4. \A k \in 1 .. Len(s) : k <= Len(t) /\ s[k] = t[k]
    BY <1>1, <1>3 DEF S
  <1>5. Len(s) = Len(t)
    <2>1. Len(s) <= Len(t)
      BY <1>1, <1>4
    <2>2. ASSUME Len(s) < Len(t) PROVE FALSE
      <3>1. Len(s) + 1 \in 1 .. Len(t)
        BY <1>1, <2>2
      <3>2. PICK j \in 1 .. Len(s) : s[j] = t[Len(s) + 1]
        BY <3>1 DEF Members
      <3>3. j \in 1 .. Len(t) /\ t[j] = s[j] /\ j < Len(s) + 1
        BY <1>1, <1>4, <2>2
      <3>4. t[j] < t[Len(s) + 1]
        BY <3>1, <3>3 DEF Ascends
      <3> QED BY <1>1, <3>1, <3>2, <3>3, <3>4
    <2> QED BY <1>1, <2>1, <2>2
  <1> QED BY <1>1, <1>4, <1>5 DEF Ascends, IsList

\* What InOrder lists, and how it grows.
InOrderStep(S, k, before) == IF k \in S THEN Append(before, k) ELSE before

\* A chain of lists of numbers, from the empty one.
IsListChain(g, step, n) ==
  /\ g \in [0 .. n -> Seq(Nat)]
  /\ g = [k \in 0 .. n |-> IF k = 0 THEN <<>> ELSE step[<<k, g[k - 1]>>]]
LEMMA ListChain ==
  ASSUME NEW n \in Nat, NEW step, StaysIn(Seq(Nat), step, n)
  PROVE  \E g : IsListChain(g, step, n)
  <1> DEFINE V == Seq(Nat)
             x == <<>>
  <1>1. x \in V
    OBVIOUS
  <1>2. StaysIn(V, step, n)
    OBVIOUS
  <1> HIDE DEF V, x
  <1>3. PICK g \in [0 .. n -> V] : g = [k \in 0 .. n |-> IF k = 0 THEN x ELSE step[<<k, g[k - 1]>>]]
    BY <1>1, <1>2, ChainRecursion
  <1> QED BY <1>3 DEF IsListChain, V, x

\* InOrder goes through the numbers one by one.
LEMMA InOrderFollows ==
  ASSUME NEW S, NEW n \in Nat
  PROVE  \E h \in [0 .. n -> Seq(Nat)] :
           /\ InOrder(S, n) = h[n]
           /\ h[0] = <<>> /\ \A j \in 1 .. n : h[j] = InOrderStep(S, j, h[j - 1])
  <1> DEFINE Solves(g) ==
        g = [j \in 0 .. n |-> IF j = 0 THEN <<>>
                              ELSE IF j \in S THEN Append(g[j - 1], j) ELSE g[j - 1]]
             upto == CHOOSE g : Solves(g)
  <1>1. PICK step : \A j \in 1 .. n : \A v \in Seq(Nat) : step[<<j, v>>] = InOrderStep(S, j, v)
    <2> DEFINE f == [p \in (1 .. n) \X Seq(Nat) |-> InOrderStep(S, p[1], p[2])]
    <2>1. \A j \in 1 .. n : \A v \in Seq(Nat) : f[<<j, v>>] = InOrderStep(S, j, v)
      OBVIOUS
    <2> HIDE DEF f
    <2> QED BY <2>1
  <1>2. \A j \in 1 .. n : \A v \in Seq(Nat) : InOrderStep(S, j, v) \in Seq(Nat)
    BY DEF InOrderStep
  <1>3. StaysIn(Seq(Nat), step, n)
    BY <1>1, <1>2 DEF StaysIn
  <1>4. <<>> \in Seq(Nat)
    OBVIOUS
  <1>5. PICK g : IsListChain(g, step, n)
    BY <1>3, ListChain
  <1>6. \A j \in 0 .. n : j # 0 => j \in 1 .. n /\ g[j - 1] \in Seq(Nat)
    BY <1>5 DEF IsListChain
  <1>7. Solves(g)
    <2>1. \A j \in 0 .. n : g[j] = IF j = 0 THEN <<>>
                              ELSE IF j \in S THEN Append(g[j - 1], j) ELSE g[j - 1]
      BY <1>1, <1>5, <1>6 DEF InOrderStep, IsListChain
    <2> QED BY <2>1, <1>5 DEF IsListChain
  <1>8. Solves(upto)
    <2> HIDE DEF Solves
    <2> QED BY <1>7
  <1>9. InOrder(S, n) = upto[n]
    BY DEF InOrder
  <1> HIDE DEF upto
  <1>10. upto[0] = <<>> /\ \A j \in 1 .. n : upto[j] = InOrderStep(S, j, upto[j - 1])
    <2>1. \A j \in 0 .. n : upto[j] = IF j = 0 THEN <<>>
                              ELSE IF j \in S THEN Append(upto[j - 1], j) ELSE upto[j - 1]
      BY <1>8
    <2>2. 0 \in 0 .. n /\ \A j \in 1 .. n : j \in 0 .. n /\ j # 0
      OBVIOUS
    <2> QED BY <2>1, <2>2 DEF InOrderStep
  <1> DEFINE T == {j \in 0 .. n : upto[j] \in Seq(Nat)}
  <1>11. 0 \in T /\ \A j \in 1 .. n : j - 1 \in T => j \in T
    <2>1. ASSUME NEW j \in 1 .. n, upto[j - 1] \in Seq(Nat) PROVE upto[j] \in Seq(Nat)
      BY <1>2, <1>10, <2>1
    <2>2. 0 \in T
      <3>1. upto[0] = <<>> /\ 0 \in 0 .. n
        BY <1>10
      <3>2. upto[0] \in Seq(Nat)
        BY <3>1, <1>4
      <3> QED BY <3>1, <3>2
    <2>3. ASSUME NEW j \in 1 .. n, j - 1 \in T PROVE j \in T
      <3>1. upto[j] \in Seq(Nat)
        BY <2>1, <2>3
      <3> QED BY <3>1
    <2> QED BY <2>2, <2>3
  <1> HIDE DEF T
  <1>12. 0 .. n \subseteq T
    BY <1>11, InductionTo
  <1>13. upto \in [0 .. n -> Seq(Nat)]
    BY <1>8, <1>12 DEF T
  <1> QED BY <1>9, <1>10, <1>13

\* So each number is added to the list of those before it, or is not.
LEMMA InOrderGrows ==
  ASSUME NEW S, NEW n \in Nat
  PROVE  /\ InOrder(S, n) \in Seq(Nat)
         /\ InOrder(S, 0) = <<>>
         /\ n # 0 => InOrder(S, n) = InOrderStep(S, n, InOrder(S, n - 1))
  <1>1. PICK h \in [0 .. n -> Seq(Nat)] :
           /\ InOrder(S, n) = h[n]
           /\ h[0] = <<>> /\ \A j \in 1 .. n : h[j] = InOrderStep(S, j, h[j - 1])
    BY InOrderFollows
  <1>2. InOrder(S, 0) = <<>>
    BY InOrderFollows
  <1>3. ASSUME n # 0 PROVE InOrder(S, n - 1) = h[n - 1]
    <2>1. n - 1 \in Nat
      BY <1>3
    <2>2. PICK g \in [0 .. n - 1 -> Seq(Nat)] :
            /\ InOrder(S, n - 1) = g[n - 1]
            /\ g[0] = <<>> /\ \A j \in 1 .. n - 1 : g[j] = InOrderStep(S, j, g[j - 1])
      BY <2>1, InOrderFollows
    <2> DEFINE T == {j \in 0 .. n - 1 : g[j] = h[j]}
    <2>3. 0 \in T /\ \A j \in 1 .. n - 1 : j - 1 \in T => j \in T
      BY <1>1, <2>1, <2>2
    <2> HIDE DEF T
    <2>4. 0 .. n - 1 \subseteq T
      BY <2>1, <2>3, InductionTo
    <2> QED BY <2>1, <2>2, <2>4 DEF T
  <1> QED BY <1>1, <1>2, <1>3

\* What InOrder lists.
LEMMA InOrderLists ==
  ASSUME NEW S, NEW n \in Nat
  PROVE  /\ Ascends(InOrder(S, n))
         /\ Members(InOrder(S, n)) = S \cap (1 .. n)
  <1> DEFINE Good(k) == Ascends(InOrder(S, k)) /\ Members(InOrder(S, k)) = S \cap (1 .. k)
             T == {k \in 0 .. n : Good(k)}
  <1>1. 0 \in T
    BY InOrderGrows DEF Ascends, Members, IsList
  <1>2. ASSUME NEW k \in 1 .. n, k - 1 \in T PROVE k \in T
    <2> DEFINE s == InOrder(S, k - 1)
    <2>1. Ascends(s) /\ Members(s) = S \cap (1 .. k - 1)
      BY <1>2
    <2>2. InOrder(S, k) = InOrderStep(S, k, s)
      BY InOrderGrows
    <2> HIDE DEF s
    <2>3. CASE k \notin S
      <3>1. InOrder(S, k) = s
        BY <2>2, <2>3 DEF InOrderStep
      <3>2. S \cap (1 .. k) = S \cap (1 .. k - 1)
        BY <2>3
      <3> QED BY <2>1, <3>1, <3>2
    <2>4. CASE k \in S
      <3> DEFINE t == Append(s, k)
      <3>1. /\ IsList(t) /\ Len(t) = Len(s) + 1 /\ Len(s) \in Nat
            /\ \A i \in 1 .. Len(s) : t[i] = s[i]
            /\ t[Len(s) + 1] = k
        BY <2>1, ListAppend DEF Ascends, IsList
      <3> HIDE DEF t
      <3>2. \A i \in 1 .. Len(s) : s[i] \in 1 .. k - 1
        BY <2>1 DEF Members
      <3>3. Ascends(t)
        <4>1. \A i \in 1 .. Len(s) : s[i] \in Nat
          BY <2>1 DEF Ascends
        <4>2. \A i \in 1 .. Len(t) : t[i] \in Nat
          BY <3>1, <4>1
        <4>3. ASSUME NEW i \in 1 .. Len(t), NEW j \in 1 .. Len(t), i < j PROVE t[i] < t[j]
          <5>1. i \in 1 .. Len(s)
            BY <3>1, <4>3
          <5>2. CASE j = Len(s) + 1
            BY <3>1, <3>2, <5>1, <5>2
          <5>3. CASE j # Len(s) + 1
            <6>1. j \in 1 .. Len(s)
              BY <3>1, <5>3
            <6> QED BY <2>1, <3>1, <4>3, <5>1, <6>1 DEF Ascends
          <5> QED BY <5>2, <5>3
        <4> QED BY <3>1, <4>2, <4>3 DEF Ascends
      <3>4. Members(t) = Members(s) \cup {k}
        BY <3>1 DEF Members
      <3>5. Members(t) = S \cap (1 .. k)
        BY <2>1, <2>4, <3>4
      <3>6. InOrder(S, k) = t
        BY <2>2, <2>4 DEF InOrderStep, t
      <3> QED BY <3>3, <3>5, <3>6
    <2>5. Good(k)
      BY <2>3, <2>4
    <2> HIDE DEF Good
    <2> QED BY <2>5
  <1> HIDE DEF T
  <1>3. 0 .. n \subseteq T
    BY <1>1, <1>2, InductionTo
  <1> QED BY <1>3 DEF T

\* It depends on no other numbers.
LEMMA InOrderSame ==
  ASSUME NEW S, NEW T, NEW n \in Nat, S \cap (1 .. n) = T \cap (1 .. n)
  PROVE  InOrder(S, n) = InOrder(T, n)
  BY InOrderLists, AscendingIsOne
===============================================================================
