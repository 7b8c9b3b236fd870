--------------------------- MODULE InheritanceProofs ---------------------------
(***************************************************************************)
(* What is proved of the inheritance check, for every number of containers *)
(* and every base relation: it accepts exactly the acyclic ones, and the   *)
(* error it reports is a cycle.  The inductive invariant Marked says what  *)
(* the colours mean: in progress is the current walk, a path of bases; and *)
(* what is done is in no set of containers that extend each other.         *)
(***************************************************************************)
EXTENDS Inheritance, FiniteSetTheorems, SequenceTheorems, TLAPS

\* The chain is the path from start to cursor, and exactly it is in progress.
ChainIsPath ==
    /\ \A i, j \in DOMAIN chain : chain[i] = chain[j] => i = j
    /\ \A i \in DOMAIN chain :
          base[chain[i]] = IF i = Len(chain) THEN cursor ELSE chain[i + 1]
    /\ \A c \in Containers :
          marks[c] = "inProgress" <=> \E i \in DOMAIN chain : chain[i] = c
    /\ chain # <<>> => chain[1] = start
    /\ chain = <<>> /\ cursor # NoBase => cursor = start /\ marks[start] = "unvisited"
    /\ chain # <<>> \/ cursor # NoBase => start <= N

\* Every container before start has been dealt with.
EarlierAreDone == \A c \in Containers : c < start => marks[c] = "done"

\* Going up from a container that is done comes to an end.
DoneIsFounded ==
    \A S \in SUBSET Containers : Unfounded(S) => \A c \in S : marks[c] # "done"

\* An accepted database has been looked at to its last container.
AcceptedAtEnd == verdict = "acyclic" => start > N

Marked ==
    /\ TypeOK
    /\ ChainIsPath
    /\ EarlierAreDone
    /\ DoneIsFounded
    /\ AcceptedAtEnd
    /\ ReportIsCycle
-----------------------------------------------------------------------------
\* A set of places in a sequence has a last one.
LEMMA LastPlace ==
  ASSUME NEW n \in Nat, NEW S \in SUBSET (1..n), S # {}
  PROVE  \E i \in S : \A j \in S : j <= i
<1> DEFINE T == {n - i : i \in S}
<1>1. T \in SUBSET Nat /\ T # {}
  <2>1. \A i \in S : n - i \in Nat
    OBVIOUS
  <2>2. PICK i \in S : TRUE
    OBVIOUS
  <2>3. n - i \in T
    OBVIOUS
  <2> QED BY <2>1, <2>3
<1>2. PICK x \in T : \A y \in T : ~ (<<y, x>> \in OpToRel(<, Nat))
  <2> HIDE DEF T
  <2> QED BY <1>1, NatLessThanWellFounded, WFMin
<1>3. \A y \in T : ~ (y < x)
  BY <1>1, <1>2 DEF OpToRel
<1>4. PICK i \in S : x = n - i
  BY <1>2
<1>5. ASSUME NEW j \in S
      PROVE  j <= i
  <2>1. n - j \in T
    OBVIOUS
  <2>2. ~ (n - j < n - i)
    BY <1>3, <1>4, <2>1
  <2> QED BY <2>2
<1> QED BY <1>5

\* A walk that is over met nothing unfounded: its last container has no base
\* or one that is done, and so none of the containers before it either.
LEMMA ClosedWalkIsFounded ==
  ASSUME Marked, Close, NEW S \in SUBSET Containers, Unfounded(S)
  PROVE  \A i \in DOMAIN chain : chain[i] \notin S
<1> DEFINE P == {i \in DOMAIN chain : chain[i] \in S}
<1> SUFFICES ASSUME P # {} PROVE FALSE
  OBVIOUS
<1>1. chain \in Seq(Containers) /\ Len(chain) \in Nat /\ DOMAIN chain = 1..Len(chain)
  BY DEF Marked, TypeOK
<1>2. PICK i \in P : \A j \in P : j <= i
  <2>1. P \in SUBSET (1..Len(chain))
    BY <1>1
  <2> HIDE DEF P
  <2> QED BY <1>1, <2>1, LastPlace
<1>3. base[chain[i]] \in S
  BY <1>2 DEF Unfounded
<1>4. CASE i = Len(chain)
  <2>1. cursor \in S /\ cursor # NoBase
    BY <1>2, <1>3, <1>4 DEF Marked, ChainIsPath, Containers, NoBase
  <2>2. marks[cursor] = "done"
    BY <2>1 DEF Close
  <2> QED BY <2>1, <2>2 DEF Marked, DoneIsFounded
<1>5. CASE i # Len(chain)
  <2>1. i + 1 \in DOMAIN chain /\ chain[i + 1] \in S
    BY <1>1, <1>2, <1>3, <1>5 DEF Marked, ChainIsPath
  <2> QED BY <1>1, <1>2, <2>1
<1> QED BY <1>4, <1>5

\* The chain from where the cursor was met before is a cycle.
LEMMA RejectReports ==
  ASSUME Marked, Reject
  PROVE  ReportIsCycle'
<1>1. PICK first \in DOMAIN chain :
        /\ chain[first] = cursor
        /\ report' = SubSeq(chain, first, Len(chain))
  <2>1. OnChain(cursor)
    BY DEF Reject, Marked, TypeOK, ChainIsPath, OnChain
  <2> QED BY <2>1 DEF Reject
<1>2. chain \in Seq(Containers) /\ Len(chain) \in Nat /\ DOMAIN chain = 1..Len(chain)
  BY DEF Marked, TypeOK
<1> DEFINE n == Len(chain) - first + 1
<1>3. /\ n \in Nat /\ n >= 1 /\ Len(report') = n /\ DOMAIN report' = 1..n
      /\ \A i \in 1..n : report'[i] = chain[first + i - 1]
  BY <1>1, <1>2
<1>4. \A i \in 1..n : first + i - 1 \in DOMAIN chain
  BY <1>2
<1>5. \A i, j \in 1..n : report'[i] = report'[j] => i = j
  BY <1>2, <1>3, <1>4 DEF Marked, ChainIsPath
<1>6. ASSUME NEW i \in 1..n
      PROVE  base[report'[i]] = report'[IF i = n THEN 1 ELSE i + 1]
  <2> DEFINE k == first + i - 1
  <2>1. k \in DOMAIN chain /\ report'[i] = chain[k] /\ k \in Int /\ first \in Int
    BY <1>2, <1>3, <1>4
  <2>2. base[chain[k]] = IF k = Len(chain) THEN cursor ELSE chain[k + 1]
    BY <2>1 DEF Marked, ChainIsPath
  <2>3. CASE i = n
    <3>1. k = Len(chain) /\ report'[1] = chain[first]
      <4>1. k = Len(chain) /\ 1 \in 1..n /\ first + 1 - 1 = first
        BY <1>2, <1>3, <2>1, <2>3
      <4>2. report'[1] = chain[first + 1 - 1]
        BY <1>3, <4>1
      <4> QED BY <4>1, <4>2
    <3> HIDE DEF k, n
    <3> QED BY <1>1, <2>1, <2>2, <2>3, <3>1
  <2>4. CASE i # n
    <3>1. k # Len(chain) /\ i + 1 \in 1..n /\ report'[i + 1] = chain[k + 1]
      <4>1. k # Len(chain) /\ i + 1 \in 1..n /\ first + (i + 1) - 1 = k + 1
        BY <1>2, <1>3, <2>4
      <4>2. report'[i + 1] = chain[first + (i + 1) - 1]
        BY <1>3, <4>1
      <4> QED BY <4>1, <4>2
    <3> HIDE DEF k, n
    <3> QED BY <2>1, <2>2, <2>4, <3>1
  <2> QED BY <2>3, <2>4
<1>7. base' = base /\ report' # <<>>
  BY <1>3 DEF Reject
<1> QED
  BY <1>3, <1>5, <1>6, <1>7 DEF ReportIsCycle

\* A mark that only the current walk gets disturbs nothing else.
LEMMA VisitKeeps ==
  ASSUME Marked, Visit
  PROVE  Marked'
<1>1. /\ chain \in Seq(Containers) /\ Len(chain) \in Nat /\ DOMAIN chain = 1..Len(chain)
      /\ cursor \in Containers /\ marks \in [Containers -> {"unvisited", "inProgress", "done"}]
      /\ marks[cursor] = "unvisited"
  BY DEF Marked, TypeOK, Visit
<1>2. /\ marks' = [marks EXCEPT ![cursor] = "inProgress"]
      /\ chain' = Append(chain, cursor)
      /\ cursor' = base[cursor]
      /\ UNCHANGED <<base, start, verdict, report>>
  BY DEF Visit
<1>3. /\ chain' \in Seq(Containers) /\ Len(chain') = Len(chain) + 1
      /\ DOMAIN chain' = 1..(Len(chain) + 1)
      /\ \A i \in 1..Len(chain) : chain'[i] = chain[i]
      /\ chain'[Len(chain) + 1] = cursor
  BY <1>1, <1>2
<1>4. \A i \in DOMAIN chain : chain[i] # cursor
  BY <1>1 DEF Marked, ChainIsPath
<1>5. TypeOK'
  BY <1>1, <1>2, <1>3 DEF Marked, TypeOK
<1>6. ChainIsPath'
  <2>1. \A i, j \in DOMAIN chain' : chain'[i] = chain'[j] => i = j
    BY <1>1, <1>3, <1>4 DEF Marked, ChainIsPath
  <2>2. ASSUME NEW i \in DOMAIN chain'
        PROVE  base'[chain'[i]] =
                 IF i = Len(chain') THEN cursor' ELSE chain'[i + 1]
    <3>1. CASE i = Len(chain) + 1
      BY <1>2, <1>3, <3>1
    <3>2. CASE i = Len(chain)
      <4>1. i \in DOMAIN chain /\ base[chain[i]] = cursor
        BY <1>1, <1>3, <2>2, <3>2 DEF Marked, ChainIsPath
      <4> QED BY <1>1, <1>2, <1>3, <3>2, <4>1
    <3>3. CASE i < Len(chain)
      <4>1. i \in DOMAIN chain /\ base[chain[i]] = chain[i + 1] /\ i + 1 \in 1..Len(chain)
        BY <1>1, <1>3, <2>2, <3>3 DEF Marked, ChainIsPath
      <4> QED BY <1>1, <1>2, <1>3, <3>3, <4>1
    <3> QED BY <1>1, <1>3, <3>1, <3>2, <3>3
  <2>3. \A c \in Containers :
          marks'[c] = "inProgress" <=> \E i \in DOMAIN chain' : chain'[i] = c
    <3>1. \A c \in Containers : marks[c] = "inProgress" <=>
            \E i \in 1..Len(chain) : chain[i] = c
      BY <1>1 DEF Marked, ChainIsPath
    <3>2. \A c \in Containers :
            (\E i \in DOMAIN chain' : chain'[i] = c) <=>
            (c = cursor \/ \E i \in 1..Len(chain) : chain[i] = c)
      BY <1>1, <1>3
    <3>3. \A c \in Containers : marks'[c] = "inProgress" <=>
            (c = cursor \/ marks[c] = "inProgress")
      BY <1>1, <1>2
    <3> QED BY <3>1, <3>2, <3>3
  <2>4. chain'[1] = start' /\ start' <= N /\ chain' # <<>>
    <3>1. CASE chain = <<>>
      BY <1>1, <1>2, <1>3, <3>1 DEF Marked, ChainIsPath, Containers, NoBase, NAssumption
    <3>2. CASE chain # <<>>
      BY <1>1, <1>2, <1>3, <3>2 DEF Marked, ChainIsPath
    <3> QED BY <3>1, <3>2
  <2> QED BY <2>1, <2>2, <2>3, <2>4 DEF ChainIsPath
<1>7. EarlierAreDone'
  BY <1>1, <1>2 DEF Marked, EarlierAreDone
<1>8. DoneIsFounded'
  <2>1. \A c \in Containers : marks'[c] = "done" => marks[c] = "done"
    BY <1>1, <1>2
  <2> QED BY <1>2, <2>1 DEF Marked, DoneIsFounded, Unfounded
<1>9. AcceptedAtEnd' /\ ReportIsCycle'
  BY <1>2 DEF Marked, AcceptedAtEnd, ReportIsCycle
<1> QED
  BY <1>5, <1>6, <1>7, <1>8, <1>9 DEF Marked

\* Closing a walk turns all of it from in progress to done.
LEMMA CloseKeeps ==
  ASSUME Marked, Close
  PROVE  Marked'
<1>1. /\ chain \in Seq(Containers) /\ Len(chain) \in Nat /\ DOMAIN chain = 1..Len(chain)
      /\ marks \in [Containers -> {"unvisited", "inProgress", "done"}]
      /\ start \in Nat
  BY DEF Marked, TypeOK
<1>2. /\ \A c \in Containers :
            marks'[c] = IF \E i \in DOMAIN chain : chain[i] = c THEN "done" ELSE marks[c]
      /\ marks' \in [Containers -> {"unvisited", "inProgress", "done"}]
      /\ start' = start + 1 /\ chain' = <<>> /\ cursor' = NoBase
      /\ UNCHANGED <<base, verdict, report>>
  BY <1>1 DEF Close, OnChain
<1>3. chain # <<>> /\ start <= N /\ chain[1] = start /\ 1 \in DOMAIN chain
  <2>1. chain # <<>>
    BY DEF Close, Walking, Marked, ChainIsPath
  <2> QED
    BY <1>1, <2>1 DEF Marked, ChainIsPath
<1>4. TypeOK'
  BY <1>1, <1>2, <1>3, NAssumption DEF Marked, TypeOK
<1>5. ChainIsPath'
  <2>1. \A c \in Containers : marks'[c] # "inProgress"
    BY <1>2 DEF Marked, ChainIsPath
  <2> QED
    BY <1>2, <2>1 DEF ChainIsPath
<1>6. EarlierAreDone'
  BY <1>1, <1>2, <1>3 DEF Marked, EarlierAreDone, Containers
<1>7. DoneIsFounded'
  <2> SUFFICES ASSUME NEW S \in SUBSET Containers, Unfounded(S), NEW c \in S
               PROVE  marks'[c] # "done"
    BY <1>2 DEF DoneIsFounded, Unfounded
  <2>1. ~ \E i \in DOMAIN chain : chain[i] = c
    BY ClosedWalkIsFounded
  <2> QED
    BY <1>2, <2>1 DEF Marked, DoneIsFounded
<1>8. AcceptedAtEnd' /\ ReportIsCycle'
  BY <1>1, <1>2 DEF Marked, AcceptedAtEnd, ReportIsCycle, Close, Walking
<1> QED
  BY <1>4, <1>5, <1>6, <1>7, <1>8 DEF Marked

\* What the steps between two walks and the last ones keep.
LEMMA OthersKeep ==
  ASSUME Marked, Skip \/ Begin \/ Reject \/ Accept \/ UNCHANGED vars
  PROVE  Marked'
<1>1. /\ chain \in Seq(Containers) /\ Len(chain) \in Nat /\ DOMAIN chain = 1..Len(chain)
      /\ start \in Nat
  BY DEF Marked, TypeOK
<1>2. CASE Skip
  <2>1. marks[start] = "done" /\ start \in Containers
    BY <1>1, <1>2, NAssumption
       DEF Skip, BetweenWalks, Marked, TypeOK, ChainIsPath, Containers
  <2>2. /\ start' = start + 1 /\ start <= N /\ verdict = "pending"
        /\ UNCHANGED <<base, marks, chain, cursor, verdict, report>>
        /\ chain = <<>> /\ cursor = NoBase
    BY <1>2 DEF Skip, BetweenWalks
  <2>3. TypeOK'
    BY <1>1, <2>2, NAssumption DEF Marked, TypeOK
  <2>4. ChainIsPath'
    BY <2>2 DEF Marked, ChainIsPath
  <2>5. EarlierAreDone'
    BY <1>1, <2>1, <2>2 DEF Marked, EarlierAreDone, Containers
  <2>6. (DoneIsFounded /\ AcceptedAtEnd /\ ReportIsCycle)'
    BY <2>2 DEF Marked, DoneIsFounded, Unfounded, AcceptedAtEnd, ReportIsCycle
  <2> QED
    BY <2>3, <2>4, <2>5, <2>6 DEF Marked
<1>3. CASE Begin
  <2>1. /\ cursor' = start /\ start <= N /\ marks[start] = "unvisited" /\ chain = <<>>
        /\ UNCHANGED <<base, marks, start, chain, verdict, report>>
        /\ start \in Containers /\ cursor = NoBase
    BY <1>1, <1>3, NAssumption DEF Begin, BetweenWalks, Containers, Marked, TypeOK
  <2>2. TypeOK'
    BY <2>1 DEF Marked, TypeOK
  <2>3. ChainIsPath'
    <3>1. DOMAIN chain = {}
      BY <1>1, <2>1
    <3> QED BY <2>1, <3>1 DEF Marked, ChainIsPath
  <2>4. (EarlierAreDone /\ DoneIsFounded /\ AcceptedAtEnd /\ ReportIsCycle)'
    BY <2>1 DEF Marked, EarlierAreDone, DoneIsFounded, Unfounded, AcceptedAtEnd,
       ReportIsCycle
  <2> QED
    BY <2>2, <2>3, <2>4 DEF Marked
<1>4. CASE Reject
  <2>1. report' \in Seq(Containers)
    <3>1. PICK first \in DOMAIN chain : report' = SubSeq(chain, first, Len(chain))
      BY <1>4 DEF Reject
    <3> QED BY <1>1, <3>1
  <2>2. TypeOK'
    BY <1>4, <2>1 DEF Reject, Marked, TypeOK
  <2>3. ReportIsCycle'
    BY <1>4, RejectReports
  <2> QED
    BY <1>4, <2>2, <2>3 DEF Reject, Marked, ChainIsPath, EarlierAreDone, DoneIsFounded,
       Unfounded, AcceptedAtEnd
<1>5. CASE Accept
  BY <1>1, <1>5 DEF Accept, BetweenWalks, Marked, TypeOK, ChainIsPath, EarlierAreDone,
     DoneIsFounded, Unfounded, AcceptedAtEnd, ReportIsCycle
<1>6. CASE UNCHANGED vars
  BY <1>6 DEF vars, Marked, TypeOK, ChainIsPath, EarlierAreDone, DoneIsFounded,
     Unfounded, AcceptedAtEnd, ReportIsCycle
<1> QED
  BY <1>2, <1>3, <1>4, <1>5, <1>6

LEMMA InitMarks == Init => Marked
<1> SUFFICES ASSUME Init PROVE Marked
  OBVIOUS
<1>1. chain = <<>> /\ DOMAIN chain = {} /\ chain \in Seq(Containers)
      /\ report \in Seq(Containers)
  BY DEF Init
<1> QED
  BY <1>1, NAssumption DEF Init, Marked, TypeOK, ChainIsPath, EarlierAreDone,
     DoneIsFounded, AcceptedAtEnd, ReportIsCycle, Containers, NoBase

LEMMA IsMarked == Safety => []Marked
<1>1. ASSUME Marked, [Next]_vars
      PROVE  Marked'
  BY <1>1, VisitKeeps, CloseKeeps, OthersKeep DEF Next
<1> QED
  BY <1>1, InitMarks, PTL DEF Safety
-----------------------------------------------------------------------------
\* The walk keeps to containers there are: an identifier the check follows,
\* marks or reports is always one of the database's.
THEOREM InheritanceTyping == Spec => []TypeOK
<1>1. Marked => TypeOK
  BY DEF Marked
<1> QED
  BY <1>1, IsMarked, PTL DEF Spec

\* The error of check_acyclic names a cycle, each container once.
THEOREM ReportedChainIsCycle == Spec => []ReportIsCycle
<1>1. Marked => ReportIsCycle
  BY DEF Marked
<1> QED
  BY <1>1, IsMarked, PTL DEF Spec

\* check_acyclic accepts the databases without a cycle and refuses those with
\* one, whatever the other walks have marked before.
THEOREM CheckIsExact == Spec => []VerdictIsRight
<1>1. ASSUME Marked, verdict = "acyclic"
      PROVE  ~ Cyclic
  <2>1. \A c \in Containers : marks[c] = "done"
    BY <1>1, NAssumption DEF Marked, AcceptedAtEnd, EarlierAreDone, Containers, TypeOK
  <2> QED
    BY <1>1, <2>1 DEF Marked, DoneIsFounded, Cyclic, Unfounded
<1>2. ASSUME Marked, verdict = "cycle"
      PROVE  Cyclic
  <2> DEFINE S == {report[i] : i \in DOMAIN report}
  <2>1. report \in Seq(Containers) /\ Len(report) \in Nat
        /\ DOMAIN report = 1..Len(report) /\ report # <<>>
    BY <1>2 DEF Marked, TypeOK, ReportIsCycle
  <2>2. S \in SUBSET Containers /\ report[1] \in S
    BY <2>1
  <2>3. \A i \in DOMAIN report : base[report[i]] \in S
    <3>1. \A i \in DOMAIN report : (IF i = Len(report) THEN 1 ELSE i + 1) \in DOMAIN report
      BY <2>1
    <3> QED BY <1>2, <3>1 DEF Marked, ReportIsCycle
  <2> QED
    BY <2>2, <2>3 DEF Cyclic, Unfounded
<1>3. Marked => VerdictIsRight
  BY <1>1, <1>2 DEF VerdictIsRight
<1> QED
  BY <1>3, IsMarked, PTL DEF Spec

\* Containers of which each has an inheritor among them would each have its
\* base among them, there being no more bases than inheritors: so they are
\* unfounded, and an accepted database has none.
THEOREM DescentIsFounded == Spec => []DescentEnds
<1>1. ASSUME VerdictIsRight, TypeOK, verdict = "acyclic",
             NEW S \in SUBSET Containers, S # {},
             \A c \in S : Inheritors(c) \intersect S # {}
      PROVE  FALSE
  <2> DEFINE heir == [c \in S |-> CHOOSE d \in S : base[d] = c]
  <2>1. \A c \in S : heir[c] \in S /\ base[heir[c]] = c
    BY <1>1 DEF Inheritors
  <2>2. heir \in Injection(S, S)
    <3>1. heir \in [S -> S]
      BY <2>1
    <3> HIDE DEF heir
    <3> QED BY <2>1, <3>1 DEF Injection, IsInjective
  <2>3. IsFiniteSet(S)
    <3>1. IsFiniteSet(Containers)
      BY NAssumption, FS_Interval DEF Containers
    <3> QED BY <3>1, FS_Subset
  <2>4. heir \in Surjection(S, S)
    <3> HIDE DEF heir
    <3> QED BY <2>2, <2>3, FS_Injection
  <2>5. \A d \in S : \E c \in S : heir[c] = d
    <3> HIDE DEF heir
    <3> QED BY <2>4 DEF Surjection
  <2>6. \A d \in S : base[d] \in S
    <3> HIDE DEF heir
    <3> QED BY <2>1, <2>5
  <2> QED BY <1>1, <2>6 DEF VerdictIsRight, Cyclic, Unfounded
<1>2. VerdictIsRight /\ TypeOK => DescentEnds
  <2> SUFFICES ASSUME VerdictIsRight, TypeOK, verdict = "acyclic",
                      NEW S \in (SUBSET Containers) \ {{}}
               PROVE  \E c \in S : Inheritors(c) \intersect S = {}
    BY DEF DescentEnds
  <2>1. S \in SUBSET Containers /\ S # {}
    OBVIOUS
  <2>2. ASSUME \A c \in S : Inheritors(c) \intersect S # {} PROVE FALSE
    BY <1>1, <2>1, <2>2
  <2> QED BY <2>2
<1> QED
  BY <1>2, CheckIsExact, InheritanceTyping, PTL
=============================================================================
