---------------------------- MODULE InternerProofs ----------------------------
(***************************************************************************)
(* What is proved of the interner, for every set of names, every hash      *)
(* function and every range of capacities.  The inductive invariant        *)
(* Indexed says that the buckets hold every name placed so far, once, each *)
(* reachable by its probe, and that the load stays below the size.  From   *)
(* it: both loops end, no name is lost or listed twice, and the interner   *)
(* implements the plain list of NameTable.                                 *)
(***************************************************************************)
EXTENDS Interner, FiniteSetTheorems, SequenceTheorems, TLAPS

\* The load: growing is checked before a name is added, so one name more
\* than the threshold allows is the most there can be.
LoadIsBounded ==
    /\ size = 0 => spans = <<>> /\ call = NoCall
    /\ size # 0 => 8 * Len(spans) < 5 * size + 8
    /\ call # NoCall => size # 0 /\ 8 * Len(spans) < 5 * size

\* The inductive invariant.
Indexed ==
    /\ TypeOK
    /\ NamesAreDistinct
    /\ BucketsAreDistinct
    /\ NamesAreReachable
    /\ LoadIsBounded

-----------------------------------------------------------------------------
\* A capacity there is needs no rounding.
LEMMA RoundingKeeps ==
  ASSUME NEW c \in Capacities
  PROVE  RoundedUp(c) = c
<1>1. /\ c >= c
      /\ \A d \in Capacities : d >= c => c <= d
  BY CapacitiesAssumption
<1>2. \A e \in Capacities :
         e >= c /\ (\A d \in Capacities : d >= c => e <= d) => e = c
  BY <1>1, CapacitiesAssumption
<1> QED
  BY <1>1, <1>2 DEF RoundedUp

\* What a size other than 0 is.
LEMMA SizeFacts ==
  ASSUME TypeOK, size # 0
  PROVE  size \in Nat /\ size >= 4 /\ size \in Capacities
BY CapacitiesAssumption DEF TypeOK

\* The home of a name is a bucket.
LEMMA HomeIsBucket ==
  ASSUME NEW name \in Names, size \in Nat, size >= 4
  PROVE  Home(name) \in 0..(size - 1)
<1>1. Hash[name] \in Nat
  BY NamesAssumption
<1> QED
  BY <1>1 DEF Home

\* Every step of a probe sees a bucket, and the probe sees every bucket.
LEMMA ProbeCovers ==
  ASSUME size \in Nat, NEW home \in 0..(size - 1)
  PROVE  /\ \A d \in 0..(size - 1) : Slot(home, d) \in 0..(size - 1)
         /\ \A d, e \in 0..(size - 1) : Slot(home, d) = Slot(home, e) => d = e
         /\ \A j \in 0..(size - 1) : \E d \in 0..(size - 1) : Slot(home, d) = j
<1>1. \A d \in 0..(size - 1) : Slot(home, d) \in 0..(size - 1)
  BY DEF Slot
<1>2. \A d, e \in 0..(size - 1) : Slot(home, d) = Slot(home, e) => d = e
  BY DEF Slot
<1>3. ASSUME NEW j \in 0..(size - 1)
      PROVE  \E d \in 0..(size - 1) : Slot(home, d) = j
  <2>1. CASE j >= home
    <3>1. j - home \in 0..(size - 1) /\ Slot(home, j - home) = j
      BY <2>1 DEF Slot
    <3> QED BY <3>1
  <2>2. CASE j < home
    <3>1. j - home + size \in 0..(size - 1) /\ Slot(home, j - home + size) = j
      BY <2>2 DEF Slot
    <3> QED BY <3>1
  <2> QED BY <2>1, <2>2
<1> QED BY <1>1, <1>2, <1>3

\* Fewer names placed than buckets, none placed twice: a bucket is empty.
LEMMA SomeBucketIsEmpty ==
  ASSUME Indexed, size # 0
  PROVE  \E j \in 0..(size - 1) : bucket[j] = 0
<1>1. size \in Nat /\ size >= 4
  BY SizeFacts DEF Indexed
<1>2. Placed \in Nat /\ Placed <= Len(spans) /\ Len(spans) \in Nat
  BY NamesAssumption DEF Indexed, TypeOK, Placed
<1>3. Placed < size
  BY <1>1, <1>2 DEF Indexed, LoadIsBounded
<1> SUFFICES ASSUME \A j \in 0..(size - 1) : bucket[j] # 0
             PROVE  FALSE
  OBVIOUS
<1>4. bucket \in [0..(size - 1) -> 1..Placed]
  BY <1>2 DEF Indexed, TypeOK
<1>5. bucket \in Injection(0..(size - 1), 1..Placed)
  BY <1>4 DEF Injection, IsInjective, Indexed, BucketsAreDistinct
<1>6. IsFiniteSet(1..Placed) /\ Cardinality(1..Placed) = Placed
  BY <1>2, FS_Interval
<1>7. Cardinality(0..(size - 1)) = size
  BY <1>1, FS_Interval
<1>8. Cardinality(0..(size - 1)) <= Cardinality(1..Placed)
  BY <1>5, <1>6, FS_Injection
<1> QED
  BY <1>3, <1>6, <1>7, <1>8, <1>1, <1>2

\* Among steps of a probe there is always a first one.
LEMMA FirstStep ==
  ASSUME NEW S \in SUBSET Nat, S # {}
  PROVE  \E d \in S : \A e \in 0..(d - 1) : e \notin S
<1>1. \E x \in S : \A y \in S : ~ (<<y, x>> \in OpToRel(<, Nat))
  BY NatLessThanWellFounded, WFMin
<1>2. PICK x \in S : \A y \in S : ~ (<<y, x>> \in OpToRel(<, Nat))
  BY <1>1
<1>3. ASSUME NEW e \in 0..(x - 1), e \in S
      PROVE  FALSE
  <2>1. e \in Nat /\ x \in Nat /\ e < x
    BY <1>3
  <2>2. <<e, x>> \in OpToRel(<, Nat)
    BY <2>1 DEF OpToRel
  <2> QED BY <1>2, <1>3, <2>2
<1> QED BY <1>2, <1>3

\* Whatever is asked for, the probe meets a bucket it stops at, and a name
\* being put back meets an empty one.
LEMMA BothLoopsEnd ==
  ASSUME Indexed, size # 0, NEW name \in Names
  PROVE  /\ \E d \in 0..(size - 1) : ProbeEnds(name, d)
         /\ \E d \in 0..(size - 1) : RebuildEnds(name, d)
<1>1. size \in Nat /\ size >= 4 /\ Home(name) \in 0..(size - 1)
  BY SizeFacts, HomeIsBucket DEF Indexed
<1>2. PICK j \in 0..(size - 1) : bucket[j] = 0
  BY SomeBucketIsEmpty
<1>3. PICK d \in 0..(size - 1) : Seen(name, d) = 0
  <2>1. \E d \in 0..(size - 1) : Slot(Home(name), d) = j
    BY <1>1, ProbeCovers
  <2> QED BY <1>2, <2>1 DEF Seen
<1>4. \E f \in 0..(size - 1) : ProbeEnds(name, f)
  <2> DEFINE S == {f \in 0..(size - 1) : Stops(name, f)}
  <2>1. d \in S
    BY <1>3 DEF Stops
  <2>2. PICK f \in S : \A e \in 0..(f - 1) : e \notin S
    <3>1. S \in SUBSET Nat /\ S # {}
      BY <2>1, <1>1
    <3> HIDE DEF S
    <3> QED BY <3>1, FirstStep
  <2>3. \A e \in 0..(f - 1) : e \in 0..(size - 1)
    BY <1>1
  <2> QED BY <2>2, <2>3 DEF ProbeEnds
<1>5. \E f \in 0..(size - 1) : RebuildEnds(name, f)
  <2> DEFINE S == {f \in 0..(size - 1) : Seen(name, f) = 0}
  <2>1. d \in S
    BY <1>3
  <2>2. PICK f \in S : \A e \in 0..(f - 1) : e \notin S
    <3>1. S \in SUBSET Nat /\ S # {}
      BY <2>1, <1>1
    <3> HIDE DEF S
    <3> QED BY <3>1, FirstStep
  <2>3. \A e \in 0..(f - 1) : e \in 0..(size - 1)
    BY <1>1
  <2> QED BY <2>2, <2>3 DEF RebuildEnds
<1> QED BY <1>4, <1>5

\* Where the probe for a name stops: at the name, or at an empty bucket, and
\* then the name is not among those placed.
LEMMA ProbeIsRight ==
  ASSUME Indexed, NEW name \in Names, NEW d \in 0..(size - 1), ProbeEnds(name, d)
  PROVE  /\ Seen(name, d) # 0 => /\ Seen(name, d) \in DOMAIN spans
                                 /\ spans[Seen(name, d)] = name
         /\ Seen(name, d) = 0 => \A i \in 1..Placed : spans[i] # name
         /\ Seen(name, d) = 0 => RebuildEnds(name, d)
<1>1. Seen(name, d) # 0 => /\ Seen(name, d) \in DOMAIN spans
                           /\ spans[Seen(name, d)] = name
  BY NamesAssumption DEF ProbeEnds, Stops, Resolve
<1>2. Placed <= Len(spans) /\ Placed \in Nat /\ DOMAIN spans = 1..Len(spans)
      /\ Len(spans) \in Nat
  BY NamesAssumption DEF Indexed, TypeOK, Placed
<1>3. ASSUME Seen(name, d) = 0, NEW i \in 1..Placed, spans[i] = name
      PROVE  FALSE
  <2>1. PICK f \in 0..(size - 1) : /\ Seen(name, f) = i
                                   /\ \A e \in 0..(f - 1) : Seen(name, e) # 0
    BY <1>3 DEF Indexed, NamesAreReachable
  <2>2. Stops(name, f)
    BY <2>1, <1>2, <1>3 DEF Stops, Resolve
  <2>3. ~ (d < f)
    BY <2>1, <1>3
  <2>4. ~ (f < d)
    BY <2>2 DEF ProbeEnds
  <2>5. f # d
    BY <2>1, <1>3
  <2> QED BY <2>3, <2>4, <2>5
<1>4. Seen(name, d) = 0 => RebuildEnds(name, d)
  BY DEF ProbeEnds, Stops, RebuildEnds
<1> QED BY <1>1, <1>3, <1>4

\* The next name put into the first empty bucket its probe sees: it can be
\* found, and so can every name that was there before.
LEMMA Placing ==
  ASSUME Indexed, size # 0, size' = size, NEW name \in Names,
         NEW d \in 0..(size - 1), RebuildEnds(name, d),
         bucket' = [bucket EXCEPT ![Slot(Home(name), d)] = Placed + 1],
         Placed' = Placed + 1,
         \A i \in 1..Placed : spans'[i] = spans[i] /\ spans[i] \in Names,
         spans'[Placed + 1] = name
  PROVE  /\ bucket' \in [0..(size' - 1) -> 0..Placed']
         /\ BucketsAreDistinct'
         /\ NamesAreReachable'
<1>1. size \in Nat /\ size >= 4 /\ Placed \in Nat
  BY SizeFacts, NamesAssumption DEF Indexed, TypeOK, Placed
<1>2. bucket \in [0..(size - 1) -> 0..Placed]
  BY DEF Indexed, TypeOK
<1> DEFINE at == Slot(Home(name), d)
<1>3. at \in 0..(size - 1) /\ bucket[at] = 0
  BY <1>1, HomeIsBucket, ProbeCovers DEF RebuildEnds, Seen
<1>4. /\ bucket' = [bucket EXCEPT ![at] = Placed + 1]
      /\ Placed' = Placed + 1
  OBVIOUS
<1>5. bucket' \in [0..(size' - 1) -> 0..Placed']
  BY <1>1, <1>2, <1>3, <1>4
<1>6. /\ bucket'[at] = Placed + 1
      /\ \A j \in 0..(size - 1) : j # at => bucket'[j] = bucket[j]
  BY <1>2, <1>3, <1>4
<1>7. BucketsAreDistinct'
  BY <1>1, <1>2, <1>3, <1>6 DEF Indexed, BucketsAreDistinct
<1>8. ASSUME NEW i \in 1..Placed
      PROVE  \E f \in 0..(size - 1) :
                /\ bucket'[Slot(Home(spans'[i]), f)] = i
                /\ \A e \in 0..(f - 1) : bucket'[Slot(Home(spans'[i]), e)] # 0
  <2>1. spans'[i] = spans[i] /\ spans[i] \in Names
    OBVIOUS
  <2>2. PICK f \in 0..(size - 1) : /\ Seen(spans[i], f) = i
                                   /\ \A e \in 0..(f - 1) : Seen(spans[i], e) # 0
    BY DEF Indexed, NamesAreReachable
  <2>3. \A e \in 0..(size - 1) : Slot(Home(spans[i]), e) \in 0..(size - 1)
    BY <1>1, <2>1, HomeIsBucket, ProbeCovers
  <2>4. \A e \in 0..(size - 1) : bucket[Slot(Home(spans[i]), e)] # 0 =>
            bucket'[Slot(Home(spans[i]), e)] = bucket[Slot(Home(spans[i]), e)]
    BY <2>3, <1>3, <1>6
  <2>5. \A e \in 0..(f - 1) : e \in 0..(size - 1)
    BY <1>1
  <2> HIDE DEF at
  <2> QED BY <2>1, <2>2, <2>4, <2>5, <1>1 DEF Seen
<1>9. /\ bucket'[Slot(Home(name), d)] = Placed + 1
       /\ \A e \in 0..(d - 1) : bucket'[Slot(Home(name), e)] # 0
  <2>1. \A e \in 0..(size - 1) : Slot(Home(name), e) \in 0..(size - 1)
    BY <1>1, HomeIsBucket, ProbeCovers
  <2>2. \A e \in 0..(d - 1) : e \in 0..(size - 1) /\ bucket[Slot(Home(name), e)] # 0
    BY <1>1 DEF RebuildEnds, Seen
  <2> QED BY <2>1, <2>2, <1>3, <1>6
<1>10. ASSUME NEW i \in 1..Placed'
       PROVE  \E f \in 0..(size' - 1) :
                /\ Seen(spans[i], f)' = i
                /\ \A e \in 0..(f - 1) : Seen(spans[i], e)' # 0
  <2>1. i \in 1..Placed \/ i = Placed + 1
    BY <1>1, <1>4
  <2>2. spans'[i] \in Names
    BY <2>1
  <2>3. \A e : Seen(spans[i], e)' = bucket'[Slot(Home(spans'[i]), e)]
    BY DEF Seen, Slot, Home
  <2> HIDE DEF at
  <2> QED BY <2>1, <2>3, <1>8, <1>9
<1> QED
  BY <1>5, <1>7, <1>10 DEF NamesAreReachable
-----------------------------------------------------------------------------
\* The probe of intern keeps the index, whether it finds the name or adds it.
LEMMA SettleKeeps ==
  ASSUME Indexed, size # 0, NEW name \in Names, 8 * Len(spans) < 5 * size,
         Placed = Len(spans), size' = size, call' = NoCall, Settle(name)
  PROVE  Indexed' /\ Table!TableNext
<1>1. PICK d \in 0..(size - 1) :
        /\ ProbeEnds(name, d)
        /\ \/ /\ Seen(name, d) # 0
              /\ Answer(name, Seen(name, d))
              /\ UNCHANGED <<spans, bucket>>
           \/ /\ Seen(name, d) = 0
              /\ spans' = Append(spans, name)
              /\ bucket' = [bucket EXCEPT ![Slot(Home(name), d)] = Len(spans) + 1]
              /\ Answer(name, Len(spans) + 1)
  BY DEF Settle
<1>2. /\ size \in Nat /\ size >= 4 /\ size \in Capacities
      /\ spans \in Seq(Names) /\ Len(spans) \in Nat /\ DOMAIN spans = 1..Len(spans)
      /\ Placed' = Len(spans')
  BY SizeFacts DEF Indexed, TypeOK, Placed
<1>3. CASE Seen(name, d) # 0
  <2>1. reply' = [name |-> name, slot |-> Seen(name, d)] /\ UNCHANGED <<spans, bucket>>
    BY <1>1, <1>3 DEF Answer
  <2>2. Seen(name, d) \in 1..Len(spans) /\ spans[Seen(name, d)] = name
    BY <1>1, <1>2, <1>3, ProbeIsRight
  <2>3. TypeOK'
    BY <1>2, <2>1, <2>2 DEF TypeOK, Indexed
  <2>4. (NamesAreDistinct /\ BucketsAreDistinct)'
    BY <2>1 DEF Indexed, NamesAreDistinct, BucketsAreDistinct
  <2>5. NamesAreReachable'
    BY <2>1, <1>2 DEF Indexed, NamesAreReachable, Seen, Slot, Home
  <2>6. LoadIsBounded'
    BY <2>1, <1>2 DEF LoadIsBounded
  <2>7. Table!Known(name)
    BY <1>2, <2>1, <2>2 DEF Table!Known
  <2> QED
    BY <2>3, <2>4, <2>5, <2>6, <2>7 DEF Indexed, Table!TableNext
<1>4. CASE Seen(name, d) = 0
  <2>1. /\ spans' = Append(spans, name)
        /\ bucket' = [bucket EXCEPT ![Slot(Home(name), d)] = Placed + 1]
        /\ reply' = [name |-> name, slot |-> Len(spans) + 1]
    BY <1>1, <1>4 DEF Answer
  <2>2. /\ spans' \in Seq(Names) /\ Len(spans') = Len(spans) + 1
        /\ DOMAIN spans' = 1..(Len(spans) + 1)
        /\ \A i \in 1..Len(spans) : spans'[i] = spans[i] /\ spans[i] \in Names
        /\ spans'[Len(spans) + 1] = name
    BY <1>2, <2>1
  <2>3. /\ \A i \in 1..Placed : spans[i] # name
        /\ RebuildEnds(name, d)
    BY <1>1, <1>4, ProbeIsRight
  <2>4. /\ bucket' \in [0..(size' - 1) -> 0..Placed']
        /\ BucketsAreDistinct'
        /\ NamesAreReachable'
    BY <1>2, <2>1, <2>2, <2>3, Placing
  <2>5. TypeOK'
    BY <1>2, <2>1, <2>2, <2>4 DEF TypeOK, Indexed
  <2>6. NamesAreDistinct'
    BY <1>2, <2>2, <2>3 DEF Indexed, NamesAreDistinct
  <2>7. LoadIsBounded'
    BY <1>2, <2>2 DEF LoadIsBounded
  <2>8. Table!Added(name)
    BY <1>2, <2>1, <2>3 DEF Table!Added, Table!Has
  <2> QED
    BY <2>4, <2>5, <2>6, <2>7, <2>8 DEF Indexed, Table!TableNext
<1> QED
  BY <1>1, <1>3, <1>4

\* A fresh table is empty, and the names are all still to be put back.
LEMMA GrowKeeps ==
  ASSUME Indexed, NEW name \in Names, Grow(name)
  PROVE  Indexed'
<1> DEFINE capacity == IF size = 0 THEN MinBuckets ELSE size * 2
<1>1. capacity \in Capacities /\ size' = RoundedUp(capacity)
      /\ bucket' = [j \in 0..(size' - 1) |-> 0]
  BY CapacitiesAssumption DEF Grow, NewTable
<1>2. size' = capacity /\ size' \in Capacities /\ size' \in Nat /\ size' >= 4
  <2> HIDE DEF capacity
  <2> QED BY <1>1, RoundingKeeps, CapacitiesAssumption
<1>3. /\ call' = [name |-> name, next |-> 1] /\ UNCHANGED <<spans, reply>>
      /\ call' # NoCall
  BY NamesAssumption DEF Grow
<1>4. Placed' = 0
  BY <1>3 DEF Placed
<1>5. spans \in Seq(Names) /\ Len(spans) \in Nat
  BY DEF Indexed, TypeOK
<1>6. TypeOK'
  BY <1>1, <1>2, <1>3, <1>4, <1>5 DEF Indexed, TypeOK
<1>7. NamesAreDistinct'
  BY <1>3 DEF Indexed, NamesAreDistinct
<1>8. BucketsAreDistinct' /\ NamesAreReachable'
  BY <1>1, <1>4 DEF BucketsAreDistinct, NamesAreReachable
<1>9. LoadIsBounded'
  <2>1. size = 0 => Len(spans) = 0
    BY DEF Indexed, LoadIsBounded
  <2>2. size # 0 => size \in Nat /\ size >= 4
    BY SizeFacts DEF Indexed
  <2> QED
    BY <1>2, <1>3, <1>5, <2>1, <2>2 DEF Indexed, LoadIsBounded
<1> QED
  BY <1>6, <1>7, <1>8, <1>9 DEF Indexed

\* One name more is back.
LEMMA RebuildKeeps ==
  ASSUME Indexed, Rebuild
  PROVE  Indexed'
<1> DEFINE i == call.next
           name == spans[i]
<1>1. /\ call # NoCall /\ size # 0 /\ i \in 1..Len(spans) /\ name \in Names
      /\ spans \in Seq(Names) /\ Len(spans) \in Nat /\ Placed = i - 1
  BY DEF Indexed, TypeOK, LoadIsBounded, Rebuild, Placed
<1>2. PICK d \in 0..(size - 1) :
        RebuildEnds(name, d) /\ bucket' = [bucket EXCEPT ![Slot(Home(name), d)] = i]
  BY DEF Rebuild
<1>3. /\ call' = [name |-> call.name, next |-> i + 1] /\ call.name \in Names
      /\ UNCHANGED <<spans, size, reply>>
      /\ call' # NoCall
  <2>1. call \in [name : Names, next : 1..(Len(spans) + 1)]
    BY <1>1 DEF Indexed, TypeOK
  <2>2. call' = [call EXCEPT !.next = @ + 1]
    BY DEF Rebuild
  <2>3. call' = [name |-> call.name, next |-> i + 1]
    BY <2>1, <2>2
  <2>4. call' \in [name : Names, next : Nat]
    BY <2>1, <2>3, <1>1
  <2> QED
    BY <2>1, <2>3, <2>4, NamesAssumption DEF Rebuild
<1>4. Placed' = i
  BY <1>1, <1>3 DEF Placed
<1>5. /\ bucket' \in [0..(size' - 1) -> 0..Placed']
      /\ BucketsAreDistinct'
      /\ NamesAreReachable'
  <2>1. \A k \in 1..Placed : spans'[k] = spans[k] /\ spans[k] \in Names
    BY <1>1, <1>3
  <2>2. bucket' = [bucket EXCEPT ![Slot(Home(name), d)] = Placed + 1]
    <3>1. i = Placed + 1
      BY <1>1
    <3> QED BY <1>2, <3>1
  <2>3. Placed' = Placed + 1 /\ spans'[Placed + 1] = name
    BY <1>1, <1>3, <1>4
  <2> HIDE DEF name, i
  <2> QED
    BY <1>1, <1>2, <1>3, <2>1, <2>2, <2>3, Placing
<1>6. TypeOK'
  <2>1. call' \in [name : Names, next : 1..(Len(spans') + 1)]
    BY <1>1, <1>3
  <2> QED
    BY <1>3, <1>5, <2>1 DEF Indexed, TypeOK
<1>7. NamesAreDistinct' /\ LoadIsBounded'
  BY <1>1, <1>3 DEF Indexed, NamesAreDistinct, LoadIsBounded
<1> QED
  BY <1>5, <1>6, <1>7 DEF Indexed

\* Looking a name up changes no table, and answers as the list would.
LEMMA GetKeeps ==
  ASSUME Indexed, NEW name \in Names, Get(name)
  PROVE  Indexed' /\ Table!TableNext
<1>1. /\ call = NoCall /\ UNCHANGED <<spans, size, bucket, call>>
      /\ Placed = Len(spans) /\ spans \in Seq(Names) /\ Len(spans) \in Nat
      /\ DOMAIN spans = 1..Len(spans)
  BY DEF Get, Placed, Indexed, TypeOK
<1>2. \E slot \in 0..Len(spans) :
         /\ reply' = [name |-> name, slot |-> slot]
         /\ slot # 0 => spans[slot] = name
         /\ slot = 0 => \A i \in DOMAIN spans : spans[i] # name
  <2>1. CASE size = 0
    BY <1>1, <2>1 DEF Get, Answer, Indexed, LoadIsBounded
  <2>2. CASE size # 0
    <3>1. PICK d \in 0..(size - 1) : ProbeEnds(name, d) /\ Answer(name, Seen(name, d))
      BY <2>2 DEF Get
    <3>2. /\ Seen(name, d) # 0 => /\ Seen(name, d) \in DOMAIN spans
                                  /\ spans[Seen(name, d)] = name
          /\ Seen(name, d) = 0 => \A i \in 1..Placed : spans[i] # name
      BY <3>1, ProbeIsRight
    <3> QED BY <1>1, <3>1, <3>2 DEF Answer
  <2> QED BY <2>1, <2>2
<1>3. TypeOK'
  BY <1>1, <1>2 DEF Indexed, TypeOK, Placed
<1>4. (NamesAreDistinct /\ BucketsAreDistinct /\ NamesAreReachable /\ LoadIsBounded)'
  BY <1>1 DEF Indexed, NamesAreDistinct, BucketsAreDistinct, NamesAreReachable,
     LoadIsBounded, Placed, Seen, Slot, Home
<1>5. Table!TableNext
  BY <1>1, <1>2 DEF Table!TableNext, Table!Known, Table!Unknown, Table!Has
<1> QED
  BY <1>3, <1>4, <1>5 DEF Indexed

\* The index holds of the empty table, whatever its size.
LEMMA InitIndexes == Init => Indexed
<1> SUFFICES ASSUME Init PROVE Indexed
  OBVIOUS
<1>1. spans = <<>> /\ Len(spans) = 0 /\ call = NoCall /\ Placed = 0
      /\ spans \in Seq(Names)
  BY DEF Init, Placed
<1>2. size = 0 \/ (size \in Nat /\ size >= 4)
  BY CapacitiesAssumption DEF Init
<1>3. TypeOK
  BY <1>1, <1>2 DEF Init, TypeOK
<1> QED
  BY <1>1, <1>2, <1>3 DEF Init, Indexed, NamesAreDistinct, BucketsAreDistinct,
     NamesAreReachable, LoadIsBounded

\* Every step keeps the index, and is a step of the list of names or none.
LEMMA StepIndexes ==
  ASSUME Indexed, [Next]_vars
  PROVE  Indexed' /\ [Table!TableNext]_(Table!tableVars)
<1>1. ASSUME NEW name \in Names, Intern(name)
      PROVE  Indexed' /\ Table!TableNext
  <2>1. size # 0 /\ 8 * Len(spans) < 5 * size /\ Placed = Len(spans)
    <3>1. call = NoCall /\ ~ IsFull /\ Len(spans) \in Nat
      BY <1>1 DEF Intern, Indexed, TypeOK
    <3>2. size \in Nat
      BY CapacitiesAssumption DEF Indexed, TypeOK
    <3> QED BY <3>1, <3>2 DEF IsFull, Placed
  <2>2. Settle(name) /\ size' = size /\ call' = NoCall
    BY <1>1 DEF Intern
  <2> QED BY <2>1, <2>2, SettleKeeps
<1>2. ASSUME NEW name \in Names, Grow(name)
      PROVE  Indexed' /\ UNCHANGED <<spans, reply>>
  BY <1>2, GrowKeeps DEF Grow
<1>3. ASSUME NEW name \in Names, Get(name)
      PROVE  Indexed' /\ Table!TableNext
  BY <1>3, GetKeeps
<1>4. ASSUME Rebuild
      PROVE  Indexed' /\ UNCHANGED <<spans, reply>>
  BY <1>4, RebuildKeeps DEF Rebuild
<1>5. ASSUME FinishIntern
      PROVE  Indexed' /\ Table!TableNext
  <2>1. /\ size # 0 /\ 8 * Len(spans) < 5 * size /\ call.name \in Names
        /\ Placed = Len(spans)
    BY <1>5 DEF FinishIntern, Indexed, TypeOK, LoadIsBounded, Placed
  <2>2. Settle(call.name) /\ size' = size /\ call' = NoCall
    BY <1>5 DEF FinishIntern
  <2> QED BY <2>1, <2>2, SettleKeeps
<1>6. ASSUME UNCHANGED vars
      PROVE  Indexed' /\ UNCHANGED <<spans, reply>>
  BY <1>6 DEF vars, Indexed, TypeOK, NamesAreDistinct, BucketsAreDistinct,
     NamesAreReachable, LoadIsBounded, Placed, Seen, Slot, Home
<1> QED
  BY <1>1, <1>2, <1>3, <1>4, <1>5, <1>6 DEF Next, Table!tableVars

LEMMA IsIndexed == Safety => []Indexed
<1> QED
  BY InitIndexes, StepIndexes, PTL DEF Safety
-----------------------------------------------------------------------------
\* The interner's state is well typed: no bucket ever holds a place that has
\* no name, not even while resize_buckets is refilling them.
THEOREM InternerTyping == Spec => []TypeOK
<1>1. Indexed => TypeOK
  BY DEF Indexed
<1> QED
  BY <1>1, IsIndexed, PTL DEF Spec

\* Interning is canonical (NameId's documentation): equal strings have equal
\* handles, whatever the hashes and however often the table has grown.
THEOREM InterningIsCanonical == Spec => []NamesAreDistinct
<1>1. Indexed => NamesAreDistinct
  BY DEF Indexed
<1> QED
  BY <1>1, IsIndexed, PTL DEF Spec

\* Every interned name is found again: linear probing leaves no gap before
\* it, and resize_buckets puts every name back.
THEOREM NothingIsLost == Spec => [](NamesAreReachable /\ BucketsAreDistinct)
<1>1. Indexed => NamesAreReachable /\ BucketsAreDistinct
  BY DEF Indexed
<1> QED
  BY <1>1, IsIndexed, PTL DEF Spec

\* The probe of intern and get, and the search of resize_buckets, always meet
\* the bucket they look for: the load factor keeps one empty.
THEOREM ProbingTerminates == Spec => []LoopsEnd
<1>1. ASSUME Indexed
      PROVE  LoopsEnd
  <2>1. ASSUME call # NoCall, call.next <= Len(spans)
        PROVE  size # 0 /\ spans[call.next] \in Names
    BY <1>1, <2>1 DEF Indexed, TypeOK, LoadIsBounded
  <2> QED
    BY <1>1, <2>1, BothLoopsEnd DEF LoopsEnd
<1> QED
  BY <1>1, IsIndexed, PTL DEF Spec

\* Seen from outside the interner is a list of distinct names: intern and get
\* answer as NameTable does, and a rebuild is not observable.
THEOREM InternerImplementsTable == Spec => AnswersAsTable
<1>1. Init => Table!TableInit
  BY DEF Init, Table!TableInit
<1>2. Indexed /\ [Next]_vars => [Table!TableNext]_(Table!tableVars)
  BY StepIndexes
<1> QED
  BY <1>1, <1>2, IsIndexed, PTL DEF Spec, Safety, AnswersAsTable, Table!TableSpec
=============================================================================
