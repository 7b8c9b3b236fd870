------------------------------- MODULE Interner -------------------------------
(***************************************************************************)
(* The string interner (crates/xtce-model/src/intern.rs): an open-         *)
(* addressing table with linear probing over an append-only list of names. *)
(* A bucket holds 0 when it is empty and id + 1 otherwise, so with TLA+'s  *)
(* sequences, which count from 1, a bucket holds the place of a name in    *)
(* spans.  Text is abstract: a name is an element of Names with a hash of  *)
(* its own, and two names may well have the same one.                      *)
(*                                                                         *)
(* A call of intern that has to grow the table takes several steps, one    *)
(* for each name put back, so that the loop can be reasoned about; the     *)
(* call holds the table exclusively and nothing else happens meanwhile.    *)
(***************************************************************************)
EXTENDS Integers, Sequences

CONSTANTS
    Names,        \* the strings callers may intern or look up
    Hash,         \* hash_str: a number for every name
    Capacities,   \* the bucket counts the allocator can serve, powers of two
    MinBuckets,   \* the smallest of them, 16 in the code
    NoName, NoCall

ASSUME NamesAssumption ==
    /\ NoName \notin Names
    /\ Hash \in [Names -> Nat]
    /\ NoCall \notin [name : Names, next : Nat]

ASSUME CapacitiesAssumption ==
    /\ Capacities \subseteq Nat
    /\ MinBuckets \in Capacities
    /\ MinBuckets >= 4
    /\ \A c \in Capacities : MinBuckets <= c /\ \E k \in 0..c : c = 2 ^ k

VARIABLES
    spans,    \* the distinct names in the order they were interned
    size,     \* buckets.len()
    bucket,   \* the buckets, indexed from 0
    call,     \* the intern call that is rebuilding the table, and how far it is
    reply     \* what the last finished call was asked and answered

vars == <<spans, size, bucket, call, reply>>

Table == INSTANCE NameTable WITH names <- spans
-----------------------------------------------------------------------------
\* capacity.max(16).next_power_of_two()
RoundedUp(capacity) ==
    CHOOSE c \in Capacities :
        /\ c >= capacity
        /\ \A d \in Capacities : d >= capacity => c <= d

\* Mutant: the table grows when it can hold no more.
IsFullWhenOver == Len(spans) > size

\* The table is due to grow: five eighths of it, or more, are taken.
IsFull == Len(spans) * 8 >= size * 5

\* Where a probe for a name starts.  The mask keeps the low bits of the hash.
Home(name) == Hash[name] % size

\* Where a probe that started at home is after d steps: (index + 1) & mask.
Slot(home, d) == IF home + d < size THEN home + d ELSE home + d - size

\* The bucket after d steps of the probe for a name.
Seen(name, d) == bucket[Slot(Home(name), d)]

\* The name a bucket's content stands for.
Resolve(slot) == IF slot \in DOMAIN spans THEN spans[slot] ELSE NoName

\* Mutant: equal hashes are taken for equal names.
StopsAtHash(name, d) ==
    \/ Seen(name, d) = 0
    \/ \E other \in Names : Resolve(Seen(name, d)) = other /\ Hash[other] = Hash[name]

\* The probe goes past a bucket that holds another name.
Stops(name, d) == Seen(name, d) = 0 \/ Resolve(Seen(name, d)) = name

\* The probe for a name comes to rest after d steps.
ProbeEnds(name, d) ==
    /\ Stops(name, d)
    /\ \A e \in 0..(d - 1) : ~Stops(name, e)

\* Mutant: the rebuild does not probe.
RebuildEndsAtHome(name, d) == d = 0

\* The rebuild puts a name into the first empty bucket it sees.
RebuildEnds(name, d) ==
    /\ Seen(name, d) = 0
    /\ \A e \in 0..(d - 1) : Seen(name, e) # 0

NewTable(capacity) ==
    /\ size' = RoundedUp(capacity)
    /\ bucket' = [j \in 0..(size' - 1) |-> 0]

Answer(name, slot) == reply' = [name |-> name, slot |-> slot]
-----------------------------------------------------------------------------
\* Interner::default has no buckets, with_capacity at least MinBuckets.
Init ==
    /\ spans = <<>>
    /\ size \in Capacities \union {0}
    /\ bucket = [j \in 0..(size - 1) |-> 0]
    /\ call = NoCall
    /\ reply = [name |-> NoName, slot |-> 0]

\* The probe of intern, and what follows it: the name is there already, or it
\* is added to the list and to the empty bucket the probe came to rest at.
Settle(name) ==
    \E d \in 0..(size - 1) :
        /\ ProbeEnds(name, d)
        /\ \/ /\ Seen(name, d) # 0
              /\ Answer(name, Seen(name, d))
              /\ UNCHANGED <<spans, bucket>>
           \/ /\ Seen(name, d) = 0
              /\ spans' = Append(spans, name)
              /\ bucket' = [bucket EXCEPT ![Slot(Home(name), d)] = Len(spans) + 1]
              /\ Answer(name, Len(spans) + 1)

\* intern, when the table need not grow.
Intern(name) ==
    /\ call = NoCall
    /\ ~IsFull
    /\ Settle(name)
    /\ UNCHANGED <<size, call>>

\* intern, when the table has no buckets yet or is full: whether the name is
\* new has not been looked at.  A capacity the allocator has not is the bound.
Grow(name) ==
    /\ call = NoCall
    /\ IsFull
    /\ IF size = 0 THEN NewTable(MinBuckets)
                   ELSE size * 2 \in Capacities /\ NewTable(size * 2)
    /\ call' = [name |-> name, next |-> 1]
    /\ UNCHANGED <<spans, reply>>

\* One round of the loop of resize_buckets.
Rebuild ==
    /\ call # NoCall
    /\ call.next <= Len(spans)
    /\ \E d \in 0..(size - 1) :
          /\ RebuildEnds(spans[call.next], d)
          /\ bucket' = [bucket EXCEPT ![Slot(Home(spans[call.next]), d)] = call.next]
    /\ call' = [call EXCEPT !.next = @ + 1]
    /\ UNCHANGED <<spans, size, reply>>

\* intern goes on with its probe once the table is rebuilt.
FinishIntern ==
    /\ call # NoCall
    /\ call.next > Len(spans)
    /\ Settle(call.name)
    /\ call' = NoCall
    /\ UNCHANGED size

\* get: no buckets, nothing found; otherwise the probe of intern decides.
Get(name) ==
    /\ call = NoCall
    /\ IF size = 0 THEN Answer(name, 0)
                   ELSE \E d \in 0..(size - 1) :
                            ProbeEnds(name, d) /\ Answer(name, Seen(name, d))
    /\ UNCHANGED <<spans, size, bucket, call>>

Next ==
    \/ \E name \in Names : Intern(name) \/ Grow(name) \/ Get(name)
    \/ Rebuild
    \/ FinishIntern

Safety == Init /\ [][Next]_vars

\* A call that has begun runs on: its caller waits for it.
Spec == Safety /\ WF_vars(Rebuild \/ FinishIntern)
-----------------------------------------------------------------------------
\* The names the buckets are meant to hold: all of them, or during a rebuild
\* those already put back.
Placed == IF call = NoCall THEN Len(spans) ELSE call.next - 1

\* Type correctness; every bucket holds a name that is due to be there.
TypeOK ==
    /\ spans \in Seq(Names)
    /\ size \in Capacities \union {0}
    /\ bucket \in [0..(size - 1) -> 0..Placed]
    /\ call \in {NoCall} \union [name : Names, next : 1..(Len(spans) + 1)]
    /\ reply \in [name : Names \union {NoName}, slot : 0..Len(spans)]

\* A name has one handle: no name is in the list twice, even when it was
\* interned again while the table was full or had just been rebuilt.
NamesAreDistinct ==
    \A i, j \in DOMAIN spans : spans[i] = spans[j] => i = j

\* No name is in two buckets.
BucketsAreDistinct ==
    \A j, k \in 0..(size - 1) : bucket[j] = bucket[k] /\ bucket[j] # 0 => j = k

\* No name is lost: the probe for a name in the table passes only taken
\* buckets before it meets the name, across the table's end if need be.
NamesAreReachable ==
    \A i \in 1..Placed :
        \E d \in 0..(size - 1) :
            /\ Seen(spans[i], d) = i
            /\ \A e \in 0..(d - 1) : Seen(spans[i], e) # 0

\* Neither loop of the code can circle a full table: whatever the next probe
\* or the next round of the rebuild looks for, it comes to rest.
LoopsEnd ==
    /\ size # 0 => \A name \in Names : \E d \in 0..(size - 1) : ProbeEnds(name, d)
    /\ call # NoCall /\ call.next <= Len(spans) =>
          \E d \in 0..(size - 1) : RebuildEnds(spans[call.next], d)

\* The interner answers as the plain list of names would.
AnswersAsTable == Table!TableSpec

=============================================================================
