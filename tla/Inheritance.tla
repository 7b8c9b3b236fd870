------------------------------ MODULE Inheritance ------------------------------
(***************************************************************************)
(* The last two passes of the loader over the containers                   *)
(* (crates/xtce-model/src/lower.rs): link_inheritors turns the base of     *)
(* every container into the inheritors of its base, and check_acyclic      *)
(* rejects a database in which a container extends itself, directly or     *)
(* through others.  The check walks up from every container in turn and    *)
(* shares one table of marks between the walks.                            *)
(*                                                                         *)
(* Containers are their identifiers, 1..N here and counted from 0 in the   *)
(* code.  Every base is the identifier of a container: names have been     *)
(* resolved, or refused, before.                                           *)
(***************************************************************************)
EXTENDS Integers, Sequences

CONSTANT N    \* the number of containers

ASSUME NAssumption == N \in Nat

Containers == 1..N
NoBase == 0

VARIABLES
    base,      \* the base of each container, or NoBase
    marks,     \* the colour of each container
    start,     \* the container the current walk began at
    chain,     \* the containers of the current walk, in order
    cursor,    \* the container to look at next, NoBase past the root
    verdict,   \* "pending", then "acyclic" or "cycle"
    report     \* the chain of the InheritanceCycle error

vars == <<base, marks, start, chain, cursor, verdict, report>>
-----------------------------------------------------------------------------
Init ==
    /\ base \in [Containers -> Containers \union {NoBase}]
    /\ marks = [c \in Containers |-> "unvisited"]
    /\ start = 1
    /\ chain = <<>>
    /\ cursor = NoBase
    /\ verdict = "pending"
    /\ report = <<>>

BetweenWalks == verdict = "pending" /\ chain = <<>> /\ cursor = NoBase

Walking == verdict = "pending" /\ (chain # <<>> \/ cursor # NoBase)

OnChain(c) == \E i \in DOMAIN chain : chain[i] = c

\* Mutant: the loop skips a container without going on to the next.
SkipStays ==
    /\ BetweenWalks
    /\ start <= N
    /\ marks[start] # "unvisited"
    /\ UNCHANGED vars

\* A container some walk has been to is not started from.
Skip ==
    /\ BetweenWalks
    /\ start <= N
    /\ marks[start] # "unvisited"
    /\ start' = start + 1
    /\ UNCHANGED <<base, marks, chain, cursor, verdict, report>>

Begin ==
    /\ BetweenWalks
    /\ start <= N
    /\ marks[start] = "unvisited"
    /\ cursor' = start
    /\ UNCHANGED <<base, marks, start, chain, verdict, report>>

\* Mutant: two colours are thought enough.
VisitAsDone ==
    /\ Walking
    /\ cursor # NoBase
    /\ marks[cursor] = "unvisited"
    /\ marks' = [marks EXCEPT ![cursor] = "done"]
    /\ chain' = Append(chain, cursor)
    /\ cursor' = base[cursor]
    /\ UNCHANGED <<base, start, verdict, report>>

\* A container not seen before: on to its base.
Visit ==
    /\ Walking
    /\ cursor # NoBase
    /\ marks[cursor] = "unvisited"
    /\ marks' = [marks EXCEPT ![cursor] = "inProgress"]
    /\ chain' = Append(chain, cursor)
    /\ cursor' = base[cursor]
    /\ UNCHANGED <<base, start, verdict, report>>

\* Mutant: the error names the whole walk.
RejectWhole ==
    /\ Walking
    /\ cursor # NoBase
    /\ marks[cursor] = "inProgress"
    /\ report' = chain
    /\ verdict' = "cycle"
    /\ UNCHANGED <<base, marks, start, chain, cursor>>

\* The walk has come to a container in progress, so one of its own: the error
\* names the part of the chain that begins there (all of it, were it missing).
Reject ==
    /\ Walking
    /\ cursor # NoBase
    /\ marks[cursor] = "inProgress"
    /\ \E first \in DOMAIN chain :
          /\ chain[first] = cursor \/ (first = 1 /\ ~ OnChain(cursor))
          /\ \A i \in 1..(first - 1) : chain[i] # cursor
          /\ report' = SubSeq(chain, first, Len(chain))
    /\ verdict' = "cycle"
    /\ UNCHANGED <<base, marks, start, chain, cursor>>

\* Mutant: a walk that ends leaves its marks as they are.
CloseUnmarked ==
    /\ Walking
    /\ cursor # NoBase => marks[cursor] = "done"
    /\ start' = start + 1
    /\ chain' = <<>>
    /\ cursor' = NoBase
    /\ UNCHANGED <<base, marks, verdict, report>>

\* The walk has come to a root, or to where an earlier walk has been.
Close ==
    /\ Walking
    /\ cursor # NoBase => marks[cursor] = "done"
    /\ marks' = [c \in Containers |->
                    IF OnChain(c) THEN "done" ELSE marks[c]]
    /\ start' = start + 1
    /\ chain' = <<>>
    /\ cursor' = NoBase
    /\ UNCHANGED <<base, verdict, report>>

Accept ==
    /\ BetweenWalks
    /\ start > N
    /\ verdict' = "acyclic"
    /\ UNCHANGED <<base, marks, start, chain, cursor, report>>

Next == Skip \/ Begin \/ Visit \/ Reject \/ Close \/ Accept

Safety == Init /\ [][Next]_vars

\* The check is a loop of one thread, it goes on until it returns.
Spec == Safety /\ WF_vars(Next)

\* link_inheritors: the inheritors of a container; their order is no matter
\* here.
Inheritors(b) == {c \in Containers : base[c] = b}
-----------------------------------------------------------------------------
\* A set of containers that all extend one of the set.  Upwards from any of
\* them there is no end, so one exists exactly when inheritance is cyclic.
Unfounded(S) == S # {} /\ \A c \in S : base[c] \in S

Cyclic == \E S \in SUBSET Containers : Unfounded(S)

\* Type correctness.
TypeOK ==
    /\ base \in [Containers -> Containers \union {NoBase}]
    /\ marks \in [Containers -> {"unvisited", "inProgress", "done"}]
    /\ start \in 1..(N + 1)
    /\ chain \in Seq(Containers)
    /\ cursor \in Containers \union {NoBase}
    /\ verdict \in {"pending", "acyclic", "cycle"}
    /\ report \in Seq(Containers)

\* check_acyclic answers what its documentation says: it refuses exactly the
\* databases in which some container extends itself through others.
VerdictIsRight ==
    /\ verdict = "acyclic" => ~ Cyclic
    /\ verdict = "cycle" => Cyclic

\* The chain of the error is the cycle and nothing but it: no container in it
\* twice, each extends the next one, and the last one the first.
ReportIsCycle ==
    verdict = "cycle" =>
        /\ report # <<>>
        /\ \A i, j \in DOMAIN report : report[i] = report[j] => i = j
        /\ \A i \in DOMAIN report :
              base[report[i]] = report[IF i = Len(report) THEN 1 ELSE i + 1]

\* What the decoder's termination rests on: in an accepted database going from
\* container to inheritor ends, whichever inheritor is chosen.
DescentEnds ==
    verdict = "acyclic" =>
        \A S \in (SUBSET Containers) \ {{}} :
            \E c \in S : Inheritors(c) \intersect S = {}

\* The check comes to a verdict on any database.
CheckReturns == <>(verdict # "pending")
=============================================================================
