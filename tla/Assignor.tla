------------------------------ MODULE Assignor ------------------------------
(***************************************************************************)
(* The range and the round-robin balance strategies of a consumer group    *)
(* (balanceStrategy and roundRobinBalancer in balance_strategy.go).  A     *)
(* behaviour is one call of Plan by the group leader.  Member ids are      *)
(* numbers; a member lists its topics in a sequence, in which a topic may  *)
(* occur twice.  The topics of the call are the ones some member lists     *)
(* (consumerGroup.balance collects them from the members).                 *)
(***************************************************************************)
EXTENDS Integers, FiniteSets, FiniteSetsExt, Sequences, SequencesExt

CONSTANTS
  Members,        \* member ids (numbers)
  Topics,         \* topic names (numbers)
  MaxPartitions,  \* bound on the partitions of a topic
  MaxListed       \* bound on the topics a member lists

ASSUME AssignorAssumption ==
  /\ Members \subseteq Nat /\ IsFiniteSet(Members) /\ Members # {}
  /\ Topics \subseteq Nat /\ IsFiniteSet(Topics)
  /\ MaxPartitions \in Nat /\ MaxListed \in Nat

VARIABLES
  strategy,       \* which Plan is called
  listed,         \* meta.Topics of each member
  parts,          \* the number of partitions of each topic
  todo,           \* topics (range) or partitions (round robin) to go
  at,             \* the loop variable i of round robin, modulo the members
  plan,           \* the partitions each member gets
  pc

vars == <<strategy, listed, parts, todo, at, plan, pc>>

Lists(m) == ToSet(listed[m])

AllListed == UNION {Lists(m) : m \in Members}

PartitionsOf(t) == {<<t, p>> : p \in 0..(parts[t] - 1)}

Init ==
  /\ strategy \in {"range", "roundrobin"}
  /\ listed \in [Members -> BoundedSeq(Topics, MaxListed)]
  /\ parts \in [Topics -> 1..MaxPartitions]
  /\ todo = {} /\ at = 0
  /\ plan = [m \in Members |-> {}]
  /\ pc = "plan"

-----------------------------------------------------------------------------
(* Range.                                                                  *)

\* The sorted list in which member m occurs once for every time it lists t.
MembersByTopic(t) ==
  FlattenSeq([i \in 1..Cardinality(Members) |->
                LET m == SetToSortSeq(Members, <)[i]
                IN [j \in 1..Len(SelectSeq(listed[m], LAMBDA u : u = t)) |-> m]])

\* Faulty variant: duplicates are not removed.
uniqNot(ss) == ss

\* uniq: the elements that differ from the last one kept are swapped forward.
uniq(ss) ==
  LET Keep(acc, i) ==
        IF acc.ss[i] = acc.ss[acc.j] THEN acc
        ELSE [ss |-> [acc.ss EXCEPT ![acc.j + 1] = acc.ss[i], ![i] = acc.ss[acc.j + 1]],
              j  |-> acc.j + 1]
      all == FoldLeft(Keep, [ss |-> ss, j |-> 1], [i \in 1..(Len(ss) - 1) |-> i + 1])
  IN IF Len(ss) < 2 THEN ss ELSE SubSeq(all.ss, 1, all.j)

\* The slice of n partitions that the i-th of k members gets starts at
\* RangeMin (counted from 0) and ends before RangeMax.
RangeMin(i, n, k) == i * (n \div k) + (IF n % k < i THEN n % k ELSE i)

RangeMax(i, n, k) == RangeMin(i, n, k) + (n \div k) + (IF i < n % k THEN 1 ELSE 0)

\* Plan of the range strategy calls coreFn once for every listed topic.
PlanRange ==
  /\ pc = "plan" /\ strategy = "range"
  /\ plan' = [m \in Members |->
       UNION {LET ids == uniq(MembersByTopic(t))
              IN UNION {{<<t, p>> : p \in RangeMin(i - 1, parts[t], Len(ids))
                                       ..(RangeMax(i - 1, parts[t], Len(ids)) - 1)} :
                        i \in {j \in 1..Len(ids) : ids[j] = m}} : t \in AllListed}]
  /\ pc' = "done"
  /\ UNCHANGED <<strategy, listed, parts, todo, at>>

-----------------------------------------------------------------------------
(* Round robin.                                                            *)

\* The order of comparedValue; the numbers stay below ten, where it is the
\* numeric one.
Before(p, q) == p[1] < q[1] \/ (p[1] = q[1] /\ p[2] < q[2])

FirstOf(S) == CHOOSE p \in S : \A q \in S \ {p} : Before(p, q)

MemberAt == SetToSortSeq(Members, <)[at + 1]

\* Plan refuses an empty list of topics.
StartRoundRobin ==
  /\ pc = "plan" /\ strategy = "roundrobin"
  /\ pc' = IF AllListed = {} THEN "error" ELSE "assign"
  /\ todo' = UNION {PartitionsOf(t) : t \in AllListed}
  /\ UNCHANGED <<strategy, listed, parts, at, plan>>

Turn == at' = (at + 1) % Cardinality(Members)

\* Faulty variant: only a member's first topic is looked at.
hasTopicFirst(m, t) == listed[m] # <<>> /\ listed[m][1] = t

hasTopic(m, t) == t \in Lists(m)

\* The inner loop: a member that does not list the topic is passed over.
PassOver ==
  /\ pc = "assign" /\ todo # {}
  /\ ~hasTopic(MemberAt, FirstOf(todo)[1])
  /\ Turn
  /\ UNCHANGED <<strategy, listed, parts, todo, plan, pc>>

Give ==
  /\ pc = "assign" /\ todo # {}
  /\ hasTopic(MemberAt, FirstOf(todo)[1])
  /\ plan' = [plan EXCEPT ![MemberAt] = @ \cup {FirstOf(todo)}]
  /\ todo' = todo \ {FirstOf(todo)}
  /\ Turn
  /\ UNCHANGED <<strategy, listed, parts, pc>>

Finish ==
  /\ pc = "assign" /\ todo = {}
  /\ pc' = "done"
  /\ UNCHANGED <<strategy, listed, parts, todo, at, plan>>

Next == PlanRange \/ StartRoundRobin \/ PassOver \/ Give \/ Finish

Spec == Init /\ [][Next]_vars

-----------------------------------------------------------------------------

TypeOK ==
  /\ parts \in [Topics -> 1..MaxPartitions]
  /\ at \in 0..(Cardinality(Members) - 1)
  /\ \A m \in Members : plan[m] \subseteq UNION {PartitionsOf(t) : t \in Topics}
  /\ pc \in {"plan", "assign", "done", "error"}

\* Each partition of a listed topic is given to exactly one member, and that
\* member lists the topic, also when members list a topic twice (Plan of both
\* strategies).
PlanExact ==
  pc = "done" =>
    /\ \A m \in Members : \A p \in plan[m] : p[1] \in Lists(m)
    /\ \A t \in AllListed : \A p \in PartitionsOf(t) :
         Cardinality({m \in Members : p \in plan[m]}) = 1

\* Range gives the members of a topic shares that differ by one partition at
\* most, contiguous and in the order of the ids; round robin does so for the
\* whole plan when all members list the same topics.
SharesEven ==
  pc = "done" =>
    \A m, n \in Members :
      /\ strategy = "range" =>
           \A t \in Lists(m) \cap Lists(n) :
             LET share(x) == plan[x] \cap PartitionsOf(t)
             IN /\ Cardinality(share(m)) <= Cardinality(share(n)) + 1
                /\ m < n => \A p \in share(m), q \in share(n) : p[2] < q[2]
      /\ (strategy = "roundrobin" /\ \A x, y \in Members : Lists(x) = Lists(y)) =>
           Cardinality(plan[m]) <= Cardinality(plan[n]) + 1

\* The slices of the range strategy tile the partitions of a topic: they
\* follow one another without gap or overlap from the first partition to the
\* last, and no member's slice is more than one partition longer than
\* another's (the arithmetic of coreFn).
Tiles(n, k) ==
  /\ RangeMin(0, n, k) = 0
  /\ RangeMax(k - 1, n, k) = n
  /\ \A i \in 0..(k - 1) :
       /\ RangeMax(i, n, k) - RangeMin(i, n, k) \in {n \div k, n \div k + 1}
       /\ i < k - 1 => RangeMax(i, n, k) = RangeMin(i + 1, n, k)
  /\ \A i \in 0..(k - 1), j \in 0..(k - 1) :
       i < j => RangeMax(i, n, k) <= RangeMin(j, n, k)

\* In every call, the slices of each topic tile its partitions.
SlicesTile ==
  \A t \in Topics : \A k \in 1..Cardinality(Members) : Tiles(parts[t], k)
=============================================================================
