------------------------------- MODULE Sticky -------------------------------
(***************************************************************************)
(* The sticky balance strategy of a consumer group (stickyBalanceStrategy  *)
(* in balance_strategy.go).  The group leader calls Plan with the members' *)
(* subscriptions and the user data each of them sent when it joined: the   *)
(* partitions of its last assignment and the generation it was made in.   *)
(*                                                                         *)
(* One behaviour is one call of Plan.  Every input is an initial state,    *)
(* and every order in which Go may range over a map is a choice, so the    *)
(* lists of partitions that the code builds by ranging over a map are sets *)
(* here.  Member ids are numbers, compared as the code compares the        *)
(* strings.                                                                *)
(***************************************************************************)
EXTENDS Integers, FiniteSets, FiniteSetsExt, Sequences, SequencesExt

CONSTANTS
  Group,          \* the ids of the members that have joined (numbers)
  Subscribable,   \* topic names (numbers)
  Known,          \* the partitions <<topic, number>> that exist or existed
  Generations     \* the generations user data may come from

NoMember == 0

NoMove == <<0, 0>>

defaultGeneration == -1

VARIABLES
  subs,           \* Topics of each member's metadata
  topics,         \* the partitions the cluster reports
  userData,       \* the decoded user data of each member
  step,           \* the step of Plan
  cur,            \* currentAssignment (its domain is what the map holds)
  prev,           \* prevAssignment, NoMember where there is none
  owner,          \* currentPartitionConsumers
  lost,           \* unassigned: the member dropped the topic
  unvisited,      \* unassigned: nobody had the partition
  queue,          \* the priority queue of sortPartitions
  sorted,         \* sortedPartitions
  initializing, fixed, movements, preScore,
  next,           \* position in the pass over the reassignable partitions
  modified, performed

inputs == <<subs, topics, userData>>

stickyVars == <<subs, topics, userData, step, cur, prev, owner, lost, unvisited, queue,
                sorted, initializing, fixed, movements, preScore, next, modified,
                performed>>

-----------------------------------------------------------------------------

\* partition2AllPotentialConsumers and consumer2AllPotentialPartitions
Consumers(p) == {m \in Group : p[1] \in subs[m]}

Potential(m) == {p \in topics : p[1] \in subs[m]}

Count(assignment, m) ==
  IF m \in DOMAIN assignment THEN Cardinality(assignment[m]) ELSE 0

\* The order of sortMemberIDsByPartitionAssignments: fewest partitions first,
\* then the smaller id.
Lighter(assignment, m, n) ==
  \/ Count(assignment, m) < Count(assignment, n)
  \/ Count(assignment, m) = Count(assignment, n) /\ m < n

Lightest(assignment, S) ==
  CHOOSE m \in S : \A n \in S \ {m} : Lighter(assignment, m, n)

\* The claims user data makes on a partition, and the generations they name.
Claimants(p, g) == {m \in Group : userData[m].gen = g /\ p \in userData[m].owned}

ClaimedIn(p) == {userData[m].gen : m \in {n \in Group : p \in userData[n].owned}}

\* A generation was planned by one leader, so it gave a partition to one
\* member; data without a generation comes from unrelated plans.
OnePlanPerGeneration ==
  \A p \in Known, g \in Generations \ {defaultGeneration} :
    Cardinality(Claimants(p, g)) <= 1

\* No member has dropped a topic that data of an older generation gives it.
PreviousStillSubscribed ==
  \A p \in topics : \A m \in Group :
    (p \in userData[m].owned /\ userData[m].gen < Max(ClaimedIn(p)))
      => p[1] \in subs[m]

\* Plan is called with the topics some member subscribes to; like any caller of
\* the exported interface, StickyInit also passes topics nobody does.
StickyInit ==
  /\ subs \in [Group -> SUBSET Subscribable \ {{}}]
  /\ topics \in SUBSET Known
  /\ userData \in [Group -> [gen : Generations, owned : SUBSET Known]]
  /\ \A m \in Group : userData[m].owned = {} => userData[m].gen = Max(Generations)
  /\ OnePlanPerGeneration
  /\ step = "prepopulate"
  /\ cur = <<>>
  /\ prev = [p \in Known |-> NoMember]
  /\ owner = [p \in Known |-> NoMember]
  /\ lost = {} /\ unvisited = {}
  /\ queue = <<>> /\ sorted = <<>>
  /\ initializing = FALSE
  /\ fixed = <<>>
  /\ movements = [p \in Known |-> NoMove]
  /\ preScore = 0
  /\ next = 1 /\ modified = FALSE /\ performed = FALSE

-----------------------------------------------------------------------------
(* The state the plan starts from.                                         *)

\* generations[0] of the reverse-sorted generations of a partition.
CurrentGeneration(p) == Max(ClaimedIn(p))

\* keepPartitions: what a member keeps of the partitions it had.
Kept(m, claimed) == {p \in claimed \cap topics : p[1] \in subs[m]}

\* areSubscriptionsIdentical, for one of its two maps: sets that are still
\* empty when the first other one is met are skipped, so a map that holds an
\* empty set and a non-empty one is judged by the order of the range.
Identical(sets) ==
  IF Cardinality(sets \ {{}}) > 1 THEN {FALSE}
  ELSE IF {} \in sets /\ sets # {{}} THEN BOOLEAN
  ELSE {TRUE}

\* The member whose claim on p in generation g counts, the members being
\* ranged over in the given order: the first one, except that data without a
\* generation is overwritten by later data.
Claimant(p, g, order) ==
  LET claims == SelectSeq(order, LAMBDA m : m \in Claimants(p, g))
  IN IF g = defaultGeneration THEN Last(claims) ELSE Head(claims)

\* prepopulateCurrentAssignments: the owner of each partition and the owner
\* it had in the newest generation before.
Holder(p, order) ==
  IF ClaimedIn(p) = {} THEN NoMember ELSE Claimant(p, CurrentGeneration(p), order)

PreviousHolder(p, order) ==
  IF Cardinality(ClaimedIn(p)) < 2 THEN NoMember
  ELSE Claimant(p, Max(ClaimedIn(p) \ {CurrentGeneration(p)}), order)

\* Plan up to sortPartitions: deleted partitions are dropped, partitions whose
\* owner dropped the topic become unassigned, like those nobody had.
Prepopulate ==
  /\ step = "prepopulate"
  /\ \E order \in SetToSeqs(Group) :
       /\ owner' = [p \in Known |-> IF p \in topics THEN Holder(p, order) ELSE NoMember]
       /\ prev' = [p \in Known |-> PreviousHolder(p, order)]
       /\ cur' = [m \in Group |->
                    Kept(m, {p \in Known : Holder(p, order) = m})]
  /\ lost' = {p \in topics : owner'[p] # NoMember /\ p \notin cur'[owner'[p]]}
  /\ unvisited' = {p \in topics : owner'[p] = NoMember}
  /\ queue' = cur'
  /\ \E same \in {a /\ b : a \in Identical({Consumers(p) : p \in topics}),
                           b \in Identical({Potential(m) : m \in Group})} :
       step' = IF same /\ \E m \in Group : userData[m].owned # {}
             THEN "queue" ELSE "bySize"
  /\ UNCHANGED <<inputs, sorted, initializing, fixed, movements, preScore, next,
                 modified, performed>>

-----------------------------------------------------------------------------
(* sortPartitions: the order in which partitions are tried.                *)

\* The head of the priority queue: most assignments, then the larger id.
Heaviest(assignment, S) ==
  CHOOSE m \in S : \A n \in S \ {m} : Lighter(assignment, n, m)

\* Partitions with a different previous owner come first.
Preferred(S) ==
  LET moved == {p \in S : prev[p] # NoMember}
  IN IF moved = {} THEN S ELSE moved

\* One round of the loop over the priority queue, as long as its head has a
\* partition left.
SortNext ==
  /\ step = "queue"
  /\ LET m == Heaviest(queue, Group)
     IN \E p \in Preferred(queue[m]) :
          /\ sorted' = Append(sorted, p)
          /\ queue' = [queue EXCEPT ![m] = @ \ {p}]
  /\ UNCHANGED <<inputs, step, cur, prev, owner, lost, unvisited, initializing, fixed,
                 movements, preScore, next, modified, performed>>

\* Then the partitions nobody has, in the order of a range over a map, and
\* the first line of balance: the least loaded member decides initializing.
StartBalance(order) ==
  /\ sorted' = order
  /\ initializing' = (cur[Lightest(cur, Group)] = {})
  /\ step' = "assign"
  /\ queue' = <<>>
  /\ UNCHANGED <<inputs, cur, prev, owner, lost, unvisited, fixed, movements,
                 preScore, next, modified, performed>>

SortRest ==
  /\ step = "queue"
  /\ \A m \in Group : queue[m] = {}
  /\ \E rest \in SetToSeqs(topics \ ToSet(sorted)) : StartBalance(sorted \o rest)

\* sortPartitionsByPotentialConsumerAssignments: fewest potential consumers
\* first, then topic and number.
FewerConsumers(p, q) ==
  \/ Cardinality(Consumers(p)) < Cardinality(Consumers(q))
  \/ /\ Cardinality(Consumers(p)) = Cardinality(Consumers(q))
     /\ p[1] < q[1] \/ (p[1] = q[1] /\ p[2] < q[2])

SortBySize ==
  /\ step = "bySize"
  /\ StartBalance(SetToSortSeq(topics, FewerConsumers))

-----------------------------------------------------------------------------
(* balance: assign what is unassigned, then move partitions.               *)

\* The first member, in the order of the load, that subscribes to p's topic.
Taker(p, assignment) == Lightest(assignment, Consumers(p) \cap DOMAIN assignment)

\* assignPartition, for the next unassigned partition.
AssignPartition ==
  /\ step = "assign"
  /\ lost \cup unvisited # {}
  /\ \E p \in IF lost # {} THEN lost ELSE unvisited :
       /\ lost' = lost \ {p}
       /\ unvisited' = unvisited \ {p}
       /\ IF Consumers(p) = {} THEN UNCHANGED <<cur, owner>>
          ELSE LET m == Taker(p, cur)
               IN /\ cur' = [cur EXCEPT ![m] = @ \cup {p}]
                  /\ owner' = [owner EXCEPT ![p] = m]
  /\ UNCHANGED <<inputs, step, prev, queue, sorted, initializing, fixed, movements,
                 preScore, next, modified, performed>>

\* canTopicPartitionParticipateInReassignment and
\* canConsumerParticipateInReassignment
Movable(p) == Cardinality(Consumers(p)) >= 2

Participates(m) ==
  \/ Cardinality(cur[m]) < Cardinality(Potential(m))
  \/ \E p \in cur[m] : Movable(p)

Score(assignment) ==
  LET M == DOMAIN assignment
      Diff(m, n) == IF Count(assignment, m) > Count(assignment, n)
                    THEN Count(assignment, m) - Count(assignment, n) ELSE 0
  IN MapThenSumSet(LAMBDA mn : Diff(mn[1], mn[2]), M \X M)

\* The scope is narrowed to the partitions and members that can take part.
Narrow ==
  /\ step = "assign"
  /\ lost \cup unvisited = {}
  /\ sorted' = SelectSeq(sorted, Movable)
  /\ LET taking == {m \in Group : Participates(m)}
     IN /\ fixed' = [m \in Group \ taking |-> cur[m]]
        /\ cur' = [m \in taking |-> cur[m]]
  /\ preScore' = Score(cur')
  /\ step' = "reassign"
  /\ UNCHANGED <<inputs, prev, owner, lost, unvisited, queue, initializing, movements,
                 next, modified, performed>>

-----------------------------------------------------------------------------
(* performReassignments: passes over the reassignable partitions.          *)

\* isBalanced
IsBalanced ==
  LET load(m) == Count(cur, m)
      holderLoad(p) == LET H == {m \in DOMAIN cur : p \in cur[m]}
                       IN IF H = {} THEN 0 ELSE Max({load(m) : m \in H})
  IN \/ Min({load(m) : m \in DOMAIN cur}) >= Max({load(m) : m \in DOMAIN cur}) - 1
     \/ \A m \in DOMAIN cur :
          \/ load(m) = Cardinality(Potential(m))
          \/ \A p \in Potential(m) \ cur[m] : load(m) >= holderLoad(p)

\* getTheActualPartitionToBeMoved: a partition of the topic that moved the
\* other way is moved back instead.
ToBeMoved(p, new) ==
  LET old == IF movements[p] = NoMove THEN owner[p] ELSE movements[p][1]
      back == {q \in topics : q[1] = p[1] /\ movements[q] = <<new, old>>}
  IN IF back = {} THEN {p} ELSE back

\* movePartition: the record spans from the first owner to the last one.
Recorded(q, new) ==
  IF movements[q] = NoMove THEN <<owner[q], new>>
  ELSE IF movements[q][1] = new THEN NoMove
  ELSE <<movements[q][1], new>>

\* reassignPartition and processPartitionMovement
Reassign(p, new) ==
  \E q \in ToBeMoved(p, new) :
    /\ movements' = [movements EXCEPT ![q] = Recorded(q, new)]
    /\ cur' = [m \in DOMAIN cur \cup {new} |->
                 LET has == IF m \in DOMAIN cur THEN cur[m] ELSE {}
                 IN IF m = new THEN has \cup {q} ELSE has \ {q}]
    /\ owner' = [owner EXCEPT ![q] = new]

\* The previous owner would still have fewer partitions after the move.
PrevIsLighter(p) ==
  /\ prev[p] # NoMember
  /\ Count(cur, owner[p]) > Count(cur, prev[p]) + 1

\* Faulty variant: a difference of two is tolerated.
OtherIsLighterThree(p) ==
  \E m \in Consumers(p) : Count(cur, owner[p]) > Count(cur, m) + 2

OtherIsLighter(p) ==
  \E m \in Consumers(p) : Count(cur, owner[p]) > Count(cur, m) + 1

\* One partition of the pass.
TryPartition ==
  /\ step = "reassign"
  /\ next <= Len(sorted)
  /\ ~IsBalanced
  /\ LET p == sorted[next]
     IN \/ PrevIsLighter(p) /\ Reassign(p, prev[p]) /\ modified' = TRUE
        \/ /\ ~PrevIsLighter(p) /\ OtherIsLighter(p)
           /\ Reassign(p, Taker(p, cur)) /\ modified' = TRUE
        \/ /\ ~PrevIsLighter(p) /\ ~OtherIsLighter(p)
           /\ UNCHANGED <<cur, owner, movements, modified>>
  /\ next' = next + 1
  /\ UNCHANGED <<inputs, step, prev, lost, unvisited, queue, sorted, initializing, fixed,
                 preScore, performed>>

PassDone == next <= Len(sorted) => IsBalanced

\* A pass that changed something is followed by another one.
NextPass ==
  /\ step = "reassign" /\ PassDone
  /\ modified
  /\ next' = 1 /\ modified' = FALSE /\ performed' = TRUE
  /\ UNCHANGED <<inputs, step, cur, prev, owner, lost, unvisited, queue, sorted,
                 initializing, fixed, movements, preScore>>

\* The condition under which balance gives up what performReassignments did.
NotBetter == ~initializing /\ performed /\ Score(cur) >= preScore

\* The fixed assignments are put back, over what their members have now.
WithFixed(assignment) ==
  [m \in DOMAIN assignment \cup DOMAIN fixed |->
     IF m \in DOMAIN fixed THEN fixed[m] ELSE assignment[m]]

\* The end of balance and the plan.  In the NotBetter case balance rebinds its
\* parameter to a copy of the earlier assignment and adds the fixed members to
\* that copy: Plan, whose map is the original one, sees neither.
FinishBalance ==
  /\ step = "reassign" /\ PassDone
  /\ ~modified
  /\ cur' = IF NotBetter THEN cur ELSE WithFixed(cur)
  /\ step' = "done"
  /\ UNCHANGED <<inputs, prev, owner, lost, unvisited, queue, sorted, initializing,
                 fixed, movements, preScore, next, modified, performed>>

StickyNext ==
  \/ Prepopulate \/ SortNext \/ SortRest \/ SortBySize
  \/ AssignPartition \/ Narrow \/ TryPartition \/ NextPass \/ FinishBalance

StickySpec == StickyInit /\ [][StickyNext]_stickyVars

-----------------------------------------------------------------------------

StickyTypeOK ==
  /\ subs \in [Group -> SUBSET Subscribable]
  /\ step \in {"prepopulate", "queue", "bySize", "assign", "reassign", "done"}
  /\ DOMAIN cur \subseteq Group
  /\ \A m \in DOMAIN cur : cur[m] \subseteq topics
  /\ owner \in [Known -> Group \cup {NoMember}]
  /\ prev \in [Known -> Group \cup {NoMember}]
  /\ lost \subseteq topics /\ unvisited \subseteq topics
  /\ ToSet(sorted) \subseteq topics
  /\ {initializing, modified, performed} \subseteq BOOLEAN
  /\ next \in 1..(Len(sorted) + 1)
  /\ preScore \in Nat

\* The plan gives every partition that somebody subscribes to to exactly one
\* member, a member gets only partitions of topics it subscribes to, and every
\* member has an entry (Plan and balance as a whole), as long as no member has
\* dropped a topic that older data gives it: performReassignments moves a
\* partition back to its previous owner without looking at the subscription.
StickyPlanValid ==
  (step = "done" /\ PreviousStillSubscribed) =>
    /\ DOMAIN cur = Group
    /\ \A m \in Group : \A p \in cur[m] : p \in topics /\ m \in Consumers(p)
    /\ \A p \in topics :
         Cardinality({m \in Group : p \in cur[m]}) = IF Consumers(p) = {} THEN 0 ELSE 1

\* No partition of the plan could go to another subscriber of its topic that
\* has at least two partitions fewer than its owner (performReassignments goes
\* on until no move improves the balance).
StickyPlanBalanced ==
  (step = "done" /\ PreviousStillSubscribed) =>
    \A m \in Group : \A p \in cur[m] : \A n \in Consumers(p) :
      Cardinality(cur[m]) <= Cardinality(cur[n]) + 1

\* What the members reported was already a valid and balanced plan.
ReportedPlan == [m \in Group |-> userData[m].owned]

AlreadyBalanced ==
  /\ \A m, n \in Group : userData[m].gen = userData[n].gen
  /\ \A m \in Group : \A p \in ReportedPlan[m] : p \in topics /\ m \in Consumers(p)
  /\ \A p \in topics : Cardinality({m \in Group : p \in ReportedPlan[m]}) = 1
  /\ \A m \in Group : \A p \in ReportedPlan[m] : \A n \in Consumers(p) :
       Cardinality(ReportedPlan[m]) <= Cardinality(ReportedPlan[n]) + 1

\* A plan that is still valid and balanced is kept as it is: nothing moves
\* when nothing has to ("an attempt to preserve earlier assignments").
KeepsBalancedPlan == (step = "done" /\ AlreadyBalanced) => cur = ReportedPlan

=============================================================================
