---------------------------- MODULE MCFunctions ----------------------------
(***************************************************************************)
(* The parts of the client that are calculations: each behaviour is one of *)
(* these, as `which` says, and the variables of the others keep their      *)
(* first value.                                                            *)
(*   choice     Partitioner: every partitioner, leaders that come and go,  *)
(*              a growing topic;                                           *)
(*   plan       Assignor: the range and the round-robin strategy;          *)
(*   mixed      Sticky: members with subscriptions of their own, which may *)
(*              have changed since, and data of two generations;           *)
(*   deleted    a partition that is gone, and data without a generation;   *)
(*   joined     a member joins two that share four partitions;             *)
(*   core       Protocol: the calls of producers and consumers;            *)
(*   groups     those of groups and transactions, with up to two elements  *)
(*              in every array;                                            *)
(*   admin      those of the administration and of SASL;                   *)
(*   versions   VersionChoice: every call with every Kafka version.        *)
(***************************************************************************)
EXTENDS Partitioner, Assignor, Sticky

VARIABLES which, api, ver, stage, left, wire, conf

names == INSTANCE Messages

core == INSTANCE Protocol WITH
  Apis <- names!CoreApis, MaxLen <- 1, KnownGaps <- {}, todo <- left
groups == INSTANCE Protocol WITH
  Apis <- names!GroupApis \cup names!TxnApis, MaxLen <- 2,
  KnownGaps <- {<<"ListGroups", 3>>, <<"ListGroups", 4>>}, todo <- left
admin == INSTANCE Protocol WITH
  Apis <- names!TopicApis \cup names!ConfigApis \cup names!SaslApis, MaxLen <- 1,
  KnownGaps <- {}, todo <- left

versions == INSTANCE VersionChoice WITH Apis <- names!AllApis \ {"ConsumerMetadata"}

callVars == <<api, ver, stage, left, wire, conf>>
allVars == <<which, choiceVars, vars, stickyVars, callVars>>

Four == {<<1, 0>>, <<1, 1>>, <<1, 2>>, <<2, 0>>}
AnyGeneration == {-1, 1, 2}

\* The families of inputs of the sticky strategy.
Reports(gens, partitions) ==
  userData \in [Group -> [gen : gens, owned : SUBSET partitions]]

Mixed ==
  /\ topics = Four \ {<<1, 2>>} /\ Reports({1, 2}, topics)
  /\ subs \in [Group -> SUBSET Subscribable] /\ 1 \in subs[Max(Group)]
  /\ StickyInit
SomeDeleted ==
  /\ topics = {<<1, 0>>, <<1, 1>>} /\ Reports({-1, 2}, topics \cup {<<1, 2>>})
  /\ subs \in {[m \in Group |-> {1}], [m \in Group |-> {1, 2}]}
  /\ StickyInit
Joined ==
  /\ topics = Four /\ Reports({1, 2}, Four)
  /\ userData[Min(Group)].gen = 2 /\ userData[Max(Group)].owned = {}
  /\ subs \in [Group -> SUBSET Subscribable] /\ subs[Max(Group)] = Subscribable
  /\ StickyInit

NoChoice ==
  /\ kind = "manual" /\ all = {0} /\ writable = {0} /\ hash = [k \in Keys |-> 0]
  /\ ChoiceInit
NoPlan ==
  /\ strategy = "range" /\ listed = [m \in Members |-> <<>>]
  /\ parts = [t \in Topics |-> 1]
  /\ Init
NoSticky ==
  /\ topics = {} /\ userData = [m \in Group |-> [gen |-> 2, owned |-> {}]]
  /\ subs = [m \in Group |-> {1}] /\ StickyInit
NoCall == api = 0 /\ ver = 0 /\ stage = 0 /\ left = 0 /\ wire = 0 /\ conf = 0

MCInit ==
  \/ which = "choice" /\ ChoiceInit /\ NoPlan /\ NoSticky /\ NoCall
  \/ which = "plan" /\ Init /\ NoChoice /\ NoSticky /\ NoCall
  \/ /\ \/ which = "mixed" /\ Mixed
        \/ which = "deleted" /\ SomeDeleted
        \/ which = "joined" /\ Joined
     /\ NoChoice /\ NoPlan /\ NoCall
  \/ /\ \/ which = "core" /\ core!Init /\ conf = 0
        \/ which = "groups" /\ groups!Init /\ conf = 0
        \/ which = "admin" /\ admin!Init /\ conf = 0
        \/ which = "versions" /\ versions!Init /\ left = 0 /\ wire = 0
     /\ NoChoice /\ NoPlan /\ NoSticky

IsSticky == which \in {"mixed", "deleted", "joined"}

MCNext ==
  /\ \/ which = "choice" /\ ChoiceNext /\ UNCHANGED <<vars, stickyVars, callVars>>
     \/ which = "plan" /\ Next /\ UNCHANGED <<choiceVars, stickyVars, callVars>>
     \/ IsSticky /\ StickyNext /\ UNCHANGED <<choiceVars, vars, callVars>>
     \/ /\ \/ which = "core" /\ core!Next /\ UNCHANGED conf
           \/ which = "groups" /\ groups!Next /\ UNCHANGED conf
           \/ which = "admin" /\ admin!Next /\ UNCHANGED conf
           \/ which = "versions" /\ versions!Next /\ UNCHANGED <<left, wire>>
        /\ UNCHANGED <<choiceVars, vars, stickyVars>>
  /\ UNCHANGED which

\* Plan is a single goroutine that never waits.
MCSpec ==
  /\ MCInit /\ [][MCNext]_allVars
  /\ WF_vars(which = "plan" /\ strategy = "roundrobin" /\ Next)
  /\ WF_stickyVars(which = "joined" /\ StickyNext)

-----------------------------------------------------------------------------

\* Plan returns: the inner loop of round robin finds a member that lists the topic, and
\* the passes of performReassignments come to an end, also when members dropped topics
\* that their data names.
PlansReturn ==
  <>[](/\ (which = "plan" /\ strategy = "roundrobin") => pc \in {"done", "error"}
       /\ which = "joined" => step = "done")

\* Work is shared out exactly and evenly. The plans of range and round robin give each
\* partition of a topic that somebody lists to exactly one of those who do; the shares of
\* range differ by at most one and are contiguous slices. The round-robin partitioner takes
\* every partition in its turn.
SharedOut == ChoiceTypeOK /\ WalksThrough /\ TypeOK /\ PlanExact /\ SharesEven /\ SlicesTile

\* The sticky plan gives every partition to exactly one subscriber and is balanced, and a
\* plan that was balanced is kept.
StickyPlanGood == StickyTypeOK /\ StickyPlanValid /\ StickyPlanBalanced /\ KeepsBalancedPlan

\* The client never builds a request in a version that the request type calls invalid and
\* refuses only what Config.Version does not allow at all. In every version a request,
\* whatever is nil or empty in it, is read back by the decoder that its key selects, and a
\* response by the Broker method that sent the request (two versions of ListGroups, whose
\* encoder leaves out what its decoder reads, left aside).
CallsUnderstood ==
  /\ which = "core" => core!TypeOK /\ core!RequestsUnderstood /\ core!ResponsesUnderstood
  /\ which = "groups" => groups!TypeOK /\ groups!RequestsUnderstood /\ groups!ResponsesUnderstood
  /\ which = "admin" => admin!TypeOK /\ admin!RequestsUnderstood /\ admin!ResponsesUnderstood
  /\ which = "versions" => versions!VersionsExist /\ versions!RefusedOnlyIfUnsupported
=============================================================================
