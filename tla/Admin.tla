-------------------------------- MODULE Admin --------------------------------
(***************************************************************************)
(* The cluster admin (admin.go).  An operation is described by where its   *)
(* request goes, whether it is retried when that broker says it is not the *)
(* controller, whether the cached controller is refreshed then, and        *)
(* whether the errors inside the response are looked at.  The cluster      *)
(* moves its controller, its coordinators and its leaders while the call   *)
(* runs; what the client has cached may be stale.                          *)
(***************************************************************************)
EXTENDS Integers, FiniteSets

CONSTANTS
  Brokers,        \* the brokers of the cluster
  NoBroker,       \* nothing cached
  RetryMax,       \* conf.Admin.Retry.Max
  MaxMoves        \* bound: how often the cluster moves a role during a call

-----------------------------------------------------------------------------
(* The operations.                                                         *)

\* Sent to the controller inside retryOnError.
Retried(refreshes, checks) ==
  [to |-> "controller", retry |-> TRUE, refreshes |-> refreshes, checks |-> checks]

\* Sent once to the broker that has the role, or to any broker.
Once(to, checks) == [to |-> to, retry |-> FALSE, refreshes |-> FALSE, checks |-> checks]

CreateTopic == Retried(TRUE, TRUE)

DeleteTopic == Retried(TRUE, TRUE)

CreatePartitions == Retried(TRUE, TRUE)

AlterPartitionReassignments == Retried(FALSE, TRUE)

\* These three ask isErrNotController about the error of the transport only.
ListPartitionReassignments == Retried(TRUE, FALSE)

DescribeTopics == Retried(TRUE, FALSE)

DescribeCluster == Retried(TRUE, FALSE)

AlterUserScramCredentials == Retried(FALSE, FALSE)

ListTopics == Once("any", FALSE)

DescribeConfig == Once("any", TRUE)

AlterConfig == Once("any", TRUE)

IncrementalAlterConfig == Once("any", TRUE)

CreateACL == Once("controller", FALSE)

ListAcls == Once("controller", FALSE)

DeleteACL == Once("controller", FALSE)

DescribeUserScramCredentials == Once("controller", FALSE)

DescribeClientQuotas == Once("controller", TRUE)

AlterClientQuotas == Once("controller", TRUE)

ListConsumerGroupOffsets == Once("coordinator", FALSE)

DeleteConsumerGroupOffset == Once("coordinator", TRUE)

DeleteConsumerGroup == Once("coordinator", TRUE)

RemoveMemberFromConsumerGroup == Once("coordinator", FALSE)

\* Sent to several brokers: one after the other up to the first error, one
\* after the other collecting the errors, or (the last two) all at once.
DescribeConsumerGroups ==
  [to |-> "each", abort |-> TRUE, checks |-> FALSE]

DeleteRecords == [to |-> "each", abort |-> FALSE, checks |-> TRUE]

ListConsumerGroups == [to |-> "each", abort |-> FALSE, checks |-> FALSE]

DescribeLogDirs == [to |-> "each", abort |-> FALSE, checks |-> FALSE]

Table == [
  CreateTopic |-> CreateTopic, DeleteTopic |-> DeleteTopic,
  CreatePartitions |-> CreatePartitions,
  AlterPartitionReassignments |-> AlterPartitionReassignments,
  ListPartitionReassignments |-> ListPartitionReassignments,
  DescribeTopics |-> DescribeTopics, DescribeCluster |-> DescribeCluster,
  AlterUserScramCredentials |-> AlterUserScramCredentials, ListTopics |-> ListTopics,
  DescribeConfig |-> DescribeConfig, AlterConfig |-> AlterConfig,
  IncrementalAlterConfig |-> IncrementalAlterConfig, CreateACL |-> CreateACL,
  ListAcls |-> ListAcls, DeleteACL |-> DeleteACL,
  DescribeUserScramCredentials |-> DescribeUserScramCredentials,
  DescribeClientQuotas |-> DescribeClientQuotas, AlterClientQuotas |-> AlterClientQuotas,
  ListConsumerGroupOffsets |-> ListConsumerGroupOffsets,
  DeleteConsumerGroupOffset |-> DeleteConsumerGroupOffset,
  DeleteConsumerGroup |-> DeleteConsumerGroup,
  RemoveMemberFromConsumerGroup |-> RemoveMemberFromConsumerGroup,
  DescribeConsumerGroups |-> DescribeConsumerGroups, DeleteRecords |-> DeleteRecords,
  ListConsumerGroups |-> ListConsumerGroups, DescribeLogDirs |-> DescribeLogDirs]

\* Operations that hand the broker's answer to the caller with the errors it
\* contains.
HandsOutAnswer == {"DescribeTopics", "DescribeCluster", "AlterUserScramCredentials",
                   "ListConsumerGroupOffsets", "RemoveMemberFromConsumerGroup",
                   "DescribeConsumerGroups"}

\* Operations whose result shows no refusal although they do not look for one:
\* CreateACL and DeleteACL return nil, the others a result without the items
\* (or the brokers) that were refused.
LosesRefusal == {"ListPartitionReassignments", "ListAcls", "DeleteACL", "CreateACL",
                 "ListConsumerGroups", "ListTopics", "DescribeUserScramCredentials",
                 "DescribeLogDirs"}

\* Metadata and configurations are served by every broker.
NeedsRole(o) == /\ Table[o].to \in {"controller", "coordinator"}
                /\ o \notin {"DescribeTopics", "DescribeCluster"}

-----------------------------------------------------------------------------

Roles == {"controller", "coordinator"}

VARIABLES
  actual,         \* the broker that has each role
  cached,         \* the broker the client believes has it
  moves,          \* how often a role has moved since the call began
  op, pc,
  attempts,       \* attemptsRemaining of retryOnError
  target,         \* the broker the request goes to
  served,         \* how often the cluster has carried the operation out
  pending, got,   \* brokers still to answer and brokers that have, of "each"
  failed,         \* an error has been collected from one of them
  result          \* what the call returned: "nil" or a kind of error

vars == <<actual, cached, moves, op, pc, attempts, target, served, pending, got,
          failed, result>>

Init ==
  /\ actual \in [Roles -> Brokers]
  /\ cached \in [Roles -> Brokers \cup {NoBroker}]
  /\ op \in DOMAIN Table
  /\ pc = "call"
  /\ moves = 0 /\ attempts = 0 /\ target = NoBroker /\ served = 0
  /\ pending = {} /\ got = {} /\ failed = FALSE
  /\ result = "none"

Return(r) == pc' = "returned" /\ result' = r

(* The cluster, and the client's metadata updater. *)

Move(r, b) ==
  /\ pc # "returned" /\ moves < MaxMoves /\ actual[r] # b
  /\ actual' = [actual EXCEPT ![r] = b]
  /\ moves' = moves + 1
  /\ UNCHANGED <<cached, op, pc, attempts, target, served, pending, got, failed, result>>

BackgroundRefresh ==
  /\ pc # "returned"
  /\ cached["controller"] # actual["controller"]
  /\ cached' = [cached EXCEPT !["controller"] = actual["controller"]]
  /\ UNCHANGED <<actual, moves, op, pc, attempts, target, served, pending, got, failed,
                 result>>

-----------------------------------------------------------------------------
(* Operations with one request.                                            *)

Tries(o) == IF Table[o].retry THEN RetryMax + 1 ELSE 1

\* Operations that check their arguments: a topic name, a broker id, a version.
ChecksArguments ==
  {"CreateTopic", "DeleteTopic", "CreatePartitions", "AlterPartitionReassignments",
   "ListPartitionReassignments", "DescribeConfig", "AlterConfig",
   "IncrementalAlterConfig", "RemoveMemberFromConsumerGroup", "DeleteRecords"}

Begin ==
  /\ pc = "call" /\ Table[op].to # "each"
  /\ \/ /\ pc' = "lookup"
        /\ attempts' = Tries(op)
        /\ UNCHANGED result
     \/ op \in ChecksArguments /\ Return("invalid") /\ UNCHANGED attempts
  /\ UNCHANGED <<actual, cached, moves, op, target, served, pending, got, failed>>

\* Controller, Coordinator and findAnyBroker: the cached broker, or the one a
\* metadata request names, which may fail.
Lookup ==
  /\ pc = "lookup"
  /\ LET r == Table[op].to
         known == IF r = "any" THEN Brokers ELSE {cached[r]} \ {NoBroker}
     IN \/ /\ target' \in known
           /\ pc' = "send" /\ UNCHANGED <<cached, result>>
        \/ /\ r # "any" /\ known = {}
           /\ target' = actual[r]
           /\ cached' = [cached EXCEPT ![r] = actual[r]]
           /\ pc' = "send" /\ UNCHANGED result
        \/ /\ r # "any" => known = {}
           /\ Return("lookup")
           /\ UNCHANGED <<cached, target>>
  /\ UNCHANGED <<actual, moves, op, attempts, served, pending, got, failed>>

\* What a broker can answer: it serves the request if the role is its own; the
\* connection can fail before or after that.
Answers ==
  {"lost", "lostServed", "refused"} \cup
  (IF NeedsRole(op) /\ target # actual[Table[op].to] THEN {"notMine"} ELSE {"ok"})

Serves(answer) ==
  \/ answer = "ok"
  \/ answer = "lostServed" /\ (NeedsRole(op) => target = actual[Table[op].to])

\* The error the request ends with.
Error(answer) ==
  IF answer \in {"lost", "lostServed"} THEN "io"
  ELSE IF answer = "ok" \/ ~Table[op].checks THEN "nil"
  ELSE answer

\* Faulty variant: a lost answer is retried like a refusal.
RetryableLost(err) == err \in {"notMine", "io"}

\* isErrNotController
Retryable(err) == err = "notMine"

\* refreshController: the cached controller is dropped, and fetched again if
\* metadata can be had.
Refreshed(err) ==
  IF err = "notMine" /\ Table[op].refreshes THEN {NoBroker, actual["controller"]}
  ELSE {cached["controller"]}

\* One attempt of retryOnError.
Send ==
  /\ pc = "send"
  /\ \E answer \in Answers :
       LET err == Error(answer)
       IN /\ served' = served + (IF Serves(answer) THEN 1 ELSE 0)
          /\ \E c \in Refreshed(err) : cached' = [cached EXCEPT !["controller"] = c]
          /\ attempts' = attempts - 1
          /\ IF err = "nil" \/ attempts - 1 <= 0 \/ ~Retryable(err)
             THEN Return(err)
             ELSE pc' = "lookup" /\ UNCHANGED result
  /\ UNCHANGED <<actual, moves, op, target, pending, got, failed>>

-----------------------------------------------------------------------------
(* Operations with one request per broker.                                 *)

\* Leaders, coordinators or brokers are looked up.  DescribeConsumerGroups
\* gives up if one is missing, DeleteRecords notes the error, DescribeLogDirs
\* goes on without it.
BeginEach ==
  /\ pc = "call" /\ Table[op].to = "each"
  /\ \E found \in SUBSET Brokers :
       /\ op = "ListConsumerGroups" => found = Brokers
       /\ \/ op \in ChecksArguments /\ Return("invalid") /\ UNCHANGED <<pending, failed>>
          \/ IF Table[op].abort /\ found # Brokers
             THEN Return("lookup") /\ UNCHANGED <<pending, failed>>
             ELSE /\ pc' = "each" /\ pending' = found
                  /\ failed' = (op = "DeleteRecords" /\ found # Brokers)
                  /\ UNCHANGED result
  /\ UNCHANGED <<actual, cached, moves, op, attempts, target, served, got>>

\* The answer of one broker; the requests to the others are independent.
Query(b) ==
  /\ pc = "each" /\ b \in pending
  /\ pending' = pending \ {b}
  /\ \E answer \in {"ok", "lost", "lostServed", "refused"} :
       LET err == Error(answer)
       IN /\ got' = IF answer = "ok" THEN got \cup {b} ELSE got
          /\ failed' = (failed \/ err # "nil")
          /\ IF Table[op].abort /\ err # "nil" THEN Return(err) ELSE UNCHANGED <<pc, result>>
  /\ UNCHANGED <<actual, cached, moves, op, attempts, target, served>>

\* Every answer is in: wg.Wait, or the end of the loop.
EndEach ==
  /\ pc = "each" /\ pending = {}
  /\ Return(IF failed THEN "some" ELSE "nil")
  /\ served' = IF got = Brokers THEN 1 ELSE 0
  /\ UNCHANGED <<actual, cached, moves, op, attempts, target, pending, got, failed>>

Step == Begin \/ Lookup \/ Send \/ BeginEach \/ (\E b \in Brokers : Query(b)) \/ EndEach

Next == Step \/ BackgroundRefresh \/ \E r \in Roles, b \in Brokers : Move(r, b)

Spec == Init /\ [][Next]_vars

-----------------------------------------------------------------------------

TypeOK ==
  /\ actual \in [Roles -> Brokers] /\ cached \in [Roles -> Brokers \cup {NoBroker}]
  /\ pc \in {"call", "lookup", "send", "each", "returned"}
  /\ attempts \in 0..(RetryMax + 1)
  /\ target \in Brokers \cup {NoBroker}
  /\ pending \subseteq Brokers /\ got \subseteq Brokers

\* A call that returns without an error has been carried out, by every broker
\* it concerns, unless its result shows the errors of the single items or it is
\* one of those that lose them.
OkMeansServed ==
  (pc = "returned" /\ result = "nil" /\ op \notin HandsOutAnswer \cup LosesRefusal)
    => served > 0

\* No call is carried out twice: only a refusal is retried, never a request
\* whose answer was lost (retryOnError with isErrNotController).
AtMostOnce == served <= 1

\* An operation that refreshes the controller ends with "not the controller"
\* only if the controller moved again before every retry.
RetriesFollowController ==
  (pc = "returned" /\ result = "notMine" /\ Table[op].refreshes) => moves >= RetryMax

=============================================================================
