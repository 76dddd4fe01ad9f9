---------------------------- MODULE MCConsuming ----------------------------
(***************************************************************************)
(* Instances of ConsumerGroup, OffsetManager and Consumer over one set of  *)
(* variables; `which` says the one a behaviour belongs to, and the         *)
(* variables of the others keep their first value.                         *)
(* Two members of a group that share a partition:                          *)
(*   rebalance  (the constants of the configuration) joining, rebalancing  *)
(*              and closing in every order;                                *)
(*   failures   every failure of a request or a handler, member IDs that   *)
(*              must be asked for;                                         *)
(*   expire     the coordinator removes members that send no heartbeats;   *)
(*   report     errors are reported while a member is closed.              *)
(* An offset manager:                                                      *)
(*   one        a partition committed by the ticker and by Close, with     *)
(*              every failure of a request;                                *)
(*   pair       two partitions in one request, answered differently;       *)
(*   overlap    Commit called by the application beside the ticker, and    *)
(*              ManagePartition during Close and for a managed partition.  *)
(* A consumer:                                                             *)
(*   children   two children that share broker consumers.                  *)
(***************************************************************************)
EXTENDS ConsumerGroup, Logs, TLC

CONSTANTS p1, p2, b1, k1, k2, n1, n2, NoBroker

VARIABLES
  which,
  stored, life, pom, errors, pclose, fpc, fretries, fbroker, fvalue, manages,
  broker, cpc, req, cbroker, resp, todo, attempt, closing, cancelled, marks, at,
  kids, bcs, current, leader, kidFaults

failures == INSTANCE ConsumerGroup WITH
  RequireId <- TRUE, Closers <- {},
  Faults <- {"net", "join", "sync", "fatal", "coordinator", "metadata", "heartbeat", "exit",
             "cancel", "partitions", "setup", "claim", "pom"}

expire == INSTANCE ConsumerGroup WITH
  Closers <- {}, Faults <- {"expire", "exit"}, MaxFaults <- 2

report == INSTANCE ConsumerGroup WITH Faults <- {"report"}

one == INSTANCE OffsetManager WITH
  Partitions <- {p1}, Brokers <- {b1}, MaxOffset <- 1, Metas <- {"", "m"}, MaxMarks <- 2,
  MaxManage <- 1, AutoCommit <- TRUE, RetryMax <- 1, FetchRetryMax <- 1, ReturnErrors <- TRUE,
  ErrorsCap <- 1, AppCommitters <- {}, Overlap <- FALSE, Resets <- TRUE,
  Answers <- {"ok", "redispatch", "fenced"},
  Faults <- {"net", "lostanswer", "fetch"}

pair == INSTANCE OffsetManager WITH
  Partitions <- {p1, p2}, Brokers <- {b1}, MaxOffset <- 1, Metas <- {""}, MaxMarks <- 1,
  MaxManage <- 1, AutoCommit <- TRUE, RetryMax <- 0, FetchRetryMax <- 0, ReturnErrors <- TRUE,
  ErrorsCap <- 1, AppCommitters <- {}, Overlap <- FALSE, Resets <- FALSE,
  Answers <- {"ok", "missing", "loading"}, Faults <- {"net"}

overlap == INSTANCE OffsetManager WITH
  Partitions <- {p1}, Brokers <- {b1}, MaxOffset <- 1, Metas <- {""}, MaxMarks <- 1,
  MaxManage <- 2, AutoCommit <- TRUE, RetryMax <- 0, FetchRetryMax <- 0, ReturnErrors <- TRUE,
  ErrorsCap <- 1, AppCommitters <- {"app"}, Overlap <- TRUE, Resets <- FALSE,
  Answers <- {"ok"}, Faults <- {"coordinator"}

children == INSTANCE Consumer WITH
  Children <- {k1, k2}, Brokers <- {n1, n2}, Workers <- {1, 2, 3},
  Log <- [c \in {k1, k2} |-> TxnLog], Aborted <- [c \in {k1, k2} |-> TxnAborted],
  StartAt <- [c \in {k1, k2} |-> -2], ReadCommitted <- TRUE, FetchDefault <- 3, FetchMax <- 4,
  Width <- 8, MessagesCap <- 0, Faults <- {"net", "move", "slow"}, MaxFaults <- 1,
  Pauses <- FALSE, Closing <- {"AsyncClose"}, faults <- kidFaults

ChildSymmetry == Permutations({k1, k2}) \cup Permutations({n1, n2})

offsetVars == <<stored, life, pom, errors, pclose, fpc, fretries, fbroker, fvalue, manages,
                broker, cpc, req, cbroker, resp, todo, attempt, closing, cancelled, marks, at>>
childVars == <<kids, bcs, current, leader, kidFaults>>
allVars == <<which, vars, offsetVars, childVars>>

NoOffsets ==
  /\ stored = 0 /\ life = 0 /\ pom = 0 /\ errors = 0 /\ pclose = 0 /\ fpc = 0 /\ fretries = 0
  /\ fbroker = 0 /\ fvalue = 0 /\ manages = 0 /\ broker = 0 /\ cpc = 0 /\ req = 0 /\ cbroker = 0
  /\ resp = 0 /\ todo = 0 /\ attempt = 0 /\ closing = 0 /\ cancelled = 0 /\ marks = 0 /\ at = 0
NoChildren == kids = 0 /\ bcs = 0 /\ current = 0 /\ leader = 0 /\ kidFaults = 0

MCInit ==
  /\ Init
  /\ \/ which \in {"rebalance", "failures", "expire", "report"} /\ NoOffsets /\ NoChildren
     \/ which = "one" /\ one!Init /\ NoChildren
     \/ which = "pair" /\ pair!Init /\ NoChildren
     \/ which = "overlap" /\ overlap!Init /\ NoChildren
     \/ which = "children" /\ children!Init /\ NoOffsets

MCNext ==
  /\ \/ /\ \/ which = "rebalance" /\ Next
           \/ which = "failures" /\ failures!Next
           \/ which = "expire" /\ expire!Next
           \/ which = "report" /\ report!Next
        /\ UNCHANGED <<offsetVars, childVars>>
     \/ /\ \/ which = "one" /\ one!Next
           \/ which = "pair" /\ pair!Next
           \/ which = "overlap" /\ overlap!Next
        /\ UNCHANGED <<vars, childVars>>
     \/ which = "children" /\ children!Next /\ UNCHANGED <<vars, offsetVars>>
  /\ UNCHANGED which

MCSpec == MCInit /\ [][MCNext]_allVars

-----------------------------------------------------------------------------


\* No goroutine sends on a closed channel: not on the errors of a group that is being
\* closed, not on those of an offset manager that was released while Commit, the ticker and
\* Close flush, not on the input of a broker consumer, and not on the trigger of a child,
\* which is always in exactly one hand.
NoSendOnClosed ==
  /\ NoSendOnClosedErrors
  /\ which = "one" => one!NoSendOnClosed
  /\ which = "pair" => pair!NoSendOnClosed
  /\ which = "overlap" => overlap!NoSendOnClosed
  /\ which = "children" => children!InputOpen /\ children!OneHolder

\* Without overlapping flushes, Kafka moves forward along the positions the application
\* has set, and a partition is given back with its last position stored unless the
\* manager is being closed; an uncommitted position is only dropped after all retries of
\* Close.
KeepsContract ==
  /\ which = "one" => one!Contract!Init
  /\ which = "pair" => pair!Contract!Init
  /\ [][/\ which = "one" => one!Contract!Step /\ one!DropIsDue
        /\ which = "pair" => pair!Contract!Step /\ pair!DropIsDue]_allVars
=============================================================================
