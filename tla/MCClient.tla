------------------------------ MODULE MCClient ------------------------------
(***************************************************************************)
(* Three instances of Client over the same variables; `which` says the one *)
(* a behaviour belongs to.                                                 *)
(*   cache     (the constants of the configuration) a goroutine and the    *)
(*             updater refresh the cache while the cluster changes;        *)
(*   alone     one goroutine calls every operation, Close included;        *)
(*   shutdown  a goroutine closes the client while the updater may be      *)
(*             refreshing and requests may fail.                           *)
(***************************************************************************)
EXTENDS Client, Clusters

VARIABLE which

CacheClusters == MovingClusters(Topics)

alone == INSTANCE Client WITH
  Ops <- AllOps \ {"initPid"}, Clusters <- SteadyClusters(Topics),
  Refreshing <- FALSE, MaxCalls <- 2, MaxChanges <- 1

shutdown == INSTANCE Client WITH
  Ops <- {"leader", "initPid", "close"}, Clusters <- SteadyClusters(Topics),
  Full <- FALSE, Timeout <- TRUE, MaxCalls <- 2, MaxFaults <- 1

allVars == <<which, vars>>

MCInit ==
  \/ which = "cache" /\ Init
  \/ which = "alone" /\ alone!Init
  \/ which = "shutdown" /\ shutdown!Init

MCNext ==
  /\ \/ which = "cache" /\ Next
     \/ which = "alone" /\ alone!Next
     \/ which = "shutdown" /\ shutdown!Next
  /\ UNCHANGED which

MCSpec == MCInit /\ [][MCNext]_allVars

\* The cached partition lists are those of the metadata, whatever refreshes of one topic, of
\* all topics and topics with errors come in between; retries stay within their limit.
CacheFollows ==
  /\ CacheAgrees
  /\ which = "cache" => TypeOK
  /\ which = "alone" => alone!TypeOK
  /\ which = "shutdown" => shutdown!TypeOK


=============================================================================
