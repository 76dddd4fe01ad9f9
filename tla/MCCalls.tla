------------------------------ MODULE MCCalls ------------------------------
(***************************************************************************)
(* Blocking calls of an application: five instances over one set of        *)
(* variables; `which` says the one a behaviour belongs to, and the         *)
(* variables of the others keep their first value.                         *)
(*   sync     SendMessage and SendMessages of a synchronous producer;      *)
(*   admin    a call of the cluster admin, with every operation;           *)
(*   live     a call of a client and its updater, with the cluster         *)
(*            changing under them;                                         *)
(*   lookup   calls that look for coordinators and offsets;                *)
(*   group    Consume and Close of two members of a consumer group.        *)
(***************************************************************************)
EXTENDS SyncProducer, Clusters

CONSTANTS m1, m2, b1, b2, g1, g2, nobody

Lists == {<<m1>>, <<m2>>, <<m1, m2>>}

VARIABLES
  which,
  actual, cached, moves, op, pc, attempts, target, served, pending, got, failed, result,
  phase, brokers, nilBrokers, metadata, cache, tracked, nilMeta, ctl, coord, seeds, dead,
  closer, ccall, open, cclosing, panic, cluster, calls, changes, faults,
  g, inbox, group, committed, seen, failures

admin == INSTANCE Admin WITH
  Brokers <- {b1, b2}, NoBroker <- nobody, RetryMax <- 1, MaxMoves <- 2

live == INSTANCE Client WITH
  Callers <- {"g1"}, Ops <- {"writable"}, Topics <- {"t"}, SeedAddrs <- {"b"},
  Clusters <- LiveClusters({"t"}), RetryMax <- 1, Full <- TRUE, Refreshing <- TRUE,
  Timeout <- FALSE, PoliteClose <- TRUE, MaxCalls <- 1, MaxChanges <- 1, MaxFaults <- 0,
  call <- ccall, closing <- cclosing

lookup == INSTANCE Client WITH
  Callers <- {"g1"}, Ops <- {"coordinator", "txnCoordinator", "getOffset"},
  Topics <- {"offsets", "txnState"}, SeedAddrs <- {"b"},
  Clusters <- LiveClusters({"offsets", "txnState"}), RetryMax <- 1, Full <- FALSE,
  Refreshing <- FALSE, Timeout <- FALSE, PoliteClose <- TRUE, MaxCalls <- 1,
  MaxChanges <- 1, MaxFaults <- 0, call <- ccall, closing <- cclosing

members == INSTANCE ConsumerGroup WITH
  Members <- {g1, g2}, Partitions <- {"p"}, LogEnd <- 1, MaxRetries <- 1, RequireId <- FALSE,
  Closers <- {g1}, Faults <- {"expire", "commit"}, MaxFaults <- 1, faults <- failures

clientVars == <<phase, brokers, nilBrokers, metadata, cache, tracked, nilMeta, ctl, coord,
                seeds, dead, closer, ccall, open, cclosing, panic, cluster, calls, changes,
                faults>>
adminVars == <<actual, cached, moves, op, pc, attempts, target, served, pending, got,
               failed, result>>
groupVars == <<g, inbox, group, committed, seen, failures>>
allVars == <<which, vars, adminVars, clientVars, groupVars>>

NoAdmin ==
  /\ actual = 0 /\ cached = 0 /\ moves = 0 /\ op = 0 /\ pc = 0 /\ attempts = 0 /\ target = 0
  /\ served = 0 /\ pending = 0 /\ got = 0 /\ failed = 0 /\ result = 0
NoClient ==
  /\ phase = 0 /\ brokers = 0 /\ nilBrokers = 0 /\ metadata = 0 /\ cache = 0 /\ tracked = 0
  /\ nilMeta = 0 /\ ctl = 0 /\ coord = 0 /\ seeds = 0 /\ dead = 0 /\ closer = 0 /\ open = 0
  /\ ccall = 0 /\ cclosing = 0
  /\ panic = 0 /\ cluster = 0 /\ calls = 0 /\ changes = 0 /\ faults = 0

NoGroup == g = 0 /\ inbox = 0 /\ group = 0 /\ committed = 0 /\ seen = 0 /\ failures = 0

CallsInit ==
  /\ Init
  /\ \/ which = "sync" /\ NoAdmin /\ NoClient /\ NoGroup
     \/ which = "admin" /\ admin!Init /\ NoClient /\ NoGroup
     \/ which = "live" /\ live!Init /\ NoAdmin /\ NoGroup
     \/ which = "lookup" /\ lookup!Init /\ NoAdmin /\ NoGroup
     \/ which = "group" /\ members!Init /\ NoAdmin /\ NoClient

CallsNext ==
  /\ \/ which = "sync" /\ Next /\ UNCHANGED <<adminVars, clientVars, groupVars>>
     \/ which = "admin" /\ admin!Next /\ UNCHANGED <<vars, clientVars, groupVars>>
     \/ which = "live" /\ live!Next /\ UNCHANGED <<vars, adminVars, groupVars>>
     \/ which = "lookup" /\ lookup!Next /\ UNCHANGED <<vars, adminVars, groupVars>>
     \/ which = "group" /\ members!Next /\ UNCHANGED <<vars, adminVars, clientVars>>
  /\ UNCHANGED which

\* Fairness, instance by instance. Goroutines that can go on do, requests are answered or
\* time out; the asynchronous producer answers what it has taken and shuts down (its own
\* liveness); the ticker of the client's updater keeps ticking; the coordinator of a group
\* answers and completes rounds, handlers return when their messages are closed, and
\* Consume is called again.
SyncFairness ==
  /\ \A c \in Callers :
       /\ WF_vars(which = "sync" /\ Put(c))
       /\ WF_vars(which = "sync" /\ Collect(c))
       /\ WF_vars(which = "sync" /\ Return(c))
  /\ \A m \in Messages :
       /\ WF_vars(which = "sync" /\ AnswerComes(m))
       /\ WF_vars(which = "sync" /\ Handle(m))
  /\ WF_vars(which = "sync" /\ Shutdown) /\ WF_vars(which = "sync" /\ CloseReturn)
AdminFairness == WF_adminVars(which = "admin" /\ admin!Step)
ClientFairness ==
  /\ \A c \in live!Procs : WF_clientVars(which = "live" /\ live!Step(c))
  /\ WF_clientVars(which = "lookup" /\ lookup!Step("g1"))
  /\ WF_clientVars(which = "live" /\ live!Tick)
GroupFairness ==
  /\ WF_groupVars(which = "group" /\ members!CompleteJoin)
  /\ \A m \in {g1, g2} :
       /\ WF_groupVars(which = "group" /\ members!Consume(m))
       /\ WF_groupVars(which = "group" /\ members!ConsumeStep(m))
       /\ WF_groupVars(which = "group" /\ members!HeartbeatStep(m))
       /\ WF_groupVars(which = "group" /\ members!CloseStep(m))
       /\ WF_groupVars(which = "group" /\ members!ErrorSent(m))
       /\ WF_groupVars(which = "group" /\ members!Expire(m) /\ members!Gone(m))
       /\ WF_groupVars(which = "group" /\ members!ClaimStep(m, "p"))

CallsSpec ==
  /\ CallsInit /\ [][CallsNext]_allVars
  /\ SyncFairness /\ AdminFairness /\ ClientFairness /\ GroupFairness

-----------------------------------------------------------------------------

\* What a call of the admin tells is what was done: none is carried out twice, one without
\* an error has been carried out, and one that refreshes the controller fails to find it
\* only if it keeps moving.
AdminTellsTruth ==
  which = "admin" =>
    admin!TypeOK /\ admin!AtMostOnce /\ admin!OkMeansServed /\ admin!RetriesFollowController

\* Every call returns: of the synchronous producer (Close too), of the admin, of the
\* client, and Close of a member of a consumer group. Calls are bounded: that they all
\* return is that in the end none is running. As long as one member of the group stays,
\* every message is processed, whatever the other does; and a client that could be created
\* ends up knowing a cluster that no longer changes, whatever brokers it dropped and
\* whatever late answers it applied before.
CallReturns ==
  <>[](/\ closing # "waiting" /\ \A c \in Callers : call[c].st # "running"
       /\ which = "admin" => pc = "returned"
       /\ which \in {"live", "lookup"} => ccall["g1"].op = "idle"
       /\ which = "group" =>
            \A m \in {g1, g2} : g[m].closed => g[m].close = "done" /\ g[m].call = "idle")
AllProcessed ==
  <>(which = "group" => (\A m \in {g1, g2} : g[m].ctx \/ g[m].closed) \/ seen["p"] = 1)
ClientConverges == <>[](which = "live" => phase = "failed" \/ live!UpToDate)
EveryCallReturns == CallReturns /\ AllProcessed /\ ClientConverges
=============================================================================
