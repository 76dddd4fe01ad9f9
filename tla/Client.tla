------------------------------- MODULE Client -------------------------------
(***************************************************************************)
(* The client (client.go): what it knows of the cluster (brokers,          *)
(* metadata and the partition lists derived from it, controller,           *)
(* coordinators), the seed brokers it falls back on, the refresh loops     *)
(* with their retries, the background updater and Close, called from       *)
(* several goroutines.                                                     *)
(*                                                                         *)
(* Every section under client.lock is one action.  A Broker object has an  *)
(* identity: two objects may stand for the same broker.  A broker's load   *)
(* is not modelled, so the least loaded broker may be any of them.         *)
(***************************************************************************)
EXTENDS Integers, Sequences, FiniteSets, SequencesExt, FiniteSetsExt, Functions

CONSTANTS
  Callers,      \* goroutines of the application
  Ops,          \* the operations they call, a subset of AllOps
  Topics,       \* topic names, the internal ones included
  SeedAddrs,    \* the addresses given to NewClient
  Clusters,     \* the states of the cluster (see cluster)
  RetryMax,     \* Metadata.Retry.Max
  Full,         \* Metadata.Full
  Refreshing,   \* Metadata.RefreshFrequency > 0
  Timeout,      \* Metadata.Timeout > 0
  PoliteClose,  \* the application calls Close only when its other calls have returned
  MaxCalls,     \* bound on the calls
  MaxChanges,   \* bound on the changes of the cluster
  MaxFaults     \* bound on failed requests to brokers that are up

AllOps == {"partitions", "writable", "replicas", "leader", "controller", "refreshController",
           "coordinator", "txnCoordinator", "refresh", "getOffset", "initPid", "refreshBrokers", "close"}

ASSUME ConfigAssumption ==
  /\ Ops \subseteq AllOps /\ RetryMax \in Nat
  /\ {Full, Refreshing, Timeout, PoliteClose} \subseteq BOOLEAN
  /\ MaxCalls \in Nat /\ MaxChanges \in Nat /\ MaxFaults \in Nat

VARIABLES
  phase,      \* "new" while NewClient runs, then "running" or "failed"
  brokers,    \* client.brokers: a Broker object for each id
  nilBrokers, \* client.brokers is nil, which is what Closed tests
  metadata,   \* client.metadata: for each topic the leader of each partition
  cache,      \* client.cachedPartitionsResults
  tracked,    \* client.metadataTopics
  nilMeta,    \* client.metadata and client.metadataTopics are nil
  ctl,        \* client.controllerID
  coord,      \* client.coordinators and client.transactionCoordinators, for one name each
  seeds,      \* client.seedBrokers
  dead,       \* client.deadSeeds
  closer,     \* client.closer is closed
  call,       \* what each goroutine is doing
  open,       \* the Broker objects with a connection
  closing,    \* the Broker objects a safeAsyncClose goroutine is about to close
  panic,      \* a goroutine has panicked
  cluster,    \* [up, addr, ctl, coord, topics]: the addresses that answer and what they say
  calls, changes, faults

maps == <<brokers, nilBrokers, metadata, cache, tracked, nilMeta, ctl, coord>>
env == <<cluster, changes, faults>>
vars == <<phase, maps, seeds, dead, closer, call, open, closing, panic, env, calls>>

Updater == "updater"
Procs == Callers \union {Updater}
NoId == -1
NoLeader == -2
NoBroker == [id |-> NoId, addr |-> "none", n |-> 0]
CoordOps == {"coordinator", "txnCoordinator"}
LookupOps == {"partitions", "writable", "replicas", "leader", "controller"} \union CoordOps

\* The topics findCoordinator asks the leader of when there is no coordinator yet.
Internal(op) == IF op = "coordinator" THEN <<"offsets">> ELSE <<"offsets", "txnState">>

\* A goroutine between two calls; err and tried are history about the application's last call.
Idle(err, tried) ==
  [op |-> "idle", pc |-> "idle", topic |-> "", topics |-> {}, attempts |-> 0, broker |-> NoBroker,
   resp |-> <<>>, again |-> FALSE, nested |-> 0, saved |-> 0, bumped |-> FALSE,
   err |-> err, tried |-> tried]

\* Broker objects that can still be reached.
Live == Range(brokers) \union ToSet(seeds) \union ToSet(dead) \union open \union closing
        \union {call[c].broker : c \in Procs}

\* A new Broker object (NewBroker, or the decoder of a response).
Fresh(id, addr) ==
  LET used == {b.n : b \in {x \in Live : x.id = id /\ x.addr = addr}}
  IN [id |-> id, addr |-> addr, n |-> CHOOSE n \in 1..(Cardinality(used) + 1) : n \notin used]

\* The orders of a set of addresses: randomizeSeedBrokers.
Orders(S) == {s \in [1..Cardinality(S) -> S] : \A i, j \in DOMAIN s : i # j => s[i] # s[j]}

\* Broker.Open: the connection is made when the address answers.
Opened(b) == IF b.addr \in cluster.up THEN open \union {b} ELSE open

Init ==
  /\ phase = IF Full THEN "new" ELSE "running"
  /\ brokers = <<>> /\ nilBrokers = FALSE /\ nilMeta = FALSE
  /\ metadata = <<>> /\ cache = <<>> /\ tracked = {}
  /\ ctl = 0 /\ coord = [k \in CoordOps |-> NoId]
  /\ \E s \in Orders(SeedAddrs) : seeds = [i \in DOMAIN s |-> [id |-> NoId, addr |-> s[i], n |-> 1]]
  /\ dead = <<>> /\ closer = FALSE
  /\ call = [c \in Procs |->
       IF c = Updater /\ Full
       THEN [Idle("nil", {}) EXCEPT !.op = "initial", !.pc = "least", !.attempts = RetryMax]
       ELSE IF c = Updater /\ ~Refreshing THEN [Idle("nil", {}) EXCEPT !.op = "done"]
       ELSE Idle("nil", {})]
  /\ open = {} /\ closing = {} /\ panic = FALSE
  /\ cluster \in Clusters
  /\ calls = 0 /\ changes = 0 /\ faults = 0

----------------------------------------------------------------------------
(* Calls: how they start and how they return.                               *)

Is(c, pc) == call[c].pc = pc /\ ~panic
Set(c, r) == call' = [call EXCEPT ![c] = r]
Goto(c, pc) == Set(c, [call[c] EXCEPT !.pc = pc])
Return(c, err) == Set(c, IF c = Updater THEN Idle("nil", {}) ELSE Idle(err, call[c].tried))

\* What the updater does when its refresh is over; the first one decides about NewClient.
FatalAtStart(err) == err \notin {"nil", "ErrLeaderNotAvailable", "ErrReplicaNotAvailable",
                                  "ErrTopicAuthorizationFailed", "ErrClusterAuthorizationFailed"}

\* GetOffset, when getOffset has failed: the first time it refreshes and tries again.
OffsetFailed(r, err) ==
  IF r.saved = 0 THEN [r EXCEPT !.saved = 1, !.again = FALSE, !.pc = "check", !.broker = NoBroker]
  ELSE Idle(err, r.tried)

\* The record of goroutine c once the RefreshMetadata it is in has returned err.
AfterRefresh(c, err) ==
  LET r == [call[c] EXCEPT !.broker = NoBroker, !.resp = <<>>] IN
  CASE r.nested > 0 -> IF err = "nil" THEN [r EXCEPT !.pc = "internal", !.again = TRUE]
                       ELSE [r EXCEPT !.pc = "internal", !.again = FALSE, !.nested = @ + 1]
    [] r.op = "initial" ->
         IF FatalAtStart(err) THEN [r EXCEPT !.pc = "abandon", !.err = err]
         ELSE IF Refreshing THEN Idle("nil", {}) ELSE [Idle("nil", {}) EXCEPT !.op = "done"]
    [] r.op = "getOffset" /\ r.saved = 1 ->
         IF err = "nil" THEN [r EXCEPT !.pc = "lookup", !.again = FALSE, !.saved = 2] ELSE Idle(err, r.tried)
    [] r.op = "getOffset" /\ r.saved # 1 /\ err # "nil" -> OffsetFailed(r, err)
    [] r.nested = 0 /\ err = "nil"
       /\ (r.op \in LookupOps \union {"refreshController"} \/ (r.op = "getOffset" /\ r.saved # 1)) ->
         [r EXCEPT !.pc = "lookup", !.again = TRUE]
    [] OTHER -> IF c = Updater THEN Idle("nil", {}) ELSE Idle(err, r.tried)

\* RefreshMetadata returns err; NewClient returns when its first refresh has.
FinishRefresh(c, err) ==
  /\ Set(c, AfterRefresh(c, err))
  /\ phase' = IF call[c].op = "initial" /\ ~FatalAtStart(err) THEN "running" ELSE phase

\* A call begins: most test Closed first.
Begin(c, op, topic) ==
  /\ Is(c, "idle") /\ call[c].op = "idle" /\ phase = "running" /\ calls < MaxCalls
  /\ op = "close" /\ PoliteClose => \A d \in Callers : call[d].op = "idle"
  /\ PoliteClose => ~closer /\ \A d \in Callers : call[d].op # "close"
  /\ calls' = calls + 1
  /\ IF nilBrokers /\ op # "initPid"
     THEN Set(c, Idle("ErrClosedClient", {}))
     ELSE Set(c, [Idle("nil", {}) EXCEPT
            !.op = op, !.topic = topic, !.topics = IF topic = "" THEN {} ELSE {topic}, !.attempts = RetryMax,
            !.pc = CASE op \in LookupOps \union {"getOffset"} -> "lookup"
                     [] op = "refreshController" -> "deregisterController"
                     [] op = "refreshBrokers" -> "swap"
                     [] op = "close" -> "close"
                     [] OTHER -> "least"])
  /\ UNCHANGED <<phase, maps, seeds, dead, closer, open, closing, panic, env>>

\* The ticker fires in backgroundMetadataUpdater, or NewClient's updater sees closer.
Tick ==
  /\ Is(Updater, "idle") /\ call[Updater].op = "idle" /\ phase = "running"
  /\ Set(Updater, [Idle("nil", {}) EXCEPT !.op = "tick", !.pc = "selectTopics"])
  /\ UNCHANGED <<phase, maps, seeds, dead, closer, open, closing, panic, env, calls>>

UpdaterStops ==
  /\ Is(Updater, "idle") /\ call[Updater].op = "idle" /\ closer
  /\ Set(Updater, [Idle("nil", {}) EXCEPT !.op = "done"])
  /\ UNCHANGED <<phase, maps, seeds, dead, closer, open, closing, panic, env, calls>>

\* refreshMetadata: all topics, or those seen so far.
SelectTopics(c) ==
  /\ Is(c, "selectTopics")
  /\ IF Full THEN Set(c, [call[c] EXCEPT !.pc = "check", !.topics = {}])
     ELSE IF nilBrokers THEN Return(c, "ErrClosedClient")
     ELSE IF tracked = {} THEN Return(c, "ErrNoTopicsToUpdateMetadata")
     ELSE Set(c, [call[c] EXCEPT !.pc = "check", !.topics = tracked])
  /\ UNCHANGED <<phase, maps, seeds, dead, closer, open, closing, panic, env, calls>>

\* RefreshMetadata or RefreshCoordinator begins.
Check(c) ==
  /\ Is(c, "check")
  /\ IF nilBrokers THEN FinishRefresh(c, "ErrClosedClient")
     ELSE Set(c, [call[c] EXCEPT !.pc = "least", !.attempts = RetryMax]) /\ UNCHANGED phase
  /\ UNCHANGED <<maps, seeds, dead, closer, open, closing, panic, env, calls>>

----------------------------------------------------------------------------
(* The operations that look into the cache first.                           *)

\* cachedLeader: the Broker object of the leader of partition 0, NoBroker if there is none.
CachedLeader(t) ==
  IF t \in DOMAIN metadata /\ metadata[t][0] \in DOMAIN brokers THEN brokers[metadata[t][0]] ELSE NoBroker

\* What an operation finds: "hit", or the error it returns when a refresh did not help.
Found(r) ==
  CASE r.op = "partitions" -> IF r.topic \in DOMAIN cache THEN "hit" ELSE "ErrUnknownTopicOrPartition"
    [] r.op = "writable" ->
         IF r.topic \in DOMAIN cache /\ (r.again \/ cache[r.topic].writable # {}) THEN "hit"
         ELSE "ErrUnknownTopicOrPartition"
    [] r.op = "replicas" -> IF r.topic \in DOMAIN metadata THEN "hit" ELSE "ErrUnknownTopicOrPartition"
    [] r.op \in {"leader", "getOffset"} ->
         IF CachedLeader(r.topic) # NoBroker THEN "hit" ELSE "ErrLeaderNotAvailable"
    [] r.op \in {"controller", "refreshController"} ->
         IF ctl \in DOMAIN brokers THEN "hit" ELSE "ErrControllerNotAvailable"
    [] r.op \in CoordOps ->
         IF coord[r.op] \in DOMAIN brokers THEN "hit" ELSE "ErrConsumerCoordinatorNotAvailable"

\* The lookup, before and after the refresh. Leader opens the connection under the lock,
\* Controller and Coordinator after it.
Lookup(c) ==
  LET r == call[c]
      found == Found(r)
  IN /\ Is(c, "lookup")
     /\ CASE found = "hit" /\ r.op \in {"partitions", "writable", "replicas"} -> Return(c, "nil") /\ UNCHANGED open
          [] found = "hit" /\ r.op \in {"leader", "getOffset"} ->
               /\ open' = Opened(CachedLeader(r.topic))
               /\ IF r.op = "leader" THEN Return(c, "nil")
                  ELSE Set(c, [r EXCEPT !.pc = "offsets", !.broker = CachedLeader(r.topic)])
          [] found = "hit" /\ r.op \in CoordOps ->
               Set(c, [r EXCEPT !.pc = "open", !.broker = brokers[coord[r.op]]]) /\ UNCHANGED open
          [] found = "hit" /\ r.op \in {"controller", "refreshController"} ->
               Set(c, [r EXCEPT !.pc = "open", !.broker = brokers[ctl]]) /\ UNCHANGED open
          [] found # "hit" /\ r.again ->
               Set(c, IF r.op = "getOffset" THEN OffsetFailed(r, found) ELSE Idle(found, r.tried)) /\ UNCHANGED open
          [] OTHER -> Goto(c, IF r.op = "controller" THEN "selectTopics" ELSE "check") /\ UNCHANGED open
     /\ UNCHANGED <<phase, maps, seeds, dead, closer, closing, panic, env, calls>>

\* Controller, RefreshController and Coordinator open the broker they return.
OpenReturned(c) ==
  /\ Is(c, "open")
  /\ open' = Opened(call[c].broker)
  /\ Return(c, "nil")
  /\ UNCHANGED <<phase, maps, seeds, dead, closer, closing, panic, env, calls>>

\* getOffset asks the leader: the offset, an error of the partition, or a failure, after which
\* the broker is closed but stays in the map.
GetAvailableOffsets(c) ==
  LET b == call[c].broker
      reachable == b \in open /\ b.addr \in cluster.up
  IN /\ Is(c, "offsets")
     /\ \/ reachable /\ Return(c, "nil") /\ UNCHANGED <<open, faults>>
        \/ /\ reachable => faults < MaxFaults
           /\ faults' = IF reachable THEN faults + 1 ELSE faults
           /\ open' \in {open \ {b}} \union (IF reachable THEN {open} ELSE {})
           /\ Set(c, OffsetFailed(call[c], "error"))
     /\ UNCHANGED <<phase, maps, seeds, dead, closer, closing, panic, cluster, changes, calls>>

\* deregisterController, the first step of RefreshController.
DeregisterController(c) ==
  /\ Is(c, "deregisterController")
  /\ IF ctl \in DOMAIN brokers
     THEN open' = open \ {brokers[ctl]} /\ brokers' = Restrict(brokers, DOMAIN brokers \ {ctl})
     ELSE UNCHANGED <<open, brokers>>
  /\ Goto(c, "selectTopics")
  /\ UNCHANGED <<phase, nilBrokers, metadata, cache, tracked, nilMeta, ctl, coord, seeds, dead, closer,
                 closing, panic, env, calls>>

\* RefreshBrokers under the lock: new seeds, no brokers, whatever Close did meanwhile.
SwapSeeds(c) ==
  /\ Is(c, "swap")
  /\ closing' = closing \union Range(brokers) \union ToSet(seeds) \union ToSet(dead)
  /\ brokers' = <<>> /\ nilBrokers' = FALSE
  /\ \E s \in Orders(SeedAddrs) : seeds' = [i \in DOMAIN s |-> Fresh(NoId, s[i])]
  /\ dead' = <<>>
  /\ Return(c, "nil")
  /\ UNCHANGED <<phase, metadata, cache, tracked, nilMeta, ctl, coord, closer, open, panic, env, calls>>

----------------------------------------------------------------------------
(* The loops of tryRefreshMetadata, findCoordinator and InitProducerID.     *)

\* What a goroutine in one of the loops asks the brokers for.
Wants(c) ==
  CASE call[c].op = "initPid" -> "pid"
    [] call[c].op \in CoordOps /\ call[c].nested = 0 -> "coordinator"
    [] OTHER -> "metadata"

\* The loop is left with an error.
GiveUp(c, err) ==
  IF Wants(c) = "metadata" THEN FinishRefresh(c, err) ELSE Return(c, err) /\ UNCHANGED phase

\* LeastLoadedBroker: one of the known brokers, else the first seed, which it opens.
Least(c) ==
  /\ Is(c, "least")
  /\ IF brokers # <<>> \/ seeds # <<>>
     THEN \E b \in IF brokers # <<>> THEN Range(brokers) ELSE {Head(seeds)} :
            /\ open' = Opened(b)
            /\ Set(c, [call[c] EXCEPT !.pc = "request", !.broker = b])
     ELSE /\ IF Wants(c) = "pid" THEN Return(c, "ErrOutOfBrokers") ELSE Goto(c, "resurrect")
          /\ UNCHANGED open
  /\ UNCHANGED <<phase, maps, seeds, dead, closer, closing, panic, env, calls>>

\* The deadline of Metadata.Timeout has passed: no request, and no retry either.
PastDeadline(c) ==
  /\ Timeout /\ Is(c, "request") /\ Wants(c) = "metadata"
  /\ FinishRefresh(c, "ErrOutOfBrokers")
  /\ UNCHANGED <<maps, seeds, dead, closer, open, closing, panic, env, calls>>

\* A request for metadata tells the others that sleep before a retry that one was sent.
Bump(c, r) ==
  call' = [d \in Procs |->
    IF d = c THEN r
    ELSE IF Wants(c) = "metadata" /\ call[d].pc = "sleep" THEN [call[d] EXCEPT !.bumped = TRUE] ELSE call[d]]

\* The metadata response for the topics asked for, all if none is named.
MetadataResponse(topics) ==
  [addr |-> cluster.addr, ctl |-> cluster.ctl,
   topics |-> Restrict(cluster.topics,
                IF topics = {} THEN {t \in Topics : cluster.topics[t].err # "ErrUnknownTopicOrPartition"} ELSE topics)]

\* The broker answers.
Request(c) ==
  LET r == call[c] IN
  /\ Is(c, "request") /\ r.broker \in open /\ r.broker.addr \in cluster.up
  /\ CASE Wants(c) = "metadata" -> Bump(c, [r EXCEPT !.pc = "update", !.resp = MetadataResponse(r.topics)])
       [] Wants(c) = "coordinator" ->
            Set(c, IF cluster.coord # NoId THEN [r EXCEPT !.pc = "register", !.broker = NoBroker,
                      !.resp = [id |-> cluster.coord, addr |-> cluster.addr[cluster.coord]]]
                   ELSE [r EXCEPT !.pc = "internal", !.nested = 1, !.saved = r.attempts, !.broker = NoBroker])
       [] OTHER -> Return(c, "nil")
  /\ UNCHANGED <<phase, maps, seeds, dead, closer, open, closing, panic, env, calls>>

\* The request fails: the broker cannot be reached, the connection breaks, or the answer is an
\* error or has no brokers. The broker is closed and dropped.
RequestFails(c) ==
  LET reachable == call[c].broker \in open /\ call[c].broker.addr \in cluster.up IN
  /\ Is(c, "request")
  /\ reachable => faults < MaxFaults
  /\ faults' = IF reachable THEN faults + 1 ELSE faults
  /\ Bump(c, [call[c] EXCEPT !.pc = "closeBroker"])
  /\ UNCHANGED <<phase, maps, seeds, dead, closer, open, closing, panic, cluster, changes, calls>>

\* An error for which no other broker is tried.
RequestRefused(c) ==
  /\ Is(c, "request") /\ call[c].broker \in open /\ faults < MaxFaults /\ faults' = faults + 1
  /\ CASE Wants(c) = "metadata" ->
            \E err \in {"ErrSASLAuthenticationFailed", "ErrTopicAuthorizationFailed", "PacketEncodingError"} :
              FinishRefresh(c, err)
       [] Wants(c) = "coordinator" ->
            /\ \/ Set(c, [call[c] EXCEPT !.pc = "retry", !.err = "ErrGroupAuthorizationFailed", !.broker = NoBroker])
               \/ Return(c, "error")
            /\ UNCHANGED phase
       [] Wants(c) = "pid" -> Return(c, "nil") /\ UNCHANGED phase
  /\ UNCHANGED <<maps, seeds, dead, closer, open, closing, panic, cluster, changes, calls>>

\* broker.Close(), before the broker is taken out of the maps.
CloseBroker(c) ==
  /\ Is(c, "closeBroker")
  /\ open' = open \ {call[c].broker}
  /\ Set(c, [call[c] EXCEPT !.pc = "deregister",
                     !.tried = IF c = Updater THEN {} ELSE @ \union {call[c].broker.addr}])
  /\ UNCHANGED <<phase, maps, seeds, dead, closer, closing, panic, env, calls>>

\* deregisterBroker: by its id, or as the first seed.
Deregister(c) ==
  LET b == call[c].broker IN
  /\ Is(c, "deregister")
  /\ IF b.id \in DOMAIN brokers
     THEN brokers' = Restrict(brokers, DOMAIN brokers \ {b.id}) /\ UNCHANGED <<seeds, dead>>
     ELSE IF seeds # <<>> /\ Head(seeds) = b
     THEN dead' = Append(dead, b) /\ seeds' = Tail(seeds) /\ UNCHANGED brokers
     ELSE UNCHANGED <<brokers, seeds, dead>>
  /\ Set(c, [call[c] EXCEPT !.pc = "least", !.broker = NoBroker])
  /\ UNCHANGED <<phase, nilBrokers, metadata, cache, tracked, nilMeta, ctl, coord, closer, open, closing,
                 panic, env, calls>>


\* resurrectDeadBrokers, when no broker is left.
Resurrect(c) ==
  /\ Is(c, "resurrect")
  /\ seeds' = seeds \o dead /\ dead' = <<>>
  /\ Set(c, [call[c] EXCEPT !.pc = "retry", !.err = "ErrOutOfBrokers"])
  /\ UNCHANGED <<phase, maps, closer, open, closing, panic, env, calls>>

\* retry: give up, or sleep for the backoff.
Retry(c) ==
  /\ Is(c, "retry")
  /\ \/ /\ call[c].attempts = 0 \/ (Timeout /\ Wants(c) = "metadata")
        /\ GiveUp(c, call[c].err)
     \/ /\ call[c].attempts > 0
        /\ Set(c, [call[c] EXCEPT !.pc = "sleep", !.bumped = FALSE])
        /\ UNCHANGED phase
  /\ UNCHANGED <<maps, seeds, dead, closer, open, closing, panic, env, calls>>

\* After the backoff: another try, unless metadata were asked for in the meantime.
Wake(c) ==
  /\ Is(c, "sleep")
  /\ \/ call[c].bumped /\ GiveUp(c, call[c].err)
     \/ Set(c, [call[c] EXCEPT !.pc = "least", !.attempts = @ - 1, !.bumped = FALSE]) /\ UNCHANGED phase
  /\ UNCHANGED <<maps, seeds, dead, closer, open, closing, panic, env, calls>>

----------------------------------------------------------------------------
(* What the answers change.                                                 *)

\* updateMetadata tests Closed before it takes the lock.
Update(c) ==
  /\ Is(c, "update")
  /\ IF nilBrokers THEN FinishRefresh(c, "nil") ELSE Goto(c, "apply") /\ UNCHANGED phase
  /\ UNCHANGED <<maps, seeds, dead, closer, open, closing, panic, env, calls>>

\* updateBroker: known brokers keep their object unless the address changed.
UpdateBroker(addr) ==
  /\ brokers' = [id \in DOMAIN addr |->
       IF id \in DOMAIN brokers /\ brokers[id].addr = addr[id] THEN brokers[id] ELSE Fresh(id, addr[id])]
  /\ closing' = closing \union (Range(brokers) \ Range(brokers'))

Writable(leaders) == {p \in DOMAIN leaders : leaders[p] # NoLeader}

\* setPartitionCache for both lists.
PartitionLists(leaders) == [all |-> DOMAIN leaders, writable |-> Writable(leaders)]

\* A topic is stored when it has no error or only lacks leaders.
Stored(topics) == {t \in DOMAIN topics : topics[t].err \in {"nil", "ErrLeaderNotAvailable"}}

\* Faulty variant: the partition lists of a topic with an error are kept.
UpdateListsOfStored(topics, all) ==
  cache' = [t \in Stored(topics) |-> PartitionLists(topics[t].leaders)] @@ (IF all THEN <<>> ELSE cache)

\* The partition lists follow the metadata.
UpdateLists(topics, all) ==
  cache' = [t \in Stored(topics) |-> PartitionLists(topics[t].leaders)]
           @@ (IF all THEN <<>> ELSE Restrict(cache, DOMAIN cache \ DOMAIN topics))

Track(topics, all) == tracked' = DOMAIN topics \union (IF all THEN {} ELSE tracked)

\* Whether updateMetadata wants another try, and the errors of which it returns the last.
Leaderless(topics) ==
  \E t \in DOMAIN topics :
    \/ topics[t].err \in {"ErrUnknownTopicOrPartition", "ErrLeaderNotAvailable"}
    \/ t \in Stored(topics) /\ NoLeader \in Range(topics[t].leaders)
Errors(topics) ==
  LET errs == {topics[t].err : t \in DOMAIN topics} \ {"nil", "ErrLeaderNotAvailable"}
  IN IF errs = {} THEN {"nil"} ELSE errs

\* updateMetadata under the lock. A write to a nil map panics.
Apply(c) ==
  LET r == call[c]
      topics == r.resp.topics
      all == r.topics = {}
  IN /\ Is(c, "apply")
     /\ IF nilBrokers \/ (nilMeta /\ ~all /\ topics # <<>>)
        THEN panic' = TRUE /\ UNCHANGED <<phase, maps, closing, call>>
        ELSE /\ UpdateBroker(r.resp.addr)
             /\ ctl' = r.resp.ctl
             /\ Track(topics, all)
             /\ metadata' = [t \in Stored(topics) |-> topics[t].leaders]
                            @@ (IF all THEN <<>> ELSE Restrict(metadata, DOMAIN metadata \ DOMAIN topics))
             /\ UpdateLists(topics, all)
             /\ nilMeta' = (nilMeta /\ ~all)
             /\ \E err \in Errors(topics) :
                  IF Leaderless(topics)
                  THEN Set(c, [r EXCEPT !.pc = "retry", !.err = err, !.broker = NoBroker, !.resp = <<>>])
                       /\ UNCHANGED phase
                  ELSE FinishRefresh(c, err)
             /\ UNCHANGED <<nilBrokers, coord, panic>>
     /\ UNCHANGED <<seeds, dead, closer, open, env, calls>>

\* RefreshCoordinator stores the coordinator; registerBroker does nothing once closed.
Register(c) ==
  LET id == call[c].resp.id
      addr == call[c].resp.addr
      b == IF id \in DOMAIN brokers /\ brokers[id].addr = addr THEN brokers[id] ELSE Fresh(id, addr)
  IN /\ Is(c, "register")
     /\ IF nilBrokers THEN UNCHANGED <<brokers, closing>>
        ELSE /\ brokers' = (id :> b) @@ brokers
             /\ closing' = closing \union (Range(brokers) \ Range(brokers'))
     /\ coord' = [coord EXCEPT ![call[c].op] = id]
     /\ Set(c, [call[c] EXCEPT !.pc = "lookup", !.again = TRUE, !.resp = <<>>])
     /\ UNCHANGED <<phase, nilBrokers, metadata, cache, tracked, nilMeta, ctl, seeds, dead, closer, open,
                    panic, env, calls>>

\* There is no coordinator yet: findCoordinator asks for the leader of the internal topics, which
\* creates them, whatever the outcome, and tries again.
InternalTopics(c) ==
  LET r == call[c]
      t == Internal(r.op)[r.nested]
  IN /\ Is(c, "internal")
     /\ IF r.nested > Len(Internal(r.op))
        THEN /\ Set(c, [r EXCEPT !.pc = "retry", !.nested = 0, !.attempts = r.saved, !.topics = {},
                                 !.err = "ErrConsumerCoordinatorNotAvailable"])
             /\ UNCHANGED open
        ELSE IF CachedLeader(t) # NoBroker
        THEN open' = Opened(CachedLeader(t)) /\ Set(c, [r EXCEPT !.nested = @ + 1, !.again = FALSE])
        ELSE /\ Set(c, IF r.again THEN [r EXCEPT !.nested = @ + 1, !.again = FALSE]
                       ELSE [r EXCEPT !.pc = "check", !.topics = {t}])
             /\ UNCHANGED open
     /\ UNCHANGED <<phase, maps, seeds, dead, closer, closing, panic, env, calls>>

----------------------------------------------------------------------------
(* Close.                                                                   *)

\* close(client.closer), which panics when done twice.
Close(c) ==
  /\ Is(c, "close")
  /\ IF closer THEN panic' = TRUE /\ UNCHANGED <<closer, call>>
     ELSE closer' = TRUE /\ Goto(c, "waitUpdater") /\ UNCHANGED panic
  /\ UNCHANGED <<phase, maps, seeds, dead, open, closing, env, calls>>

\* The rest of Close, under the lock.
CloseAll ==
  /\ closing' = closing \union Range(brokers) \union ToSet(seeds)
  /\ brokers' = <<>> /\ nilBrokers' = TRUE
  /\ metadata' = <<>> /\ tracked' = {} /\ nilMeta' = TRUE
  /\ UNCHANGED <<cache, ctl, coord, seeds, dead>>


\* Close goes on when the updater has ended.
CloseFinishes(c) ==
  /\ Is(c, "waitUpdater") /\ call[Updater].op = "done"
  /\ CloseAll
  /\ Return(c, "nil")
  /\ UNCHANGED <<phase, closer, open, panic, env, calls>>

\* NewClient gives up: it closes what its first refresh opened.
Abandon(c) ==
  /\ Is(c, "abandon")
  /\ CloseAll
  /\ closer' = TRUE /\ phase' = "failed"
  /\ Set(c, [Idle("nil", {}) EXCEPT !.op = "done"])
  /\ UNCHANGED <<open, panic, env, calls>>

\* The goroutine of safeAsyncClose.
AsyncClose(b) ==
  /\ ~panic /\ b \in closing
  /\ closing' = closing \ {b} /\ open' = open \ {b}
  /\ UNCHANGED <<phase, maps, seeds, dead, closer, call, panic, env, calls>>

\* The cluster changes: brokers come, go and move, leaders are elected.
ClusterChanges ==
  /\ changes < MaxChanges /\ changes' = changes + 1
  /\ cluster' \in Clusters \ {cluster}
  /\ UNCHANGED <<phase, maps, seeds, dead, closer, call, open, closing, panic, faults, calls>>

Step(c) ==
  \/ SelectTopics(c) \/ Check(c) \/ Lookup(c) \/ OpenReturned(c) \/ GetAvailableOffsets(c)
  \/ DeregisterController(c) \/ SwapSeeds(c) \/ Least(c) \/ PastDeadline(c) \/ Request(c)
  \/ RequestFails(c) \/ RequestRefused(c) \/ CloseBroker(c) \/ Deregister(c) \/ Resurrect(c)
  \/ Retry(c) \/ Wake(c) \/ Update(c) \/ Apply(c) \/ Register(c) \/ InternalTopics(c)
  \/ Close(c) \/ CloseFinishes(c) \/ Abandon(c)

Next ==
  \/ \E c \in Callers, op \in Ops, t \in Topics : Begin(c, op, t)
  \/ \E c \in Callers : "refresh" \in Ops /\ Begin(c, "refresh", "")
  \/ Tick \/ UpdaterStops
  \/ \E c \in Procs : Step(c)
  \/ \E b \in closing : AsyncClose(b)
  \/ ClusterChanges

Spec == Init /\ [][Next]_vars

----------------------------------------------------------------------------
(* Properties.                                                              *)

\* The variables have the types of what they stand for: the maps hold brokers under their own id
\* and are empty once nil.
TypeOK ==
  /\ phase \in {"new", "running", "failed"}
  /\ \A id \in DOMAIN brokers : brokers[id].id = id
  /\ nilBrokers => brokers = <<>>
  /\ nilMeta => metadata = <<>> /\ tracked = {}
  /\ tracked \subseteq Topics /\ calls \in 0..MaxCalls
  /\ \A c \in Procs : call[c].attempts \in 0..RetryMax

\* The cached partition lists are those of the metadata, whatever refreshes of one topic, of all
\* topics and topics with errors come in between ("It is important to update this value whenever
\* metadata is changed").
CacheAgrees ==
  ~nilMeta => cache = [t \in DOMAIN metadata |-> PartitionLists(metadata[t])]

\* No seed broker is ever lost: each is in one of the two lists, once.
SeedsKept ==
  LET s == seeds \o dead
  IN Len(s) = Cardinality(SeedAddrs) /\ {s[i].addr : i \in DOMAIN s} = SeedAddrs

\* A call that fails with ErrOutOfBrokers has tried every seed broker.
TriedAll ==
  \A c \in Callers : call[c].op = "idle" /\ call[c].err = "ErrOutOfBrokers" => SeedAddrs \subseteq call[c].tried

\* No write to a nil map and no second close of a channel: "It is safe to share a client amongst
\* many users".
NoPanic == ~panic

\* "Close shuts down all broker connections managed by this client": once it has returned and no
\* call is running no connection is open.
AllClosed ==
  (nilBrokers /\ closing = {} /\ \A c \in Procs : call[c].op \in {"idle", "done"}) => open = {}

\* What the client knows is what the cluster says.
UpToDate ==
  /\ [id \in DOMAIN brokers |-> brokers[id].addr] = cluster.addr
  /\ ctl = cluster.ctl
  /\ \A t \in tracked : cluster.topics[t].err = "nil" =>
       t \in DOMAIN metadata /\ metadata[t] = cluster.topics[t].leaders

=============================================================================
