--------------------------- MODULE AsyncProducer ---------------------------
(***************************************************************************)
(* The asynchronous producer (async_producer.go, produce_set.go): the      *)
(* dispatcher, one partition producer per partition, the reference-counted *)
(* broker producers with their bridge to the connection, the retry handler *)
(* and the shutdown goroutine.  Each goroutine takes its steps between two *)
(* of its channel operations, so every interleaving of the goroutines is a *)
(* behaviour.                                                              *)
(*                                                                         *)
(* The producer is neither idempotent nor transactional and waits for      *)
(* acknowledgements; one topic is modelled, so the topic producer is the   *)
(* second half of the dispatcher's hand-off.                               *)
(***************************************************************************)
EXTENDS Integers, Sequences, FiniteSets

CONSTANTS
  NumMessages,       \* how many messages the application sends
  NumPartitions,     \* partitions of the topic
  InTurn,            \* whether messages go to the partitions in turn, or anywhere
  NumBrokers,        \* broker connections (Broker objects)
  NumSlots,          \* broker producers alive at the same time
  RetryMax,          \* Producer.Retry.Max
  ChannelBufferSize, \* capacity of a partition producer's input
  FlushMessages,     \* Producer.Flush.Messages
  FlushFrequency,    \* whether Producer.Flush.Frequency > 0
  FlushMaxMessages,  \* Producer.Flush.MaxMessages
  MaxOpenRequests,   \* Net.MaxOpenRequests
  Pipelining,        \* whether a request may be built before the last answer is handled
  Interceptors,      \* whether Producer.Interceptors is not empty
  SendAfterClose,    \* whether the application sends after AsyncClose
  Faults             \* what may go wrong around the producer

FaultKinds ==
  {"retriable", "appended", "fatal", "missing", "encoding", "net", "leader", "refuse"}

ASSUME ConstantsAssumption ==
  /\ NumMessages \in Nat /\ NumPartitions \in Nat \ {0}
  /\ InTurn \in BOOLEAN /\ NumBrokers \in Nat \ {0} /\ NumSlots \in Nat \ {0}
  /\ RetryMax \in Nat /\ ChannelBufferSize \in Nat
  /\ FlushMessages \in Nat /\ FlushFrequency \in BOOLEAN
  /\ FlushMaxMessages \in Nat
  /\ FlushMaxMessages > 0 => FlushMaxMessages >= FlushMessages
  /\ MaxOpenRequests \in Nat \ {0}
  /\ Pipelining \in BOOLEAN /\ Interceptors \in BOOLEAN /\ SendAfterClose \in BOOLEAN
  /\ Faults \subseteq FaultKinds

Messages == 1..NumMessages
Ids == 0..NumMessages             \* 0 identifies the syn and fin messages
Partitions == 0..NumPartitions-1
Brokers == 1..NumBrokers
Slots == 1..NumSlots
Levels == 0..RetryMax
NoSlot == 0
NoBroker == 0

(* A ProducerMessage in the pipeline: flags, identity, partition, retries. *)
Message == [flag : {"data", "syn", "fin"}, id : Ids, part : Partitions, retries : Levels]
NoMsg == [flag |-> "none", id |-> 0, part |-> 0, retries |-> 0]
Control(f, p, r) == [flag |-> f, id |-> 0, part |-> p, retries |-> r]

(* A produceSet: the messages collected for each partition. *)
ProduceSet == [Partitions -> Seq(Message)]
EmptySet == [p \in Partitions |-> <<>>]

(* What a produce response, or its absence, says about each partition.  A  *)
(* failed request has the same verdict for every partition.                *)
Verdicts == {"ok", "retriable", "fatal", "missing", "encoding", "net"}
Response == [set : ProduceSet, verdict : [Partitions -> Verdicts]]
Request == [bp : Slots, set : ProduceSet]
NoResponse == [set |-> EmptySet, verdict |-> [p \in Partitions |-> "ok"]]

VARIABLES
  next,         \* the next message the application sends
  inFlight,     \* asyncProducer.inFlight
  closeState,   \* progress of asyncProducer.shutdown
  shuttingDown, \* local of the dispatcher
  dpc, disp,    \* the dispatcher: where it is, the message it holds
  retryQ,       \* the retry handler's queue
  succ, errs,   \* how often each message came out of Successes and Errors
  intercepted   \* whether interceptors saw a message never, once, or again

VARIABLES
  ppIn,         \* input channel of a partition producer
  ppc, cur,     \* the partition producer: where it is, the message it holds
  hwm,          \* highWatermark
  buf, chaser,  \* retryState[level].buf and .expectChaser
  pbp,          \* brokerProducer
  sending       \* the message it is offering on brokerProducer.input

VARIABLES
  brokers,      \* asyncProducer.brokers
  refs,         \* asyncProducer.brokerRefs; 0 once the input is closed
  bpc, bbroker, \* a broker producer: where it is, its broker
  buffer,       \* buffer.msgs
  count,        \* buffer.bufferCount
  timer,        \* bp.timer and bp.timerFired
  closing,      \* closing # nil
  retrying,     \* the partitions with currentRetries # nil
  abandoned,    \* whether the abandoned channel is closed
  waitMsg,      \* the message waitForSpace is waiting for
  bridge,       \* the set the bridge goroutine has taken and not sent
  responses,    \* answers between the bridge and the broker producer
  handling, resp, todo, how   \* progress of handleResponse

VARIABLES
  conn,         \* state of a broker connection
  wire,         \* requests written to it and not answered
  log           \* what the partition's leader has appended

frontVars == <<next, closeState, shuttingDown, dpc, disp, intercepted>>
settleVars == <<inFlight, retryQ, succ, errs>>
prodVars == <<frontVars, settleVars>>
gateVars == <<hwm, buf, chaser>>
ppVars == <<ppIn, ppc, cur, gateVars, pbp, sending>>
tableVars == <<brokers, refs, bpc, bbroker>>
batchVars == <<buffer, count, timer>>
modeVars == <<closing, retrying, abandoned, waitMsg>>
handleVars == <<handling, resp, todo, how>>
bridgeVars == <<bridge, responses>>
bpVars == <<tableVars, batchVars, modeVars, bridgeVars, handleVars>>
netVars == <<conn, wire, log>>
vars == <<prodVars, ppVars, bpVars, netVars>>

Init ==
  /\ next = 1 /\ inFlight = 0 /\ closeState = "open" /\ shuttingDown = FALSE
  /\ dpc = "idle" /\ disp = NoMsg /\ retryQ = <<>>
  /\ succ = [m \in Ids |-> 0] /\ errs = [m \in Ids |-> 0]
  /\ intercepted = [m \in Ids |-> 0]
  /\ ppIn = [p \in Partitions |-> <<>>]
  /\ ppc = [p \in Partitions |-> "none"]
  /\ cur = [p \in Partitions |-> NoMsg]
  /\ hwm = [p \in Partitions |-> 0]
  /\ buf = [p \in Partitions |-> [l \in Levels |-> <<>>]]
  /\ chaser = [p \in Partitions |-> [l \in Levels |-> FALSE]]
  /\ pbp = [p \in Partitions |-> NoSlot]
  /\ sending = [p \in Partitions |-> NoMsg]
  /\ brokers = [b \in Brokers |-> NoSlot]
  /\ refs = [i \in Slots |-> 0]
  /\ bpc = [i \in Slots |-> "free"]
  /\ bbroker = [i \in Slots |-> NoBroker]
  /\ buffer = [i \in Slots |-> EmptySet]
  /\ count = [i \in Slots |-> 0]
  /\ timer = [i \in Slots |-> "off"]
  /\ closing = [i \in Slots |-> FALSE]
  /\ retrying = [i \in Slots |-> {}]
  /\ abandoned = [i \in Slots |-> FALSE]
  /\ waitMsg = [i \in Slots |-> NoMsg]
  /\ bridge = [i \in Slots |-> <<>>]
  /\ responses = [i \in Slots |-> <<>>]
  /\ handling = [i \in Slots |-> "no"]
  /\ resp = [i \in Slots |-> NoResponse]
  /\ todo = [i \in Slots |-> <<>>]
  /\ how = [i \in Slots |-> "ok"]
  /\ conn = [b \in Brokers |-> "closed"]
  /\ wire = [b \in Brokers |-> <<>>]
  /\ log = [p \in Partitions |-> <<>>]

-----------------------------------------------------------------------------
(* Returning and retrying messages.                                        *)

(* returnError: the message leaves the pipeline through Errors. *)
ReturnError(m) ==
  /\ errs' = [errs EXCEPT ![m.id] = @ + 1]
  /\ inFlight' = inFlight - 1
  /\ UNCHANGED <<retryQ, succ>>

(* One iteration of returnSuccesses. *)
ReturnSuccess(m) ==
  /\ succ' = [succ EXCEPT ![m.id] = @ + 1]
  /\ inFlight' = inFlight - 1
  /\ UNCHANGED <<retryQ, errs>>

CanRetry(m) == m.retries < RetryMax

(* retryMessage: the retry handler always has room for the message. *)
RetryMessage(m) ==
  IF ~CanRetry(m)
  THEN ReturnError(m)
  ELSE /\ retryQ' = Append(retryQ, [m EXCEPT !.retries = @ + 1])
       /\ UNCHANGED <<inFlight, succ, errs>>

-----------------------------------------------------------------------------
(* The application, the dispatcher, the retry handler and shutdown.        *)

Intercept(m) ==
  intercepted' = IF Interceptors
                 THEN [intercepted EXCEPT ![m.id] = IF @ < 2 THEN @ + 1 ELSE @]
                 ELSE intercepted

(* The application sends its next message and the dispatcher takes it.     *)
UserSend ==
  /\ dpc = "idle" /\ next <= NumMessages
  /\ closeState = "open" \/ (SendAfterClose /\ closeState # "closed")
  /\ LET m == [flag |-> "data", id |-> next, part |-> 0, retries |-> 0] IN
       /\ disp' = m
       /\ next' = next + 1
       /\ IF shuttingDown
          THEN /\ dpc' = "reject"
               /\ UNCHANGED <<intercepted, inFlight>>
          ELSE /\ dpc' = "route"
               /\ inFlight' = inFlight + 1
               /\ Intercept(m)
  /\ UNCHANGED <<closeState, shuttingDown, retryQ, succ, errs, ppVars, bpVars, netVars>>

(* The retry handler feeds the head of its queue back to the dispatcher.   *)
RetryForward ==
  /\ dpc = "idle" /\ retryQ # <<>>
  /\ dpc' = "route" /\ disp' = Head(retryQ) /\ retryQ' = Tail(retryQ)
  /\ Intercept(Head(retryQ))
  /\ UNCHANGED <<next, closeState, shuttingDown, inFlight, succ, errs, ppVars, bpVars, netVars>>

(* The untracked answer to a message that arrived during the shutdown.     *)
DispatchReject ==
  /\ dpc = "reject" /\ closeState # "closed"
  /\ errs' = [errs EXCEPT ![disp.id] = @ + 1]
  /\ dpc' = "idle" /\ disp' = NoMsg
  /\ UNCHANGED <<next, closeState, shuttingDown, intercepted, inFlight, retryQ, succ, ppVars,
                 bpVars, netVars>>

(* Headers, size, partition lookup or partitioner refuse a new message; a  *)
(* retried one can fail only what an interceptor has just changed.         *)
DispatchRefuse ==
  /\ "refuse" \in Faults
  /\ dpc = "route" /\ (disp.retries = 0 \/ Interceptors)
  /\ ReturnError(disp)
  /\ dpc' = "idle" /\ disp' = NoMsg
  /\ UNCHANGED <<next, closeState, shuttingDown, intercepted, ppVars, bpVars, netVars>>

(* The message reaches its partition producer: a new one is given to the   *)
(* partition the partitioner chose, a retried one keeps its partition.     *)
(* The topic producer holds one message more than the channel does.        *)
DispatchRoute(p) ==
  /\ dpc = "route"
  /\ IF disp.retries > 0 THEN p = disp.part
     ELSE InTurn => p = (disp.id - 1) % NumPartitions
  /\ Len(ppIn[p]) <= ChannelBufferSize
  /\ ppIn' = [ppIn EXCEPT ![p] = Append(@, [disp EXCEPT !.part = p])]
  /\ dpc' = "idle" /\ disp' = NoMsg
  /\ UNCHANGED <<next, closeState, shuttingDown, intercepted, settleVars, ppc, cur, gateVars,
                 pbp, sending, bpVars, netVars>>

(* AsyncClose starts the shutdown goroutine, which tracks its own message. *)
AsyncClose ==
  /\ closeState = "open"
  /\ closeState' = "requested" /\ inFlight' = inFlight + 1
  /\ UNCHANGED <<next, shuttingDown, dpc, disp, intercepted, retryQ, succ, errs, ppVars,
                 bpVars, netVars>>

(* The dispatcher takes the shutdown message. *)
DispatchShutdown ==
  /\ closeState = "requested" /\ dpc = "idle"
  /\ closeState' = "waiting" /\ shuttingDown' = TRUE /\ inFlight' = inFlight - 1
  /\ UNCHANGED <<next, dpc, disp, intercepted, retryQ, succ, errs, ppVars, bpVars, netVars>>

(* inFlight.Wait() returns and the producer's channels are closed. *)
ShutdownComplete ==
  /\ closeState = "waiting" /\ inFlight = 0
  /\ closeState' = "closed"
  /\ UNCHANGED <<next, shuttingDown, dpc, disp, intercepted, settleVars, ppVars, bpVars, netVars>>

-----------------------------------------------------------------------------
(* The table of broker producers (brokerLock protects each operation).     *)

FreeSlot == CHOOSE i \in Slots : bpc[i] = "free"

(* getBrokerProducer(b) answers i. *)
GetBrokerProducer(b, i) ==
  \/ /\ brokers[b] # NoSlot /\ i = brokers[b]
     /\ refs' = [refs EXCEPT ![i] = @ + 1]
     /\ UNCHANGED <<brokers, bpc, bbroker>>
  \/ /\ brokers[b] = NoSlot /\ bpc[i] = "free" /\ i = FreeSlot
     /\ brokers' = [brokers EXCEPT ![b] = i]
     /\ refs' = [refs EXCEPT ![i] = 1]
     /\ bpc' = [bpc EXCEPT ![i] = "run"]
     /\ bbroker' = [bbroker EXCEPT ![i] = b]

(* unrefBrokerProducer: the last reference closes the input. *)
UnrefBrokerProducer(i) ==
  /\ refs' = [refs EXCEPT ![i] = @ - 1]
  /\ brokers' = IF refs[i] = 1 /\ brokers[bbroker[i]] = i
                THEN [brokers EXCEPT ![bbroker[i]] = NoSlot]
                ELSE brokers

(* abandonBrokerConnection: whichever broker producer the table holds for  *)
(* the broker; the abandoned channel exists only when retries are off.     *)
AbandonBrokerConnection(b) ==
  /\ abandoned' = IF brokers[b] # NoSlot /\ RetryMax = 0
                  THEN [abandoned EXCEPT ![brokers[b]] = TRUE]
                  ELSE abandoned
  /\ brokers' = [brokers EXCEPT ![b] = NoSlot]

-----------------------------------------------------------------------------
(* The partition producer.  Its input to a broker producer is unbuffered:  *)
(* it goes on only once the message it offers has been taken.              *)

PPReady(p) == sending[p] = NoMsg

(* A leader is found: the client opens its connection if it is closed (a   *)
(* connection attempt may fail), a broker producer is referenced, and a    *)
(* syn is offered to it.  updateLeader ends so, and so does the prefetch.  *)
UpdateLeader(p) ==
  \E b \in Brokers, i \in Slots :
    /\ GetBrokerProducer(b, i)
    /\ \E c \in IF conn[b] # "closed" THEN {conn[b]}
                ELSE {"open"} \cup {x \in {"closed"} : "net" \in Faults} :
         conn' = [conn EXCEPT ![b] = c]
    /\ pbp' = [pbp EXCEPT ![p] = i]
    /\ sending' = [sending EXCEPT ![p] = Control("syn", p, 0)]
    /\ inFlight' = inFlight + 1
    /\ UNCHANGED <<frontVars, retryQ, succ, errs, ppIn, cur, gateVars, batchVars, modeVars,
                   bridgeVars, handleVars, wire, log>>

(* The first message for a partition starts its producer, which tries to   *)
(* prefetch the leader.                                                    *)
PPStart(p) ==
  /\ ppc[p] = "none" /\ ppIn[p] # <<>>
  /\ ppc' = [ppc EXCEPT ![p] = "idle"]
  /\ \/ UpdateLeader(p)
     \/ "leader" \in Faults /\ UNCHANGED <<prodVars, ppIn, cur, gateVars, pbp, sending, bpVars,
                                           netVars>>

(* With retries off, an abandoned broker producer is dropped before the    *)
(* next message is looked at.                                              *)
PPAbandon(p) ==
  /\ ppc[p] = "idle" /\ PPReady(p) /\ ppIn[p] # <<>>
  /\ pbp[p] # NoSlot /\ abandoned[pbp[p]]
  /\ UnrefBrokerProducer(pbp[p])
  /\ pbp' = [pbp EXCEPT ![p] = NoSlot]
  /\ UNCHANGED <<prodVars, ppIn, ppc, cur, gateVars, sending, bpc, bbroker, batchVars,
                 modeVars, bridgeVars, handleVars, netVars>>

(* The next message m, sorted by its retry level against the watermark: a  *)
(* higher level than any so far, ...                                       *)
TakeNewLevel(p, m) ==
  /\ m.retries > hwm[p]
  /\ ppc' = [ppc EXCEPT ![p] = "newhwm"]
  /\ cur' = [cur EXCEPT ![p] = m]
  /\ UNCHANGED <<gateVars, inFlight>>

(* ... the fin of a lower level, which is then complete, ...               *)
TakeLowerFin(p, m) ==
  /\ m.retries < hwm[p] /\ m.flag = "fin"
  /\ chaser' = [chaser EXCEPT ![p][m.retries] = FALSE]
  /\ inFlight' = inFlight - 1
  /\ UNCHANGED <<ppc, cur, hwm, buf>>

(* Faulty variant: buffered with the messages of the current level. *)
TakeLowerAtWatermark(p, m) ==
  /\ m.retries < hwm[p] /\ m.flag # "fin"
  /\ buf' = [buf EXCEPT ![p][hwm[p]] = Append(@, m)]
  /\ UNCHANGED <<ppc, cur, hwm, chaser, inFlight>>

(* ... a message of a lower level, which is buffered, ...                  *)
TakeLower(p, m) ==
  /\ m.retries < hwm[p] /\ m.flag # "fin"
  /\ buf' = [buf EXCEPT ![p][m.retries] = Append(@, m)]
  /\ UNCHANGED <<ppc, cur, hwm, chaser, inFlight>>

(* ... the fin of the current level, which starts flushRetryBuffers, ...   *)
TakeFin(p, m) ==
  /\ m.retries = hwm[p] /\ hwm[p] > 0 /\ m.flag = "fin"
  /\ chaser' = [chaser EXCEPT ![p][hwm[p]] = FALSE]
  /\ hwm' = [hwm EXCEPT ![p] = @ - 1]
  /\ ppc' = [ppc EXCEPT ![p] = "flush"]
  /\ UNCHANGED <<cur, buf, inFlight>>

(* ... or a message of the current level, which goes through.              *)
TakeCurrent(p, m) ==
  /\ m.retries = hwm[p] /\ (hwm[p] = 0 \/ m.flag # "fin")
  /\ ppc' = [ppc EXCEPT ![p] = "send"]
  /\ cur' = [cur EXCEPT ![p] = m]
  /\ UNCHANGED <<gateVars, inFlight>>

PPTake(p) ==
  /\ ppc[p] = "idle" /\ PPReady(p) /\ ppIn[p] # <<>>
  /\ pbp[p] # NoSlot => ~abandoned[pbp[p]]
  /\ ppIn' = [ppIn EXCEPT ![p] = Tail(@)]
  /\ LET m == Head(ppIn[p]) IN
       TakeNewLevel(p, m) \/ TakeLowerFin(p, m) \/ TakeLower(p, m) \/ TakeFin(p, m) \/ TakeCurrent(p, m)
  /\ UNCHANGED <<frontVars, retryQ, succ, errs, pbp, sending, bpVars, netVars>>

(* updateLeaderIfBrokerProducerIsNil: a message whose leader is not found  *)
(* goes back to the application.                                           *)
PPLeader(p) ==
  /\ ppc[p] \in {"newhwm", "send"} /\ PPReady(p) /\ pbp[p] = NoSlot
  /\ \/ /\ UpdateLeader(p)
        /\ UNCHANGED ppc
     \/ /\ "leader" \in Faults
        /\ ReturnError(cur[p])
        /\ cur' = [cur EXCEPT ![p] = NoMsg]
        /\ ppc' = [ppc EXCEPT ![p] = "idle"]
        /\ UNCHANGED <<frontVars, ppIn, gateVars, pbp, sending, bpVars, netVars>>

(* Faulty variant: the fin is sent at the new level. *)
FinAtNewLevel(p) == Control("fin", p, cur[p].retries)

FinOf(p) == Control("fin", p, cur[p].retries - 1)

(* newHighWatermark: a fin chases the messages of the old level. *)
PPNewHighWatermark(p) ==
  /\ ppc[p] = "newhwm" /\ PPReady(p) /\ pbp[p] # NoSlot
  /\ hwm' = [hwm EXCEPT ![p] = cur[p].retries]
  /\ chaser' = [chaser EXCEPT ![p][cur[p].retries] = TRUE]
  /\ inFlight' = inFlight + 1
  /\ sending' = [sending EXCEPT ![p] = FinOf(p)]
  /\ ppc' = [ppc EXCEPT ![p] = "unref"]
  /\ UNCHANGED <<frontVars, retryQ, succ, errs, ppIn, cur, buf, pbp, bpVars, netVars>>

(* ... and once it is taken the broker producer is given up. *)
PPUnref(p) ==
  /\ ppc[p] = "unref" /\ PPReady(p)
  /\ UnrefBrokerProducer(pbp[p])
  /\ pbp' = [pbp EXCEPT ![p] = NoSlot]
  /\ ppc' = [ppc EXCEPT ![p] = "send"]
  /\ UNCHANGED <<prodVars, ppIn, cur, gateVars, sending, bpc, bbroker, batchVars, modeVars,
                 bridgeVars, handleVars, netVars>>

PPSend(p) ==
  /\ ppc[p] = "send" /\ PPReady(p) /\ pbp[p] # NoSlot
  /\ sending' = [sending EXCEPT ![p] = cur[p]]
  /\ cur' = [cur EXCEPT ![p] = NoMsg]
  /\ ppc' = [ppc EXCEPT ![p] = "idle"]
  /\ UNCHANGED <<prodVars, ppIn, gateVars, pbp, bpVars, netVars>>

(* flushRetryBuffers: the level below the watermark is sent on, or given   *)
(* back when no leader is found; PPTake has lowered the watermark.         *)
PPFlushLeader(p) ==
  /\ ppc[p] = "flush" /\ PPReady(p) /\ pbp[p] = NoSlot
  /\ \/ /\ UpdateLeader(p)
        /\ UNCHANGED ppc
     \/ /\ "leader" \in Faults
        /\ ppc' = [ppc EXCEPT ![p] = "drop"]
        /\ UNCHANGED <<prodVars, ppIn, cur, gateVars, pbp, sending, bpVars, netVars>>

PPFlushSend(p) ==
  /\ ppc[p] = "flush" /\ PPReady(p) /\ pbp[p] # NoSlot
  /\ buf[p][hwm[p]] # <<>>
  /\ sending' = [sending EXCEPT ![p] = Head(buf[p][hwm[p]])]
  /\ buf' = [buf EXCEPT ![p][hwm[p]] = Tail(@)]
  /\ UNCHANGED <<prodVars, ppIn, ppc, cur, hwm, chaser, pbp, bpVars, netVars>>

PPFlushDrop(p) ==
  /\ ppc[p] = "drop" /\ buf[p][hwm[p]] # <<>>
  /\ ReturnError(Head(buf[p][hwm[p]]))
  /\ buf' = [buf EXCEPT ![p][hwm[p]] = Tail(@)]
  /\ UNCHANGED <<frontVars, ppIn, ppc, cur, hwm, chaser, pbp, sending, bpVars, netVars>>


FlushStops(p) == chaser[p][hwm[p]] \/ hwm[p] = 0

(* The level is done: stop at a level whose fin is outstanding or at level *)
(* zero (the fin that started the flush is then accounted for), otherwise  *)
(* go down one more.                                                       *)
PPFlushed(p) ==
  /\ PPReady(p) /\ buf[p][hwm[p]] = <<>>
  /\ ppc[p] = "drop" \/ (ppc[p] = "flush" /\ pbp[p] # NoSlot)
  /\ IF FlushStops(p)
     THEN /\ ppc' = [ppc EXCEPT ![p] = "idle"]
          /\ inFlight' = inFlight - 1
          /\ UNCHANGED hwm
     ELSE /\ ppc' = [ppc EXCEPT ![p] = "flush"]
          /\ hwm' = [hwm EXCEPT ![p] = @ - 1]
          /\ UNCHANGED inFlight
  /\ UNCHANGED <<frontVars, retryQ, succ, errs, ppIn, cur, buf, chaser, pbp, sending, bpVars,
                 netVars>>

(* The dispatcher has closed the input: release the broker producer. *)
PPExit(p) ==
  /\ closeState = "closed" /\ ppc[p] = "idle" /\ PPReady(p) /\ ppIn[p] = <<>>
  /\ ppc' = [ppc EXCEPT ![p] = "done"]
  /\ pbp' = [pbp EXCEPT ![p] = NoSlot]
  /\ IF pbp[p] # NoSlot THEN UnrefBrokerProducer(pbp[p]) ELSE UNCHANGED <<brokers, refs>>
  /\ UNCHANGED <<prodVars, ppIn, cur, gateVars, sending, bpc, bbroker, batchVars, modeVars,
                 bridgeVars, handleVars, netVars>>

-----------------------------------------------------------------------------
(* The broker producer.                                                    *)


NeedsRetry(i, m) == closing[i] \/ m.part \in retrying[i]

(* Faulty variant: one message too many. *)
WouldOverflowLate(i) == FlushMaxMessages > 0 /\ count[i] > FlushMaxMessages

WouldOverflow(i) == FlushMaxMessages > 0 /\ count[i] >= FlushMaxMessages

(* Faulty variant: a single message is not worth a request. *)
ReadyToFlushMany(i) == ~FlushFrequency /\ FlushMessages = 0 /\ count[i] > 1

ReadyToFlush(i) ==
  /\ count[i] > 0
  /\ \/ ~FlushFrequency /\ FlushMessages = 0
     \/ FlushMessages > 0 /\ count[i] >= FlushMessages

(* produceSet.add, and the timer that the first message of a set starts.   *)
AddToBuffer(i, m) ==
  /\ buffer' = [buffer EXCEPT ![i][m.part] = Append(@, m)]
  /\ count' = [count EXCEPT ![i] = @ + 1]
  /\ timer' = [timer EXCEPT ![i] = IF FlushFrequency /\ @ \in {"off", "stale"} THEN "set" ELSE @]

(* The broker producer is at one of its selects. *)
AtSelect(i) == handling[i] = "no" /\ todo[i] = <<>>

(* retryMessage blocks on the retries channel: the partition producer has  *)
(* handed the message over and goes on meanwhile.                          *)
SendBack(i, m) ==
  /\ todo' = [todo EXCEPT ![i] = <<m>>]
  /\ how' = [how EXCEPT ![i] = "retry"]
  /\ UNCHANGED <<settleVars, bpc, waitMsg, batchVars>>

(* One message from a partition producer: a syn reopens the partition, ... *)
ReceiveSyn(i, m) ==
  /\ m.flag = "syn"
  /\ retrying' = [retrying EXCEPT ![i] = @ \ {m.part}]
  /\ inFlight' = inFlight - 1
  /\ UNCHANGED <<retryQ, succ, errs, bpc, waitMsg, batchVars, todo, how>>

(* ... a message that follows a failed one is sent back, and the fin that  *)
(* ends them reopens the partition, ...                                    *)
ReceiveRetry(i, m) ==
  /\ m.flag # "syn" /\ NeedsRetry(i, m)
  /\ SendBack(i, m)
  /\ retrying' = IF ~closing[i] /\ m.flag = "fin"
                 THEN [retrying EXCEPT ![i] = @ \ {m.part}] ELSE retrying

(* ... a fin that nothing failed before is sent back as well, ...          *)
ReceiveFin(i, m) ==
  /\ m.flag = "fin" /\ ~NeedsRetry(i, m)
  /\ SendBack(i, m)
  /\ UNCHANGED retrying

(* ... a message that does not fit waits for space, ...                    *)
ReceiveFull(i, m) ==
  /\ m.flag = "data" /\ ~NeedsRetry(i, m) /\ WouldOverflow(i)
  /\ bpc' = [bpc EXCEPT ![i] = "wait"]
  /\ waitMsg' = [waitMsg EXCEPT ![i] = m]
  /\ UNCHANGED <<settleVars, retrying, batchVars, todo, how>>

(* ... and any other one is buffered, unless it does not encode.           *)
BufferMessage(i, m) ==
  \/ AddToBuffer(i, m) /\ UNCHANGED settleVars
  \/ "encoding" \in Faults /\ ReturnError(m) /\ UNCHANGED batchVars

ReceiveData(i, m) ==
  /\ m.flag = "data" /\ ~NeedsRetry(i, m) /\ ~WouldOverflow(i)
  /\ BufferMessage(i, m)
  /\ UNCHANGED <<retrying, bpc, waitMsg, todo, how>>

BPReceive(i, p) ==
  /\ bpc[i] = "run" /\ AtSelect(i)
  /\ pbp[p] = i /\ sending[p] # NoMsg
  /\ sending' = [sending EXCEPT ![p] = NoMsg]
  /\ LET m == sending[p] IN
       ReceiveSyn(i, m) \/ ReceiveRetry(i, m) \/ ReceiveFin(i, m) \/ ReceiveFull(i, m) \/ ReceiveData(i, m)
  /\ UNCHANGED <<frontVars, ppIn, ppc, cur, gateVars, pbp, brokers, refs, bbroker, closing,
                 abandoned, bridgeVars, handling, resp, netVars>>

(* waitForSpace has an answer: the message must be retried, or fits.       *)
SpaceDecided(i) == NeedsRetry(i, waitMsg[i]) \/ ~WouldOverflow(i)

BPSpace(i) ==
  /\ bpc[i] = "wait" /\ AtSelect(i) /\ SpaceDecided(i)
  /\ IF NeedsRetry(i, waitMsg[i])
     THEN RetryMessage(waitMsg[i]) /\ UNCHANGED batchVars
     ELSE BufferMessage(i, waitMsg[i])
  /\ bpc' = [bpc EXCEPT ![i] = "run"]
  /\ waitMsg' = [waitMsg EXCEPT ![i] = NoMsg]
  /\ UNCHANGED <<frontVars, ppVars, brokers, refs, bbroker, closing, retrying, abandoned,
                 bridgeVars, handleVars, netVars>>

BPTimer(i) ==
  /\ bpc[i] = "run" /\ AtSelect(i) /\ timer[i] \in {"set", "stale"}
  /\ timer' = [timer EXCEPT ![i] = "fired"]
  /\ UNCHANGED <<prodVars, ppVars, tableVars, buffer, count, modeVars, bridgeVars, handleVars,
                 netVars>>

Outstanding(i) ==
  Cardinality({k \in DOMAIN wire[bbroker[i]] : wire[bbroker[i]][k].bp = i})

(* A connection has room for MaxOpenRequests promises; the sender of one   *)
(* more request has written it and waits, holding the broker's lock.       *)
SenderWaits(b) == Len(wire[b]) > MaxOpenRequests

BridgeFree(i) ==
  /\ bridge[i] = <<>>
  /\ ~(SenderWaits(bbroker[i]) /\ wire[bbroker[i]][Len(wire[bbroker[i]])].bp = i)

(* Faulty variant: the buffer that was handed over is kept. *)
KeepBuffer(i) == UNCHANGED batchVars

(* Only the main loop also forgets timerChan; elsewhere a timer that had   *)
(* already expired may still be read from it.                              *)
RollOver(i) ==
  /\ buffer' = [buffer EXCEPT ![i] = EmptySet]
  /\ count' = [count EXCEPT ![i] = 0]
  /\ \E t \in {"off"} \cup {x \in {"stale"} : bpc[i] # "run" /\ timer[i] = "set"} :
       timer' = [timer EXCEPT ![i] = t]

(* The buffer is handed to the bridge and rolled over: from the main loop  *)
(* when it is due, from waitForSpace and shutdown as soon as possible.     *)
BPFlush(i) ==
  /\ AtSelect(i)
  /\ \/ bpc[i] = "run" /\ (timer[i] = "fired" \/ ReadyToFlush(i))
     \/ bpc[i] = "wait" /\ ~SpaceDecided(i)
     \/ bpc[i] = "shutdown" /\ count[i] > 0
  /\ BridgeFree(i)
  /\ Pipelining \/ (responses[i] = <<>> /\ Outstanding(i) = 0)
  /\ bridge' = [bridge EXCEPT ![i] = <<buffer[i]>>]
  /\ RollOver(i)
  /\ UNCHANGED <<prodVars, ppVars, tableVars, modeVars, responses, handleVars, netVars>>

(* The bridge calls AsyncProduce, which writes the request or fails: the   *)
(* connection is not open, writing fails, or the request does not encode.  *)
(* A broken connection may still take the request.                         *)
Failed(set, v) == [set |-> set, verdict |-> [p \in Partitions |-> v]]

AsyncProduce(i, set) ==
  \/ /\ conn[bbroker[i]] # "closed"
     /\ wire' = [wire EXCEPT ![bbroker[i]] = Append(@, [bp |-> i, set |-> set])]
     /\ UNCHANGED responses
  \/ \E v \in {x \in {"net"} : conn[bbroker[i]] = "closed" \/ "net" \in Faults}
            \cup {x \in {"encoding"} : conn[bbroker[i]] # "closed" /\ "encoding" \in Faults} :
       /\ responses' = [responses EXCEPT ![i] = Append(@, Failed(set, v))]
       /\ UNCHANGED wire

Bridge(i) ==
  /\ bridge[i] # <<>> /\ ~SenderWaits(bbroker[i])
  /\ AsyncProduce(i, Head(bridge[i]))
  /\ bridge' = [bridge EXCEPT ![i] = <<>>]
  /\ UNCHANGED <<prodVars, ppVars, tableVars, batchVars, modeVars, handleVars, conn, log>>

(* The next answer is taken.  After a connection error the broker is       *)
(* abandoned and its connection closed, ...                                *)
BPResponse(i) ==
  /\ AtSelect(i) /\ responses[i] # <<>>
  /\ bpc[i] \in {"run", "shutdown", "drain"} \/ (bpc[i] = "wait" /\ ~SpaceDecided(i))
  /\ resp' = [resp EXCEPT ![i] = Head(responses[i])]
  /\ responses' = [responses EXCEPT ![i] = Tail(@)]
  /\ IF Head(responses[i]).verdict[0] = "net"
     THEN /\ AbandonBrokerConnection(bbroker[i])
          /\ handling' = [handling EXCEPT ![i] = "close"]
     ELSE /\ handling' = [handling EXCEPT ![i] = "blocks"]
          /\ UNCHANGED <<brokers, abandoned>>
  /\ UNCHANGED <<prodVars, ppVars, refs, bpc, bbroker, batchVars, closing, retrying, waitMsg,
                 bridge, todo, how, netVars>>

(* ... which waits for every request still on it.                          *)
BPClose(i) ==
  /\ handling[i] = "close" /\ wire[bbroker[i]] = <<>>
  /\ conn' = [conn EXCEPT ![bbroker[i]] = "closed"]
  /\ closing' = [closing EXCEPT ![i] = TRUE]
  /\ handling' = [handling EXCEPT ![i] = "error"]
  /\ UNCHANGED <<prodVars, ppVars, tableVars, batchVars, retrying, abandoned, waitMsg, bridgeVars,
                 resp, todo, how, wire, log>>

Retriable(v) == v = "retriable" /\ RetryMax > 0

(* handleSuccess and handleError, for one partition of the request.  The   *)
(* retriable ones come in a second pass; they take the messages buffered   *)
(* for the partition with them.                                            *)
BPPartition(i, p) ==
  /\ handling[i] \in {"blocks", "error"} /\ todo[i] = <<>> /\ resp[i].set[p] # <<>>
  /\ LET v == resp[i].verdict[p] IN
       /\ Retriable(v) => \A q \in Partitions : resp[i].set[q] # <<>> => Retriable(resp[i].verdict[q])
       /\ resp' = [resp EXCEPT ![i].set[p] = <<>>]
       /\ IF Retriable(v)
          THEN /\ retrying' = [retrying EXCEPT ![i] = @ \cup {p}]
               /\ todo' = [todo EXCEPT ![i] = resp[i].set[p] \o buffer[i][p]]
               /\ buffer' = [buffer EXCEPT ![i][p] = <<>>]
               /\ count' = [count EXCEPT ![i] = @ - Len(buffer[i][p])]
          ELSE /\ todo' = [todo EXCEPT ![i] = resp[i].set[p]]
               /\ UNCHANGED <<buffer, count, retrying>>
       /\ how' = [how EXCEPT ![i] = IF v = "ok" THEN "ok"
                                    ELSE IF Retriable(v) \/ v = "net" THEN "retry" ELSE "fail"]
       /\ IF RetryMax = 0 /\ v \in {"retriable", "fatal"}
          THEN AbandonBrokerConnection(bbroker[i])
          ELSE UNCHANGED <<brokers, abandoned>>
  /\ UNCHANGED <<prodVars, ppVars, refs, bpc, bbroker, timer, closing, waitMsg, bridgeVars,
                 handling, netVars>>

SentHandled(i) == todo[i] = <<>> /\ resp[i].set = EmptySet

(* handleError goes on with what is buffered. *)
BPBuffered(i, p) ==
  /\ handling[i] = "error" /\ SentHandled(i) /\ buffer[i][p] # <<>>
  /\ todo' = [todo EXCEPT ![i] = buffer[i][p]]
  /\ how' = [how EXCEPT ![i] = "retry"]
  /\ buffer' = [buffer EXCEPT ![i][p] = <<>>]
  /\ count' = [count EXCEPT ![i] = @ - Len(buffer[i][p])]
  /\ UNCHANGED <<prodVars, ppVars, tableVars, timer, modeVars, bridgeVars, handling, resp,
                 netVars>>

(* One message of the partition at hand is returned or retried. *)
BPSettle(i) ==
  /\ todo[i] # <<>>
  /\ CASE how[i] = "ok" -> ReturnSuccess(Head(todo[i]))
       [] how[i] = "fail" -> ReturnError(Head(todo[i]))
       [] how[i] = "retry" -> RetryMessage(Head(todo[i]))
  /\ todo' = [todo EXCEPT ![i] = Tail(@)]
  /\ how' = [how EXCEPT ![i] = IF Len(todo[i]) = 1 THEN "ok" ELSE @]
  /\ UNCHANGED <<frontVars, ppVars, tableVars, batchVars, modeVars, bridgeVars, handling, resp,
                 netVars>>

(* The end of handleResponse; an emptied buffer is rolled over, but a      *)
(* timer that had already expired may still be read from timerChan.        *)
BPHandled(i) ==
  /\ handling[i] \in {"blocks", "error"} /\ SentHandled(i)
  /\ handling[i] = "error" => count[i] = 0
  /\ handling' = [handling EXCEPT ![i] = "no"]
  /\ resp' = [resp EXCEPT ![i] = NoResponse]
  /\ \E t \in IF count[i] > 0 \/ timer[i] = "stale" THEN {timer[i]}
              ELSE IF timer[i] = "set" THEN {"off", "stale"} ELSE {"off"} :
       timer' = [timer EXCEPT ![i] = t]
  /\ UNCHANGED <<prodVars, ppVars, tableVars, buffer, count, modeVars, bridgeVars, todo, how, netVars>>

(* The input is closed: flush what is left, close the output, drain the    *)
(* answers, exit.                                                          *)
BPShutdown(i) ==
  /\ bpc[i] = "run" /\ AtSelect(i) /\ refs[i] = 0
  /\ bpc' = [bpc EXCEPT ![i] = "shutdown"]
  /\ UNCHANGED <<prodVars, ppVars, brokers, refs, bbroker, batchVars, modeVars, bridgeVars,
                 handleVars, netVars>>

BPCloseOutput(i) ==
  /\ bpc[i] = "shutdown" /\ AtSelect(i) /\ count[i] = 0
  /\ bpc' = [bpc EXCEPT ![i] = "drain"]
  /\ UNCHANGED <<prodVars, ppVars, brokers, refs, bbroker, batchVars, modeVars, bridgeVars,
                 handleVars, netVars>>

BPExit(i) ==
  /\ bpc[i] = "drain" /\ AtSelect(i) /\ responses[i] = <<>> /\ bridge[i] = <<>> /\ Outstanding(i) = 0
  /\ bpc' = [bpc EXCEPT ![i] = "free"]
  /\ bbroker' = [bbroker EXCEPT ![i] = NoBroker]
  /\ timer' = [timer EXCEPT ![i] = "off"]
  /\ closing' = [closing EXCEPT ![i] = FALSE]
  /\ retrying' = [retrying EXCEPT ![i] = {}]
  /\ abandoned' = [abandoned EXCEPT ![i] = FALSE]
  /\ UNCHANGED <<prodVars, ppVars, brokers, refs, buffer, count, waitMsg, bridgeVars,
                 handleVars, netVars>>

-----------------------------------------------------------------------------
(* Connections and brokers, as the producer sees them.                     *)

PartitionsOf(set) == {p \in Partitions : set[p] # <<>>}

AppendToLog(set, parts) ==
  log' = [p \in Partitions |->
            IF p \in parts THEN log[p] \o [k \in DOMAIN set[p] |-> set[p][k].id] ELSE log[p]]

(* The broker answers the oldest request.  A retriable answer may come     *)
(* after the append (not enough replicas, timeout).                        *)
BrokerRespond(b) ==
  /\ conn[b] = "open" /\ wire[b] # <<>>
  /\ LET set == Head(wire[b]).set
         i == Head(wire[b]).bp
         answers == {"ok"} \cup ({"retriable", "fatal", "missing"} \cap Faults)
     IN \E v \in [PartitionsOf(set) -> answers] :
          \E kept \in SUBSET {p \in PartitionsOf(set) : v[p] = "retriable" /\ "appended" \in Faults} :
            /\ AppendToLog(set, kept \cup {p \in PartitionsOf(set) : v[p] = "ok"})
            /\ responses' = [responses EXCEPT ![i] = Append(@,
                 [set |-> set,
                  verdict |-> [p \in Partitions |-> IF p \in PartitionsOf(set) THEN v[p] ELSE "ok"]])]
  /\ wire' = [wire EXCEPT ![b] = Tail(@)]
  /\ UNCHANGED <<prodVars, ppVars, tableVars, batchVars, modeVars, bridge, handleVars, conn>>

(* The connection breaks, or an answer does not come in time: responseReceiver *)
(* gives every outstanding request an error, whatever the broker did with it. *)
ConnectionFail(b) ==
  /\ "net" \in Faults /\ conn[b] = "open"
  /\ conn' = [conn EXCEPT ![b] = "dead"]
  /\ UNCHANGED <<prodVars, ppVars, bpVars, wire, log>>

DeadResponse(b) ==
  /\ conn[b] = "dead" /\ wire[b] # <<>>
  /\ \E kept \in SUBSET PartitionsOf(Head(wire[b]).set) : AppendToLog(Head(wire[b]).set, kept)
  /\ responses' = [responses EXCEPT ![Head(wire[b]).bp] = Append(@, Failed(Head(wire[b]).set, "net"))]
  /\ wire' = [wire EXCEPT ![b] = Tail(@)]
  /\ UNCHANGED <<prodVars, ppVars, tableVars, batchVars, modeVars, bridge, handleVars, conn>>

-----------------------------------------------------------------------------
Dispatcher == RetryForward \/ DispatchReject \/ DispatchRefuse \/ DispatchShutdown
              \/ \E p \in Partitions : DispatchRoute(p)

PartitionProducer(p) ==
  \/ PPStart(p) \/ PPAbandon(p) \/ PPTake(p) \/ PPLeader(p) \/ PPNewHighWatermark(p)
  \/ PPUnref(p) \/ PPSend(p) \/ PPFlushLeader(p) \/ PPFlushSend(p) \/ PPFlushDrop(p)
  \/ PPFlushed(p) \/ PPExit(p)

BrokerProducer(i) ==
  \/ \E p \in Partitions : BPReceive(i, p) \/ BPPartition(i, p) \/ BPBuffered(i, p)
  \/ BPSpace(i) \/ BPTimer(i) \/ BPFlush(i) \/ BPResponse(i) \/ BPClose(i) \/ BPSettle(i) \/ BPHandled(i)
  \/ BPShutdown(i) \/ BPCloseOutput(i) \/ BPExit(i)

Network(b) == BrokerRespond(b) \/ ConnectionFail(b) \/ DeadResponse(b)

(* Everything has stopped. *)
Terminated ==
  /\ closeState = "closed"
  /\ \A p \in Partitions : ppc[p] \in {"none", "done"}
  /\ \A i \in Slots : bpc[i] = "free"
  /\ UNCHANGED vars

Next ==
  \/ UserSend \/ AsyncClose \/ Dispatcher \/ ShutdownComplete
  \/ \E p \in Partitions : PartitionProducer(p)
  \/ \E i \in Slots : BrokerProducer(i) \/ Bridge(i)
  \/ \E b \in Brokers : Network(b)
  \/ Terminated

Spec == Init /\ [][Next]_vars

-----------------------------------------------------------------------------
(* Properties.                                                             *)

MaybeMessage == Message \cup {NoMsg}

FrontType ==
  /\ next \in 1..NumMessages+1
  /\ closeState \in {"open", "requested", "waiting", "closed"}
  /\ shuttingDown \in BOOLEAN
  /\ dpc \in {"idle", "route", "reject"}
  /\ disp \in MaybeMessage
  /\ intercepted \in [Ids -> 0..2]

SettleType ==
  /\ inFlight \in Int
  /\ retryQ \in Seq(Message)
  /\ succ \in [Ids -> Nat] /\ errs \in [Ids -> Nat]

GateType ==
  /\ hwm \in [Partitions -> Levels]
  /\ buf \in [Partitions -> [Levels -> Seq(Message)]]
  /\ chaser \in [Partitions -> [Levels -> BOOLEAN]]

PPStates == {"none", "idle", "newhwm", "unref", "send", "flush", "drop", "done"}

PartitionType ==
  /\ ppIn \in [Partitions -> Seq(Message)]
  /\ ppc \in [Partitions -> PPStates]
  /\ cur \in [Partitions -> MaybeMessage]
  /\ pbp \in [Partitions -> Slots \cup {NoSlot}]
  /\ sending \in [Partitions -> MaybeMessage]

TableType ==
  /\ brokers \in [Brokers -> Slots \cup {NoSlot}]
  /\ refs \in [Slots -> Int]
  /\ bpc \in [Slots -> {"free", "run", "wait", "shutdown", "drain"}]
  /\ bbroker \in [Slots -> Brokers \cup {NoBroker}]

BatchType ==
  /\ buffer \in [Slots -> ProduceSet]
  /\ count \in [Slots -> Int]
  /\ timer \in [Slots -> {"off", "set", "fired", "stale"}]

ModeType ==
  /\ closing \in [Slots -> BOOLEAN]
  /\ retrying \in [Slots -> SUBSET Partitions]
  /\ abandoned \in [Slots -> BOOLEAN]
  /\ waitMsg \in [Slots -> MaybeMessage]

AnswerType ==
  /\ bridge \in [Slots -> Seq(ProduceSet)]
  /\ responses \in [Slots -> Seq(Response)]
  /\ handling \in [Slots -> {"no", "blocks", "close", "error"}]
  /\ resp \in [Slots -> Response]
  /\ todo \in [Slots -> Seq(Message)]
  /\ how \in [Slots -> {"ok", "fail", "retry"}]

NetType ==
  /\ conn \in [Brokers -> {"closed", "open", "dead"}]
  /\ wire \in [Brokers -> Seq(Request)]
  /\ log \in [Partitions -> Seq(Ids)]

(* Every variable keeps its type; above all no message is ever given a     *)
(* retry count beyond Retry.Max, the last index of a partition producer's  *)
(* retryState, and the watermark never leaves that range either.           *)
TypeOK ==
  /\ FrontType /\ SettleType /\ GateType /\ PartitionType
  /\ TableType /\ BatchType /\ ModeType /\ AnswerType /\ NetType

Returned(m) == succ[m] + errs[m]

Status(m) ==
  CASE Returned(m) > 1 -> "answered twice"
    [] succ[m] = 1 -> "succeeded"
    [] errs[m] = 1 -> "failed"
    [] m < next /\ ~(dpc = "reject" /\ disp.id = m) -> "pending"
    [] OTHER -> "new"

Contract == INSTANCE ProducerContract
              WITH status <- [m \in Messages |-> Status(m)], closed <- (closeState = "closed")

(* The producer keeps its contract: one answer per message whatever        *)
(* retries it went through, success only after an append, no append after  *)
(* the answer, and channels closed only when no message is pending.        *)
KeepsContract == Contract!Spec

(* The syn and fin messages the producer makes for itself never reach the  *)
(* application.                                                            *)
ControlStaysInside == Returned(0) = 0

Fins(s) == Cardinality({k \in DOMAIN s : s[k].flag = "fin"})

(* The wait group counts exactly the messages taken and not returned, the  *)
(* syn and fin messages on their way, the fin a partition producer is      *)
(* handling, and the shutdown message.                                     *)
InFlightExact ==
  inFlight =
      Cardinality({m \in Messages : m < next /\ Returned(m) = 0 /\ ~(dpc = "reject" /\ disp.id = m)})
    + Cardinality({p \in Partitions : sending[p].flag \in {"syn", "fin"}})
    + Fins(retryQ) + Fins(<<disp>>)
    + Cardinality({i \in Slots : Fins(todo[i]) > 0})
    + Cardinality({x \in Partitions \X (1..ChannelBufferSize+1) :
                     x[2] <= Len(ppIn[x[1]]) /\ ppIn[x[1]][x[2]].flag = "fin"})
    + Cardinality({p \in Partitions : ppc[p] \in {"flush", "drop"}})
    + (IF closeState = "requested" THEN 1 ELSE 0)

(* Once the channels are closed every message the producer accepted has    *)
(* been returned and nobody holds one that could still be sent on them.    *)
ClosedMeansDone ==
  closeState = "closed" =>
    /\ \A m \in Messages : m < next /\ dpc # "reject" => Returned(m) = 1
    /\ retryQ = <<>> /\ dpc # "route"
    /\ \A p \in Partitions :
         ppIn[p] = <<>> /\ cur[p] = NoMsg /\ sending[p] = NoMsg /\ \A l \in Levels : buf[p][l] = <<>>
    /\ \A i \in Slots : buffer[i] = EmptySet /\ waitMsg[i] = NoMsg /\ todo[i] = <<>>
    /\ \A i \in Slots : \A k \in DOMAIN bridge[i] : bridge[i][k] = EmptySet

(* A broker producer's reference count is the number of partition producers *)
(* that use it, so nobody sends on an input that has been closed; and the  *)
(* table holds no broker producer that is closed or abandoned, so none is  *)
(* handed out, and no abandoned channel is closed twice.                   *)
NoSendOnClosedInput ==
  /\ \A b \in Brokers : brokers[b] # NoSlot =>
       /\ refs[brokers[b]] > 0 /\ ~abandoned[brokers[b]] /\ bbroker[brokers[b]] = b
  /\ \A i \in Slots : refs[i] = Cardinality({p \in Partitions : pbp[p] = i})
  /\ \A p \in Partitions : pbp[p] # NoSlot => bpc[pbp[p]] \in {"run", "wait"}
  /\ \A p \in Partitions : sending[p] # NoMsg => pbp[p] # NoSlot

(* Fins of partition p that will come back to it at level l. *)
FinsAt(p, l) ==
    Cardinality({k \in DOMAIN retryQ : retryQ[k] = Control("fin", p, l)})
  + Cardinality({k \in DOMAIN ppIn[p] : ppIn[p][k] = Control("fin", p, l)})
  + (IF disp = Control("fin", p, l) THEN 1 ELSE 0)
  + (IF sending[p] = Control("fin", p, l-1) THEN 1 ELSE 0)
  + Cardinality({i \in Slots : todo[i] = <<Control("fin", p, l-1)>>})

(* A level expects its fin exactly while one fin for it is on its way: a   *)
(* missing one would leave the messages buffered below for ever, a second  *)
(* one would release them early.                                           *)
ChaserOutstanding ==
  \A p \in Partitions :
    \A l \in Levels : FinsAt(p, l) = IF chaser[p][l] THEN 1 ELSE 0

(* While messages are being retried the watermark is a level whose fin is  *)
(* awaited, no level above it awaits one, and only levels below it hold    *)
(* buffered messages: what the flush does not reach is never released.     *)
WatermarkGate ==
  \A p \in Partitions :
    /\ hwm[p] > 0 /\ ppc[p] \notin {"flush", "drop"} => chaser[p][hwm[p]]
    /\ \A l \in Levels : l > hwm[p] => ~chaser[p][l]
    /\ \A l \in Levels : buf[p][l] # <<>> => l < hwm[p] \/ (l = hwm[p] /\ ppc[p] \in {"flush", "drop"})


SetSize(set) ==
  Cardinality({x \in Partitions \X (1..NumMessages) : x[2] <= Len(set[x[1]])})

(* The buffer counts its messages correctly, through the partitions that a *)
(* response drops from it, so that no request has more than                *)
(* Flush.MaxMessages messages.                                             *)
BatchBounded ==
  /\ \A i \in Slots : count[i] = SetSize(buffer[i])
  /\ FlushMaxMessages > 0 =>
       \A b \in Brokers : \A k \in DOMAIN wire[b] : SetSize(wire[b][k].set) <= FlushMaxMessages

(* The books of the producer: every variable has its type, and with it the *)
(* retry levels their bounds; the wait group, the fins, the buffers and    *)
(* the reference counts are exact, no control message reaches the          *)
(* application, and closed channels mean that nothing is left to be sent.  *)
Bookkeeping ==
  /\ TypeOK /\ InFlightExact /\ ChaserOutstanding /\ ControlStaysInside
  /\ ClosedMeansDone /\ NoSendOnClosedInput /\ BatchBounded

(* The scheduler runs every goroutine that can go on, connections answer   *)
(* or time out; nothing is assumed of the application.                     *)
Fairness ==
  /\ WF_vars(Dispatcher) /\ WF_vars(ShutdownComplete)
  /\ \A p \in Partitions : WF_vars(PartitionProducer(p))
  /\ \A i \in Slots : WF_vars(BrokerProducer(i)) /\ WF_vars(Bridge(i))
  /\ \A b \in Brokers : WF_vars(BrokerRespond(b) \/ DeadResponse(b))

FairSpec == Spec /\ Fairness

(* Every message taken comes back. *)
EveryMessageReturned == \A m \in Messages : next > m ~> Returned(m) > 0

(* A shutdown that was asked for completes. *)
ShutdownCompletes == closeState = "requested" ~> closeState = "closed"

(* Nothing waits for ever: every message taken comes back, and a shutdown  *)
(* that was asked for completes.                                           *)
AllDone == EveryMessageReturned /\ ShutdownCompletes
=============================================================================
