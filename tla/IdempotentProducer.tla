------------------------- MODULE IdempotentProducer -------------------------
(***************************************************************************)
(* The idempotent path of the asynchronous producer: sequence numbers and  *)
(* epochs (transaction_manager.go), the partition producer that hands them *)
(* out, the broker producer that batches by epoch, retryBatch, and the     *)
(* epoch bump of returnError.  One partition and one broker, which removes *)
(* duplicates by epoch and sequence; the retry levels and the lifecycle of *)
(* broker producers are those of AsyncProducer.                            *)
(***************************************************************************)
EXTENDS Integers, Sequences, SequencesExt, FiniteSets

CONSTANTS
  NumMessages,      \* how many messages the application sends
  NumSlots,         \* bound: broker producers alive at the same time
  RetryMax,         \* Producer.Retry.Max
  MaxFaults,        \* bound: how many requests go wrong
  Faults            \* how: "refused", "appended", "fatal", "net", "leader"

ASSUME IdempotentAssumption ==
  /\ NumMessages \in Nat /\ NumSlots \in Nat \ {0} /\ MaxFaults \in Nat
  /\ RetryMax \in Nat \ {0}      \* Config.Validate
  /\ Faults \subseteq {"refused", "appended", "fatal", "net", "leader"}

Messages == 1..NumMessages
Slots == 1..NumSlots
Levels == 0..RetryMax
NoSlot == 0

\* A ProducerMessage; 0 identifies syn and fin.
Msg(flag, id, retries) ==
  [flag |-> flag, id |-> id, retries |-> retries, seq |-> 0, epoch |-> 0, has |-> FALSE]
NoMsg == Msg("none", 0, 0)

\* A produceSet: its messages, its epoch and FirstSequence of its batch.
Set(msgs, e) == [msgs |-> msgs, epoch |-> e, first |-> IF msgs = <<>> THEN 0 ELSE msgs[1].seq]

VARIABLES
  next, retryQ, succ, errs,                  \* as in AsyncProducer
  epoch, sequence,                           \* producerEpoch, sequenceNumbers
  ppc, cur, hwm, buf, chaser, pbp, sending,  \* the partition producer
  brokers, refs, bp,                         \* the broker producers
  batches,                                   \* goroutines in retryBatch
  conn, wire, log, state, faults             \* connection and broker

sequences == <<epoch, sequence>>
settled == <<retryQ, succ, errs, sequences>>
gate == <<hwm, buf, chaser>>
ppVars == <<ppc, cur, gate, pbp, sending>>
table == <<brokers, refs>>
net == <<conn, wire, log, state, faults>>
vars == <<next, settled, ppVars, table, bp, batches, net>>

FreeBP == [pc |-> "free", buffer |-> <<>>, epoch |-> 0, retrying |-> FALSE,
           closing |-> FALSE, wait |-> NoMsg, bridge |-> <<>>, responses |-> <<>>]

Init ==
  /\ next = 1 /\ retryQ = <<>>
  /\ succ = [m \in 0..NumMessages |-> 0] /\ errs = [m \in 0..NumMessages |-> 0]
  /\ epoch = 0 /\ sequence = 0
  /\ ppc = "idle" /\ cur = NoMsg /\ hwm = 0
  /\ buf = [l \in Levels |-> <<>>] /\ chaser = [l \in Levels |-> FALSE]
  /\ pbp = NoSlot /\ sending = NoMsg
  /\ brokers = NoSlot /\ refs = [i \in Slots |-> 0]
  /\ bp = [i \in Slots |-> FreeBP] /\ batches = {}
  /\ conn = "up" /\ wire = <<>> /\ log = <<>> /\ faults = 0
  /\ state = [epoch |-> 0, seq |-> -1, recent |-> {}]

Fault(f) == f \in Faults /\ faults < MaxFaults /\ faults' = faults + 1

-----------------------------------------------------------------------------
(* Returning and retrying messages.                                        *)

\* returnError: the epoch is bumped for every message that has a sequence.
Bumps(dead) == Len(SelectSeq(dead, LAMBDA m : m.has))

Count(f, ms) == [i \in DOMAIN f |-> f[i] + Len(SelectSeq(ms, LAMBDA m : m.id = i))]

\* returnSuccesses(ok), retryMessages(again) and returnErrors(failed).
Settle(ok, again, failed) ==
  LET dead == SelectSeq(again, LAMBDA m : m.retries >= RetryMax) \o failed
      live == SelectSeq(again, LAMBDA m : m.retries < RetryMax)
  IN /\ retryQ' = retryQ \o [k \in DOMAIN live |-> [live[k] EXCEPT !.retries = @ + 1]]
     /\ succ' = Count(succ, ok)
     /\ errs' = Count(errs, dead)
     /\ epoch' = epoch + Bumps(dead)
     /\ sequence' = IF Bumps(dead) > 0 THEN 0 ELSE sequence

-----------------------------------------------------------------------------
(* The table of broker producers.                                          *)

\* Faulty variant: only the first user of a broker producer is counted.
GetUncounted(i) ==
  \/ brokers = i /\ i # NoSlot /\ UNCHANGED <<brokers, refs, bp>>
  \/ /\ brokers = NoSlot /\ bp[i].pc = "free"
     /\ brokers' = i
     /\ refs' = [refs EXCEPT ![i] = 1]
     /\ bp' = [bp EXCEPT ![i] = [FreeBP EXCEPT !.pc = "run", !.epoch = epoch]]

\* getBrokerProducer answers i.
Get(i) ==
  \/ /\ brokers = i /\ i # NoSlot
     /\ refs' = [refs EXCEPT ![i] = @ + 1]
     /\ UNCHANGED <<brokers, bp>>
  \/ /\ brokers = NoSlot /\ bp[i].pc = "free"
     /\ \A j \in Slots : j < i => bp[j].pc # "free"
     /\ brokers' = i
     /\ refs' = [refs EXCEPT ![i] = 1]
     /\ bp' = [bp EXCEPT ![i] = [FreeBP EXCEPT !.pc = "run", !.epoch = epoch]]

\* unrefBrokerProducer
Unref(i) ==
  /\ refs' = [refs EXCEPT ![i] = @ - 1]
  /\ brokers' = IF refs[i] = 1 /\ brokers = i THEN NoSlot ELSE brokers

-----------------------------------------------------------------------------
(* The partition producer.                                                 *)

Ready == sending = NoMsg

TakeNewLevel(m) ==
  /\ m.retries > hwm
  /\ ppc' = "newhwm" /\ cur' = m
  /\ UNCHANGED gate

TakeLower(m) ==
  /\ m.retries < hwm
  /\ IF m.flag = "fin"
     THEN chaser' = [chaser EXCEPT ![m.retries] = FALSE] /\ UNCHANGED buf
     ELSE buf' = [buf EXCEPT ![m.retries] = Append(@, m)] /\ UNCHANGED chaser
  /\ UNCHANGED <<ppc, cur, hwm>>

TakeFin(m) ==
  /\ m.retries = hwm /\ hwm > 0 /\ m.flag = "fin"
  /\ chaser' = [chaser EXCEPT ![hwm] = FALSE]
  /\ hwm' = hwm - 1 /\ ppc' = "flush"
  /\ UNCHANGED <<cur, buf>>

TakeCurrent(m) ==
  /\ m.retries = hwm /\ (hwm > 0 => m.flag # "fin")
  /\ ppc' = "send" /\ cur' = m
  /\ UNCHANGED gate

\* The next message, from the application or from the retry handler.
PPTake ==
  /\ ppc = "idle" /\ Ready
  /\ \E m \in {Msg("data", k, 0) : k \in {next} \cap Messages}
              \cup {retryQ[k] : k \in {1} \cap DOMAIN retryQ} :
       /\ IF m.retries = 0 THEN next' = next + 1 /\ UNCHANGED retryQ
          ELSE retryQ' = Tail(retryQ) /\ UNCHANGED next
       /\ TakeNewLevel(m) \/ TakeLower(m) \/ TakeFin(m) \/ TakeCurrent(m)
  /\ UNCHANGED <<succ, errs, sequences, pbp, sending, table, bp, batches, net>>

\* updateLeader, or its failure: the message, or the level being flushed, is
\* returned.
PPLeader ==
  /\ ppc \in {"newhwm", "send", "flush"} /\ Ready /\ pbp = NoSlot
  /\ \/ /\ \E i \in Slots : Get(i) /\ pbp' = i
        /\ sending' = Msg("syn", 0, 0)
        /\ conn' = "up"
        /\ UNCHANGED <<settled, ppc, cur, buf, faults>>
     \/ /\ Fault("leader")
        /\ IF ppc = "flush"
           THEN /\ Settle(<<>>, <<>>, buf[hwm])
                /\ buf' = [buf EXCEPT ![hwm] = <<>>]
                /\ ppc' = "flushed" /\ UNCHANGED cur
           ELSE /\ Settle(<<>>, <<>>, <<cur>>)
                /\ ppc' = "idle" /\ cur' = NoMsg /\ UNCHANGED buf
        /\ UNCHANGED <<pbp, sending, table, bp, conn>>
  /\ UNCHANGED <<next, hwm, chaser, batches, wire, log, state>>

PPNewHighWatermark ==
  /\ ppc = "newhwm" /\ Ready /\ pbp # NoSlot
  /\ hwm' = cur.retries
  /\ chaser' = [chaser EXCEPT ![cur.retries] = TRUE]
  /\ sending' = Msg("fin", 0, cur.retries - 1)
  /\ ppc' = "unref"
  /\ UNCHANGED <<next, settled, cur, buf, pbp, table, bp, batches, net>>

PPUnref ==
  /\ ppc = "unref" /\ Ready
  /\ Unref(pbp)
  /\ pbp' = NoSlot /\ ppc' = "send"
  /\ UNCHANGED <<next, settled, cur, gate, sending, bp, batches, net>>

\* Faulty variant: a retried message is given a new sequence number.
NeedsSequenceAlways(m) == m.flag = "data"

NeedsSequence(m) == m.retries = 0 /\ m.flag = "data"

\* getAndIncrementSequenceNumber
PPSend ==
  /\ ppc = "send" /\ Ready /\ pbp # NoSlot
  /\ IF NeedsSequence(cur)
     THEN /\ sending' = [cur EXCEPT !.seq = sequence, !.epoch = epoch, !.has = TRUE]
          /\ sequence' = sequence + 1
     ELSE sending' = cur /\ UNCHANGED sequence
  /\ cur' = NoMsg /\ ppc' = "idle"
  /\ UNCHANGED <<next, retryQ, succ, errs, epoch, gate, pbp, table, bp, batches, net>>

\* flushRetryBuffers sends what was buffered as it is.
PPFlushSend ==
  /\ ppc = "flush" /\ Ready /\ pbp # NoSlot
  /\ buf[hwm] # <<>>
  /\ sending' = Head(buf[hwm])
  /\ buf' = [buf EXCEPT ![hwm] = Tail(@)]
  /\ UNCHANGED <<next, settled, ppc, cur, hwm, chaser, pbp, table, bp, batches, net>>

PPFlushed ==
  /\ Ready /\ buf[hwm] = <<>>
  /\ ppc = "flushed" \/ (ppc = "flush" /\ pbp # NoSlot)
  /\ IF chaser[hwm] \/ hwm = 0
     THEN ppc' = "idle" /\ UNCHANGED hwm
     ELSE ppc' = "flush" /\ hwm' = hwm - 1
  /\ UNCHANGED <<next, settled, cur, buf, chaser, pbp, sending, table, bp, batches, net>>

-----------------------------------------------------------------------------
(* The broker producer and its bridge.                                     *)

\* MaxOpenRequests is 1: one request is awaited, one more has been written.
SenderWaits == Len(wire) > 1

BridgeFree(i) == bp[i].bridge = <<>> /\ ~(SenderWaits /\ wire[2].bp = i)

\* produceSet.add fits the message into the batch whose first sequence it is
\* not below, or returns it.
Adds(set, m) == set = <<>> \/ m.seq >= set[1].seq

Add(i, b, set, m) ==
  IF Adds(set, m)
  THEN bp' = [bp EXCEPT ![i] = [b EXCEPT !.buffer = Append(set, m)]] /\ UNCHANGED settled
  ELSE bp' = [bp EXCEPT ![i] = [b EXCEPT !.buffer = set]] /\ Settle(<<>>, <<>>, <<m>>)

NeedsRetry(b) == b.closing \/ b.retrying

EpochsDiffer(b, m) == b.epoch # m.epoch

BPReceive(i) ==
  /\ bp[i].pc = "run" /\ bp[i].wait = NoMsg /\ pbp = i /\ ~Ready
  /\ sending' = NoMsg
  /\ LET b == bp[i]  m == sending
     IN \/ /\ m.flag = "syn"
           /\ bp' = [bp EXCEPT ![i].retrying = FALSE]
           /\ UNCHANGED settled
        \/ /\ m.flag # "syn" /\ NeedsRetry(b)
           /\ Settle(<<>>, <<m>>, <<>>)
           /\ bp' = [bp EXCEPT ![i].retrying = @ /\ ~(~b.closing /\ m.flag = "fin")]
        \/ /\ m.flag = "fin" /\ ~NeedsRetry(b)
           /\ Settle(<<>>, <<m>>, <<>>)
           /\ UNCHANGED bp
        \/ /\ m.flag = "data" /\ ~NeedsRetry(b) /\ EpochsDiffer(b, m)
           /\ bp' = [bp EXCEPT ![i].wait = m]
           /\ UNCHANGED settled
        \/ /\ m.flag = "data" /\ ~NeedsRetry(b) /\ ~EpochsDiffer(b, m)
           /\ Add(i, b, b.buffer, m)
  /\ UNCHANGED <<next, ppc, cur, gate, pbp, table, batches, net>>

\* Faulty variant: an empty buffer is not rolled over.
BPFlushSome(i) ==
  /\ BridgeFree(i) /\ bp[i].buffer # <<>>
  /\ LET b == bp[i]
         rolled == [b EXCEPT !.bridge = <<Set(b.buffer, b.epoch)>>, !.buffer = <<>>,
                             !.epoch = epoch, !.wait = NoMsg]
     IN \/ /\ b.pc \in {"run", "shutdown"} /\ b.wait = NoMsg
           /\ bp' = [bp EXCEPT ![i] = rolled]
           /\ UNCHANGED settled
        \/ b.wait # NoMsg /\ Add(i, rolled, <<>>, b.wait)
  /\ UNCHANGED <<next, ppVars, table, batches, net>>

\* The buffer goes to the bridge and a new one with the epoch of the moment is
\* begun; the message that waited for that, in waitForSpace, is then added.
BPFlush(i) ==
  /\ BridgeFree(i)
  /\ LET b == bp[i]
         rolled == [b EXCEPT !.bridge = <<Set(b.buffer, b.epoch)>>, !.buffer = <<>>,
                             !.epoch = epoch, !.wait = NoMsg]
     IN \/ /\ b.pc \in {"run", "shutdown"} /\ b.wait = NoMsg /\ b.buffer # <<>>
           /\ bp' = [bp EXCEPT ![i] = rolled]
           /\ UNCHANGED settled
        \/ /\ b.wait # NoMsg
           /\ Add(i, rolled, <<>>, b.wait)
  /\ UNCHANGED <<next, ppVars, table, batches, net>>

\* AsyncProduce
Bridge(i) ==
  /\ bp[i].bridge # <<>> /\ ~SenderWaits
  /\ LET set == bp[i].bridge[1]
     IN IF conn = "up"
        THEN /\ wire' = Append(wire, [bp |-> i, set |-> set])
             /\ bp' = [bp EXCEPT ![i].bridge = <<>>]
        ELSE /\ bp' = [bp EXCEPT ![i].bridge = <<>>,
                                 ![i].responses = Append(@, [set |-> set, verdict |-> "net"])]
             /\ UNCHANGED wire
  /\ UNCHANGED <<next, settled, ppVars, table, batches, conn, log, state, faults>>

\* A retriable error leaves the batch to retryBatch.
SentAgain(r) == IF r.verdict = "net" THEN r.set.msgs ELSE <<>>

\* handleResponse: with it go the buffered messages that a failure drops, and
\* the one in waitForSpace that must be retried.
BPResponse(i) ==
  /\ bp[i].responses # <<>>
  /\ LET b == bp[i]
         r == Head(b.responses)
         ms == r.set.msgs
         drops == (ms # <<>> /\ r.verdict = "retriable") \/ r.verdict = "net"
         retried == SentAgain(r) \o
                    (IF drops THEN b.buffer ELSE <<>>) \o
                    (IF drops /\ b.wait # NoMsg THEN <<b.wait>> ELSE <<>>)
     IN /\ r.verdict = "net" /\ conn = "up" => wire = <<>>
        /\ Settle(IF r.verdict = "ok" THEN ms ELSE <<>>, retried,
                  IF r.verdict = "fatal" THEN ms ELSE <<>>)
        /\ bp' = [bp EXCEPT ![i] = [b EXCEPT
                    !.responses = Tail(@),
                    !.closing = @ \/ r.verdict = "net",
                    !.retrying = @ \/ (drops /\ r.verdict = "retriable"),
                    !.buffer = IF drops THEN <<>> ELSE @,
                    !.wait = IF drops THEN NoMsg ELSE @,
                    !.epoch = IF drops \/ b.buffer = <<>> THEN epoch' ELSE @]]
        /\ batches' = IF drops /\ r.verdict = "retriable"
                      THEN batches \cup {[set |-> r.set, slot |-> NoSlot]} ELSE batches
        /\ brokers' = IF r.verdict = "net" THEN NoSlot ELSE brokers
        /\ conn' = IF r.verdict = "net" THEN "down" ELSE conn
  /\ UNCHANGED <<next, ppVars, refs, wire, log, state, faults>>

Outstanding(i) == \E k \in DOMAIN wire : wire[k].bp = i

BPShutdown(i) ==
  /\ bp[i].pc = "run" /\ bp[i].wait = NoMsg /\ refs[i] = 0
  /\ bp' = [bp EXCEPT ![i].pc = "shutdown"]
  /\ UNCHANGED <<next, settled, ppVars, table, batches, net>>

BPCloseOutput(i) ==
  /\ bp[i].pc = "shutdown" /\ bp[i].buffer = <<>>
  /\ bp' = [bp EXCEPT ![i].pc = "drain"]
  /\ UNCHANGED <<next, settled, ppVars, table, batches, net>>

BPExit(i) ==
  /\ bp[i].pc = "drain" /\ bp[i].responses = <<>> /\ bp[i].bridge = <<>> /\ ~Outstanding(i)
  /\ bp' = [bp EXCEPT ![i] = FreeBP]
  /\ UNCHANGED <<next, settled, ppVars, table, batches, net>>

-----------------------------------------------------------------------------
(* retryBatch, a goroutine of its own.                                     *)

\* The batch is given up when one of its messages is out of retries or the
\* leader is not found; otherwise the leader's broker producer is referenced.
BatchLeader(t) ==
  /\ t \in batches /\ t.slot = NoSlot
  /\ IF \E k \in DOMAIN t.set.msgs : t.set.msgs[k].retries >= RetryMax
     THEN /\ Settle(<<>>, <<>>, t.set.msgs)
          /\ batches' = batches \ {t}
          /\ UNCHANGED <<table, bp, conn, faults>>
     ELSE \/ /\ Fault("leader")
             /\ Settle(<<>>, <<>>, t.set.msgs)
             /\ batches' = batches \ {t}
             /\ UNCHANGED <<table, bp, conn>>
          \/ /\ \E i \in Slots :
                  /\ Get(i)
                  /\ batches' = (batches \ {t}) \cup
                       {[slot |-> i,
                         set |-> [t.set EXCEPT !.msgs =
                           [k \in DOMAIN @ |-> [@[k] EXCEPT !.retries = @ + 1]]]]}
             /\ conn' = "up"
             /\ UNCHANGED <<settled, faults>>
  /\ UNCHANGED <<next, ppVars, wire, log, state>>

\* The batch competes with the broker producer's own for the bridge.
BatchPush(t) ==
  /\ t \in batches /\ t.slot # NoSlot /\ BridgeFree(t.slot)
  /\ bp' = [bp EXCEPT ![t.slot].bridge = <<t.set>>]
  /\ batches' = batches \ {t}
  /\ Unref(t.slot)
  /\ UNCHANGED <<next, settled, ppVars, net>>

-----------------------------------------------------------------------------
(* The broker.                                                             *)

\* A batch is a duplicate if its epoch and its first and last sequence are
\* those of a recent one, and is appended if it continues the sequence.
Span(set) == <<set.first, set.first + Len(set.msgs) - 1>>

Duplicate(st, set) ==
  set.msgs = <<>> \/ (set.epoch = st.epoch /\ Span(set) \in st.recent)

Continues(st, set) ==
  \/ set.epoch = st.epoch /\ set.first = st.seq + 1
  \/ set.epoch > st.epoch /\ set.first = 0

Appends(st, set) == ~Duplicate(st, set) /\ Continues(st, set)

Applied(st, set) ==
  IF ~Appends(st, set) THEN st
  ELSE [epoch |-> set.epoch, seq |-> Span(set)[2],
        recent |-> (IF set.epoch = st.epoch THEN st.recent ELSE {}) \cup {Span(set)}]

Ids(st, set) == IF Appends(st, set) THEN [k \in DOMAIN set.msgs |-> set.msgs[k].id] ELSE <<>>

Answered(r, v) ==
  bp' = [bp EXCEPT ![r.bp].responses = Append(@, [set |-> r.set, verdict |-> v])]

Apply(set) == state' = Applied(state, set) /\ log' = log \o Ids(state, set)

\* The oldest request is answered: as it deserves, with a retriable error
\* before or after the append, or with another error.
BrokerAnswer ==
  /\ wire # <<>> /\ conn = "up"
  /\ LET r == Head(wire)
         good == Duplicate(state, r.set) \/ Continues(state, r.set)
     IN \/ /\ Apply(r.set)
           /\ Answered(r, IF good THEN "ok" ELSE "fatal")
           /\ UNCHANGED faults
        \/ /\ Fault("refused") /\ Answered(r, "retriable")
           /\ UNCHANGED <<state, log>>
        \/ /\ Fault("appended") /\ good /\ Answered(r, "retriable")
           /\ Apply(r.set)
        \/ /\ Fault("fatal") /\ Answered(r, "fatal")
           /\ UNCHANGED <<state, log>>
  /\ wire' = Tail(wire)
  /\ UNCHANGED <<next, settled, ppVars, table, batches, conn>>

\* The connection breaks; the broker may have taken requests.
ConnectionLost ==
  /\ wire # <<>> /\ conn = "up" /\ Fault("net")
  /\ \/ UNCHANGED <<state, log>>
     \/ Apply(wire[1].set)
     \/ /\ Len(wire) = 2
        /\ LET one == Applied(state, wire[1].set)
           IN /\ state' = Applied(one, wire[2].set)
              /\ log' = log \o Ids(state, wire[1].set) \o Ids(one, wire[2].set)
  /\ conn' = "down" /\ wire' = <<>>
  /\ bp' = [i \in Slots |->
       [bp[i] EXCEPT !.responses = @ \o
          [k \in DOMAIN SelectSeq(wire, LAMBDA r : r.bp = i) |->
             [set |-> SelectSeq(wire, LAMBDA r : r.bp = i)[k].set, verdict |-> "net"]]]]
  /\ UNCHANGED <<next, settled, ppVars, table, batches>>

-----------------------------------------------------------------------------

PPNext == PPTake \/ PPLeader \/ PPNewHighWatermark \/ PPUnref \/ PPSend \/ PPFlushSend \/ PPFlushed

BPNext(i) ==
  BPReceive(i) \/ BPFlush(i) \/ Bridge(i) \/ BPResponse(i) \/ BPShutdown(i) \/ BPCloseOutput(i)
  \/ BPExit(i)

BatchNext == \E t \in batches : BatchLeader(t) \/ BatchPush(t)

Next == PPNext \/ (\E i \in Slots : BPNext(i)) \/ BatchNext \/ BrokerAnswer \/ ConnectionLost

Spec == Init /\ [][Next]_vars

\* Every goroutine goes on, and the broker answers or the connection breaks.
FairSpec ==
  /\ Spec
  /\ WF_vars(PPNext) /\ WF_vars(BatchNext) /\ WF_vars(BrokerAnswer)
  /\ \A i \in Slots : WF_vars(BPNext(i)) /\ WF_vars(Bridge(i))

-----------------------------------------------------------------------------

TypeOK ==
  /\ next \in 1..(NumMessages + 1) /\ hwm \in Levels
  /\ epoch \in 0..NumMessages /\ sequence \in 0..NumMessages
  /\ pbp \in 0..NumSlots /\ brokers \in 0..NumSlots
  /\ \A i \in Slots : refs[i] \in Nat
  /\ Len(wire) <= 2

\* Every message comes back once, through Successes or through Errors, also
\* when a batch is retried in a goroutine of its own.
AnsweredOnce == \A m \in Messages : succ[m] + errs[m] <= 1

\* retryBatch never sends a batch on an output that was closed.
OutputOpen == \A t \in batches : t.slot # NoSlot => bp[t.slot].pc = "run"

\* Until the epoch is bumped, retries never write a message twice.
OneCopyInFirstEpoch == state.epoch = 0 => IsInjective(log)

\* No batch of a retry meets a closed output, and no message is answered by two of the
\* goroutines that retry it; counters and channels stay within their bounds.
RetriesStayInside == TypeOK /\ AnsweredOnce /\ OutputOpen

\* Every message that is sent comes back.
AllAnswered == <>(\A m \in Messages : succ[m] + errs[m] = 1)

=============================================================================
