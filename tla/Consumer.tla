------------------------------ MODULE Consumer ------------------------------
(***************************************************************************)
(* The consumer (consumer.go): partition consumers (children), each with a *)
(* dispatcher that finds its broker and a feeder that hands messages to    *)
(* the application, and broker consumers, each with a subscription manager *)
(* that collects children and a loop that fetches for all of them, waits   *)
(* for their feeders and decides where each child goes next. A child that  *)
(* the application reads too slowly leaves the loop and subscribes again   *)
(* by itself. Errors are assumed to be read. A partition's log is a        *)
(* sequence of batches as fetch_response.go decodes them.                  *)
(***************************************************************************)
EXTENDS Integers, Sequences, FiniteSets, SequencesExt, FiniteSetsExt

CONSTANTS
  Children,       \* partition consumers
  Brokers,        \* brokers that lead partitions or hold replicas of them
  Workers,        \* identities of broker consumers, 1..n: bound on how many are made
  Log,            \* the batches of each child's partition
  Aborted,        \* its aborted transactions: pid, first offset, offset of the marker
  StartAt,        \* the offset each child asks for
  ReadCommitted,  \* Consumer.IsolationLevel = ReadCommitted
  FetchDefault, FetchMax, Width,  \* Consumer.Fetch.Default and Max, bits of fetchSize
  MessagesCap,    \* ChannelBufferSize
  Faults,         \* what may go wrong
  MaxFaults,      \* how often
  Pauses,         \* the application pauses and resumes
  Closing         \* how it closes: a subset of {"AsyncClose", "Close"}

None == "none"
FaultKinds == {"net", "other", "range", "missing", "move", "dispatch", "replica", "slow"}

ASSUME ConsumerConstants ==
  /\ MessagesCap \in Nat /\ MaxFaults \in Nat /\ Width \in Nat \ {0, 1}
  /\ FetchDefault \in 1..(2^(Width - 1) - 1) /\ FetchMax \in 0..(2^(Width - 1) - 1)
  /\ ReadCommitted \in BOOLEAN /\ Pauses \in BOOLEAN
  /\ Faults \subseteq FaultKinds /\ Closing \subseteq {"AsyncClose", "Close"}
  /\ None \notin Brokers /\ Workers \subseteq Nat \ {0}

VARIABLES
  kids,     \* the children
  bcs,      \* the broker consumers
  current,  \* brokerConsumers: the broker consumer of each broker, or 0
  leader,   \* the leader of each child's partition
  faults    \* failures so far
vars == <<kids, bcs, current, leader, faults>>

(***************************************************************************)
(* A child: d and f say where its dispatcher and its feeder are; trig is   *)
(* what its trigger channel holds; slot is the content of its feeder       *)
(* channel; todo are the parsed messages not yet delivered; queued counts  *)
(* its messages channel; got are the offsets delivered so far.             *)
(***************************************************************************)
NewChild ==
  [d |-> "new", trig |-> 0, closed |-> FALSE, dying |-> FALSE, closing |-> "no",
   f |-> "wait", slot |-> <<>>, todo |-> <<>>, first |-> TRUE, result |-> "nil",
   off |-> 0, size |-> FetchDefault, bc |-> 0, pref |-> None,
   paused |-> FALSE, queued |-> 0, got |-> <<>>]

(***************************************************************************)
(* A broker consumer: m and batch belong to the subscription manager, the  *)
(* rest to the fetch loop; rest are the children its current step still    *)
(* has to look at.                                                         *)
(***************************************************************************)
NoWorker ==
  [broker |-> None, refs |-> 0, open |-> FALSE, m |-> "end", batch |-> {},
   c |-> "end", subs |-> {}, rest |-> {}, acks |-> 0, resp |-> <<>>]

NewWorker(b) ==
  [broker |-> b, refs |-> 1, open |-> TRUE, m |-> "select", batch |-> {},
   c |-> "idle", subs |-> {}, rest |-> {}, acks |-> 0, resp |-> <<>>]

Init ==
  /\ kids = [c \in Children |-> NewChild]
  /\ bcs = [w \in Workers |-> NoWorker]
  /\ current = [b \in Brokers |-> 0]
  /\ leader \in [Children -> Brokers]
  /\ faults = 0

May(kind) == kind \in Faults /\ faults < MaxFaults
Fault(kind) == May(kind) /\ faults' = faults + 1

-----------------------------------------------------------------------------
(* Parsing a fetched block *)

(* The offsets of a batch: record deltas count from the first offset; the  *)
(* relative offsets of a compressed message set count back from the offset *)
(* of the block, which is the last message's.                              *)
Offsets(b) ==
  IF b.legacy THEN {r + (b.offset - Max(b.recs)) : r \in b.recs}
  ELSE {b.offset + r : r \in b.recs}

LastOffset(b) == IF b.legacy THEN b.offset ELSE b.offset + b.delta

(* chooseStartingOffset: -1 is OffsetNewest, -2 OffsetOldest; -3 when the *)
(* offset asked for is out of range.                                       *)
ChooseStartingOffset(c) ==
  LET oldest == Min(Offsets(Log[c][1]))
      newest == LastOffset(Last(Log[c])) + 1
  IN  IF StartAt[c] = -1 THEN newest
      ELSE IF StartAt[c] = -2 THEN oldest
      ELSE IF StartAt[c] \in oldest..newest THEN StartAt[c] ELSE -3

(* The batches a fetch at offset o may return: from the one that holds o.  *)
From(c, o) == SelectSeq(Log[c], LAMBDA b : LastOffset(b) >= o)

(* parseRecords and parseMessages: what is below off is left out; off moves *)
(* behind the last message, or by one when there is none.                  *)
ParseRecords(off, b) ==
  LET kept == SetToSortSeq({o \in Offsets(b) : o >= off}, <) IN
  [msgs |-> kept, off |-> IF kept = <<>> THEN off + 1 ELSE Last(kept) + 1]

(* One batch of parseResponse: aborted transactions that have begun count, *)
(* until their marker; control batches and aborted ones only move off.     *)
ParseBatch(st, b) ==
  LET begun == IF b.legacy THEN <<>> ELSE SelectSeq(st.txns, LAMBDA t : t.first <= LastOffset(b))
      ids == st.ids \cup {t.pid : t \in ToSet(begun)}
      p == ParseRecords(st.off, b)
      hidden == b.control \/ (ReadCommitted /\ b.txn /\ b.pid \in ids)
  IN  [off |-> p.off,
       ids |-> IF b.control /\ b.abort THEN ids \ {b.pid} ELSE ids,
       txns |-> SubSeq(st.txns, Len(begun) + 1, Len(st.txns)),
       msgs |-> IF hidden THEN st.msgs ELSE st.msgs \o p.msgs]

(* The aborted transactions a block reports, by first offset. *)
AbortedIn(c, o, bs) ==
  SetToSortSeq({t \in Aborted[c] : t.marker >= o /\ t.first <= LastOffset(Last(bs))},
               LAMBDA t, u : t.first < u.first)

(* fetchSize is doubled, with the overflow of its type. *)
Grow(size) ==
  LET n == 2 * size
      wrapped == IF n >= 2^(Width - 1) THEN n - 2^Width ELSE n
      positive == IF wrapped < 0 THEN 2^(Width - 1) - 1 ELSE wrapped
  IN  IF FetchMax > 0 /\ positive > FetchMax THEN FetchMax ELSE positive

(* parseResponse of a block without an error: n batches were returned, and *)
(* what follows them in the log was cut off. Decoding keeps only batches   *)
(* that have records.                                                      *)
ParseOk(c, k, n) ==
  LET bs == SubSeq(From(c, k.off), 1, n)
      full == SelectSeq(bs, LAMBDA b : b.recs # {})
      cut == n < Len(From(c, k.off))
      start == [off |-> k.off, ids |-> {}, msgs |-> <<>>,
                txns |-> IF bs = <<>> THEN <<>> ELSE AbortedIn(c, k.off, bs)]
      end == FoldLeft(ParseBatch, start, full)
  IN  IF full # <<>>
      THEN [k EXCEPT !.todo = end.msgs, !.off = end.off, !.size = FetchDefault]
      ELSE IF cut /\ FetchMax > 0 /\ k.size = FetchMax
      THEN [k EXCEPT !.off = @ + 1]
      ELSE IF cut
      THEN [k EXCEPT !.size = Grow(@)]
      ELSE IF bs # <<>> /\ ~Last(bs).legacy
      THEN [k EXCEPT !.off = Last(bs).offset + 1]
      ELSE k

(* How many batches a fetch returns: as many as the fetch size holds. *)
Fits(c, k) ==
  LET bs == From(c, k.off)
      sum(n) == FoldLeft(LAMBDA a, b : a + b.size, 0, SubSeq(bs, 1, n))
  IN  Max({n \in 0..Len(bs) : sum(n) <= k.size})

ParseResponse(c, k, block) ==
  IF block.err # "nil" THEN [k EXCEPT !.result = block.err]
  ELSE [ParseOk(c, k, block.n) EXCEPT !.pref = IF block.pref = None THEN @ ELSE block.pref,
                                      !.result = "nil"]

-----------------------------------------------------------------------------
(* The consumer's table of broker consumers *)

(* refBrokerConsumer: the broker's consumer, or a new one. *)
Ref(b, c, next) ==
  \/ /\ current[b] # 0
     /\ bcs' = [bcs EXCEPT ![current[b]].refs = @ + 1]
     /\ kids' = [kids EXCEPT ![c] = [next EXCEPT !.bc = current[b]]]
     /\ UNCHANGED current
  \/ /\ current[b] = 0
     /\ \E w \in Workers :
          /\ bcs[w].broker = None /\ \A v \in Workers : v < w => bcs[v].broker # None
          /\ bcs' = [bcs EXCEPT ![w] = NewWorker(b)]
          /\ current' = [current EXCEPT ![b] = w]
          /\ kids' = [kids EXCEPT ![c] = [next EXCEPT !.bc = w]]

(* unrefBrokerConsumer: the last reference closes the input. *)
Unref(w) ==
  /\ bcs' = [bcs EXCEPT ![w].refs = @ - 1, ![w].open = bcs[w].refs > 1]
  /\ current' = IF bcs[w].refs = 1 /\ current[bcs[w].broker] = w
                THEN [current EXCEPT ![bcs[w].broker] = 0] ELSE current

-----------------------------------------------------------------------------
(* The application *)

ConsumePartition(c) ==
  /\ kids[c].d = "new" /\ ChooseStartingOffset(c) >= 0
  /\ Ref(leader[c], c, [kids[c] EXCEPT !.d = "start", !.off = ChooseStartingOffset(c)])
  /\ UNCHANGED <<leader, faults>>

ReadMessage(c) ==
  /\ kids[c].queued > 0 /\ kids[c].closing # "Close"
  /\ kids' = [kids EXCEPT ![c].queued = @ - 1]
  /\ UNCHANGED <<bcs, current, leader, faults>>

(* AsyncClose, or Close, which the application calls when it reads no more. *)
CloseChild(c, how) ==
  /\ kids[c].closing = "no" /\ kids[c].d \notin {"new", "start"}
  /\ kids' = [kids EXCEPT ![c].dying = TRUE, ![c].closing = how]
  /\ UNCHANGED <<bcs, current, leader, faults>>

PauseOrResume(c) ==
  /\ Pauses /\ kids[c].d \notin {"new", "start"}
  /\ kids' = [kids EXCEPT ![c].paused = ~@]
  /\ UNCHANGED <<bcs, current, leader, faults>>

(* The cluster elects another leader. *)
MoveLeader(c) ==
  /\ Fault("move")
  /\ \E b \in Brokers \ {leader[c]} : leader' = [leader EXCEPT ![c] = b]
  /\ UNCHANGED <<kids, bcs, current>>

-----------------------------------------------------------------------------
(* The dispatcher of a child *)

Wake(c) ==
  /\ kids[c].d = "wait" /\ kids[c].trig = 1
  /\ kids' = [kids EXCEPT ![c].trig = 0, ![c].d = "woken"]
  /\ UNCHANGED <<bcs, current, leader, faults>>

(* The backoff is cut short by dying. *)
DieAtDispatcher(c) ==
  /\ kids[c].d = "woken" /\ kids[c].dying
  /\ kids' = [kids EXCEPT ![c].closed = TRUE, ![c].d = "wait"]
  /\ UNCHANGED <<bcs, current, leader, faults>>

Backoff(c) ==
  /\ kids[c].d = "woken"
  /\ IF kids[c].bc # 0 THEN Unref(kids[c].bc) ELSE UNCHANGED <<bcs, current>>
  /\ kids' = [kids EXCEPT ![c].bc = 0, ![c].d = "dispatch"]
  /\ UNCHANGED <<leader, faults>>

(* dispatch: the preferred replica, or the leader as refreshed metadata has it. *)
Dispatch(c) ==
  /\ kids[c].d = "dispatch"
  /\ \/ /\ Ref(IF kids[c].pref # None THEN kids[c].pref ELSE leader[c], c, [kids[c] EXCEPT !.d = "send"])
        /\ UNCHANGED faults
     \/ /\ Fault("dispatch")
        /\ kids' = [kids EXCEPT ![c].d = "wait", ![c].trig = @ + 1]
        /\ UNCHANGED <<bcs, current>>
  /\ UNCHANGED leader

(* The trigger is closed: the dispatcher ends and closes the feeder channel. *)
DispatcherEnds(c) ==
  /\ kids[c].d = "wait" /\ kids[c].closed /\ kids[c].trig = 0
  /\ IF kids[c].bc # 0 THEN Unref(kids[c].bc) ELSE UNCHANGED <<bcs, current>>
  /\ kids' = [kids EXCEPT ![c].d = "done"]
  /\ UNCHANGED <<leader, faults>>

-----------------------------------------------------------------------------
(* The feeder of a child *)

AckOf(w) == [bcs EXCEPT ![w].acks = @ - 1]

ParseFeeder(c) ==
  /\ kids[c].f = "wait" /\ kids[c].slot # <<>>
  /\ \E k \in {ParseResponse(c, kids[c], Head(kids[c].slot))} :
       IF k.todo = <<>>
       THEN kids' = [kids EXCEPT ![c] = [k EXCEPT !.slot = <<>>]] /\ bcs' = AckOf(k.bc)
       ELSE kids' = [kids EXCEPT ![c] = [k EXCEPT !.slot = <<>>, !.f = "deliver"]] /\ UNCHANGED bcs
  /\ UNCHANGED <<current, leader, faults>>

Delivered(k) ==
  [k EXCEPT !.queued = @ + 1, !.got = Append(@, Head(k.todo)), !.todo = Tail(@)]

Deliver(c) ==
  /\ kids[c].f = "deliver" /\ kids[c].queued < MessagesCap
  /\ \E k \in {Delivered(kids[c])} :
       IF k.todo = <<>>
       THEN kids' = [kids EXCEPT ![c] = [k EXCEPT !.first = TRUE, !.f = "wait"]] /\ bcs' = AckOf(k.bc)
       ELSE kids' = [kids EXCEPT ![c] = [k EXCEPT !.first = TRUE]] /\ UNCHANGED bcs
  /\ UNCHANGED <<current, leader, faults>>

DeliverDying(c) ==
  /\ kids[c].f = "deliver" /\ kids[c].dying
  /\ kids' = [kids EXCEPT ![c].f = "wait", ![c].todo = <<>>]
  /\ bcs' = AckOf(kids[c].bc)
  /\ UNCHANGED <<current, leader, faults>>

(* Faulty variant: a feeder that timed out does not acknowledge. *)
ExpireWithoutAck(c) ==
  /\ "slow" \in Faults /\ kids[c].f = "deliver"
  /\ IF kids[c].first
     THEN kids' = [kids EXCEPT ![c].first = FALSE]
     ELSE kids' = [kids EXCEPT ![c].result = "timedout", ![c].f = "late"]
  /\ UNCHANGED <<bcs, current, leader, faults>>

(* Faulty variant: the message that timed out is left out. *)
ExpireSkips(c) ==
  /\ "slow" \in Faults /\ kids[c].f = "deliver"
  /\ IF kids[c].first
     THEN kids' = [kids EXCEPT ![c].first = FALSE] /\ UNCHANGED bcs
     ELSE /\ kids' = [kids EXCEPT ![c].result = "timedout", ![c].todo = Tail(@),
                                  ![c].f = IF Len(kids[c].todo) = 1 THEN "resub" ELSE "late"]
          /\ bcs' = AckOf(kids[c].bc)
  /\ UNCHANGED <<current, leader, faults>>

(* The second tick without a delivery: leave the loop, go on by oneself. *)
Expire(c) ==
  /\ "slow" \in Faults /\ kids[c].f = "deliver"
  /\ IF kids[c].first
     THEN kids' = [kids EXCEPT ![c].first = FALSE] /\ UNCHANGED bcs
     ELSE /\ kids' = [kids EXCEPT ![c].result = "timedout", ![c].f = "late"]
          /\ bcs' = AckOf(kids[c].bc)
  /\ UNCHANGED <<current, leader, faults>>

DeliverLate(c) ==
  /\ kids[c].f = "late" /\ kids[c].queued < MessagesCap
  /\ \E k \in {Delivered(kids[c])} :
       kids' = [kids EXCEPT ![c] = IF k.todo = <<>> THEN [k EXCEPT !.f = "resub"] ELSE k]
  /\ UNCHANGED <<bcs, current, leader, faults>>

LateDying(c) ==
  /\ kids[c].f = "late" /\ kids[c].dying
  /\ kids' = [kids EXCEPT ![c].f = "resub", ![c].todo = <<>>]
  /\ UNCHANGED <<bcs, current, leader, faults>>

(* The feeder channel is closed: messages and errors are closed. *)
FeederEnds(c) ==
  /\ kids[c].f = "wait" /\ kids[c].slot = <<>> /\ kids[c].d = "done"
  /\ kids' = [kids EXCEPT ![c].f = "done"]
  /\ UNCHANGED <<bcs, current, leader, faults>>

-----------------------------------------------------------------------------
(* The subscription manager of a broker consumer *)

Subscribe(c) ==
  LET w == kids[c].bc IN
  /\ kids[c].d \in {"start", "send"} \/ kids[c].f = "resub"
  /\ bcs[w].open /\ bcs[w].m \in {"select", "drain"}
  /\ kids' = IF kids[c].f # "resub" THEN [kids EXCEPT ![c].d = "wait"]
             ELSE [kids EXCEPT ![c].f = "wait"]
  /\ bcs' = [bcs EXCEPT ![w].m = "drain", ![w].batch = @ \cup {c}]
  /\ UNCHANGED <<current, leader, faults>>

BatchComplete(w) ==
  /\ bcs[w].m = "drain"
  /\ bcs' = [bcs EXCEPT ![w].m = "hand"]
  /\ UNCHANGED <<kids, current, leader, faults>>

ManagerEnds(w) ==
  /\ bcs[w].m = "select" /\ ~bcs[w].open
  /\ bcs' = [bcs EXCEPT ![w].m = "end"]
  /\ UNCHANGED <<kids, current, leader, faults>>

-----------------------------------------------------------------------------
(* The fetch loop of a broker consumer *)

Trigger(cs) == [c \in Children |-> IF c \in cs THEN [kids[c] EXCEPT !.trig = @ + 1] ELSE kids[c]]

(* The loop takes what the manager hands over (nothing, when there is no   *)
(* new subscription) and closes the triggers of dead children.             *)
UpdateSubscriptions(w) ==
  /\ bcs[w].m \in {"select", "hand"} /\ bcs[w].c = "idle"
  /\ LET subs == bcs[w].subs \cup bcs[w].batch
         dead == {c \in subs : kids[c].dying}
     IN  /\ kids' = [c \in Children |-> IF c \in dead THEN [kids[c] EXCEPT !.closed = TRUE] ELSE kids[c]]
         /\ bcs' = [bcs EXCEPT ![w].m = "select", ![w].batch = {}, ![w].subs = subs \ dead,
                               ![w].c = IF subs = dead THEN "idle" ELSE "fetch"]
  /\ UNCHANGED <<current, leader, faults>>

(* What the broker answers for a child it was asked about. *)
BlockOf(err, n, pref) == [err |-> err, n |-> n, pref |-> pref]
Blocks(w, c) ==
  IF bcs[w].broker \notin {leader[c], kids[c].pref} THEN {BlockOf("redispatch", 0, None)}
  ELSE {BlockOf("nil", Fits(c, kids[c]), None)}

FaultyBlocks(w, c) ==
  {BlockOf(e, 0, None) : e \in {"other", "range", "missing"} \cap Faults}
    \cup {BlockOf("nil", 0, b) : b \in IF "replica" \in Faults THEN Brokers \ {bcs[w].broker} ELSE {}}

FetchNewMessages(w) ==
  LET asked == {c \in bcs[w].subs : ~kids[c].paused} IN
  /\ bcs[w].c = "fetch"
  /\ \/ /\ asked = {}
        /\ bcs' = [bcs EXCEPT ![w].c = "idle"]
        /\ UNCHANGED <<current, faults>>
     \/ /\ asked # {}
        /\ \E hit \in SUBSET asked :
             /\ Cardinality(hit) <= 1
             /\ faults' = faults + Cardinality(hit) /\ faults' <= MaxFaults
             /\ \E r \in [asked -> UNION {Blocks(w, c) \cup FaultyBlocks(w, c) : c \in asked}] :
                  /\ \A c \in asked : r[c] \in IF c \in hit THEN FaultyBlocks(w, c) ELSE Blocks(w, c)
                  /\ bcs' = [bcs EXCEPT ![w].c = "feed", ![w].rest = bcs[w].subs,
                                        ![w].acks = Cardinality(bcs[w].subs), ![w].resp = r]
        /\ UNCHANGED current
     \/ /\ asked # {} /\ Fault("net")
        /\ bcs' = [bcs EXCEPT ![w].c = "abort", ![w].rest = bcs[w].subs]
        /\ current' = [current EXCEPT ![bcs[w].broker] = 0]
  /\ UNCHANGED <<kids, leader>>

(* A child with a block gets the response, any other counts as done. *)
Feed(w, c) ==
  LET b == bcs[w] IN
  /\ b.c = "feed" /\ c \in b.rest
  /\ IF c \notin DOMAIN b.resp \/ b.resp[c].err = "missing"
     THEN /\ bcs' = [bcs EXCEPT ![w].rest = @ \ {c}, ![w].acks = @ - 1,
                                ![w].c = IF b.rest = {c} THEN "acks" ELSE "feed"]
          /\ UNCHANGED kids
     ELSE /\ kids[c].slot = <<>>
          /\ kids' = [kids EXCEPT ![c].slot = <<b.resp[c]>>]
          /\ bcs' = [bcs EXCEPT ![w].rest = @ \ {c}, ![w].c = IF b.rest = {c} THEN "acks" ELSE "feed"]
  /\ UNCHANGED <<current, leader, faults>>

AcksDone(w) ==
  /\ bcs[w].c = "acks" /\ bcs[w].acks = 0
  /\ bcs' = [bcs EXCEPT ![w].c = "handle", ![w].rest = bcs[w].subs, ![w].resp = <<>>]
  /\ UNCHANGED <<kids, current, leader, faults>>

(* The results after which the dispatcher has to find a broker again. *)
Redispatched == {"redispatch", "other"}

(* handleResponses, for one child. Metadata may or may not tell of a new leader. *)
HandleResponse(w, c) ==
  LET b == bcs[w]
      k == kids[c]
      leaves == [bcs EXCEPT ![w].rest = @ \ {c}, ![w].subs = @ \ {c},
                            ![w].c = IF b.rest = {c} THEN "idle" ELSE "handle"]
      stays == [leaves EXCEPT ![w].subs = b.subs]
      heard == [k EXCEPT !.result = "nil", !.pref = None]
  IN
  /\ b.c = "handle" /\ c \in b.rest
  /\ \/ /\ k.result = "nil" /\ bcs' = stays /\ UNCHANGED kids
        /\ k.pref \in {None, b.broker}
     \/ /\ k.result = "nil" /\ bcs' = leaves /\ k.trig = 0
        /\ b.broker # (IF k.pref # None THEN k.pref ELSE leader[c])
        /\ kids' = Trigger({c})
     \/ /\ k.result \in Redispatched /\ bcs' = leaves /\ k.trig = 0
        /\ kids' = [kids EXCEPT ![c] = [heard EXCEPT !.trig = 1]]
     \/ /\ k.result = "range" /\ bcs' = leaves
        /\ kids' = [kids EXCEPT ![c] = [heard EXCEPT !.closed = TRUE]]
     \/ /\ k.result = "timedout" /\ k.result \notin Redispatched /\ bcs' = leaves
        /\ kids' = [kids EXCEPT ![c] = heard]
  /\ UNCHANGED <<current, leader, faults>>

AbortChild(w, c) ==
  /\ bcs[w].c = "abort" /\ c \in bcs[w].rest /\ kids[c].trig = 0
  /\ kids' = Trigger({c})
  /\ bcs' = [bcs EXCEPT ![w].rest = @ \ {c}, ![w].subs = @ \ {c},
                        ![w].c = IF bcs[w].rest = {c} THEN "drain" ELSE "abort"]
  /\ UNCHANGED <<current, leader, faults>>

(* An aborted loop sends new subscriptions back to their dispatchers. *)
RejectSubscriptions(w) ==
  /\ bcs[w].m \in {"select", "hand"} /\ bcs[w].c = "drain"
  /\ \A c \in bcs[w].batch : kids[c].trig = 0
  /\ kids' = Trigger(bcs[w].batch)
  /\ bcs' = [bcs EXCEPT ![w].m = "select", ![w].batch = {}]
  /\ UNCHANGED <<current, leader, faults>>

LoopEnds(w) ==
  /\ bcs[w].m = "end" /\ bcs[w].c \in {"idle", "drain"}
  /\ bcs' = [bcs EXCEPT ![w].c = "end"]
  /\ UNCHANGED <<kids, current, leader, faults>>

-----------------------------------------------------------------------------
Dispatcher(c) == Wake(c) \/ DieAtDispatcher(c) \/ Backoff(c) \/ Dispatch(c) \/ DispatcherEnds(c)

Feeder(c) ==
  ParseFeeder(c) \/ Deliver(c) \/ DeliverDying(c) \/ DeliverLate(c) \/ LateDying(c) \/ FeederEnds(c)

Manager(w) == BatchComplete(w) \/ ManagerEnds(w)

Loop(w) ==
  \/ UpdateSubscriptions(w) \/ FetchNewMessages(w) \/ AcksDone(w)
  \/ RejectSubscriptions(w) \/ LoopEnds(w)
  \/ \E c \in Children : Feed(w, c) \/ HandleResponse(w, c) \/ AbortChild(w, c)

(* What the application does with a partition consumer. *)
Application(c) ==
  \/ ConsumePartition(c) \/ ReadMessage(c) \/ PauseOrResume(c)
  \/ \E how \in Closing : CloseChild(c, how)

Next ==
  \/ \E c \in Children :
       \/ Application(c) \/ MoveLeader(c)
       \/ Dispatcher(c) \/ Feeder(c) \/ Expire(c) \/ Subscribe(c)
  \/ \E w \in Workers : Manager(w) \/ Loop(w)

Spec == Init /\ [][Next]_vars

(* Goroutines run, fetches are answered, and the application reads. *)
FairSpec ==
  /\ Spec
  /\ \A c \in Children :
       /\ WF_vars(Dispatcher(c)) /\ WF_vars(Feeder(c)) /\ SF_vars(Subscribe(c))
       /\ WF_vars(ReadMessage(c)) /\ WF_vars(ConsumePartition(c))
  /\ \A w \in Workers : WF_vars(Manager(w)) /\ WF_vars(Loop(w))

-----------------------------------------------------------------------------
ChildOK(c, k) ==
  /\ k.d \in {"new", "start", "wait", "woken", "dispatch", "send", "done"}
  /\ k.f \in {"wait", "deliver", "late", "resub", "done"}
  /\ k.trig \in {0, 1} /\ {k.closed, k.dying, k.first, k.paused} \subseteq BOOLEAN
  /\ k.closing \in {"no", "AsyncClose", "Close"}
  /\ Len(k.slot) <= 1 /\ k.queued \in 0..MessagesCap
  /\ k.result \in {"nil", "timedout", "range", "redispatch", "other"}
  /\ k.off \in Nat /\ k.size \in 1..(2^(Width - 1) - 1) /\ (FetchMax > 0 => k.size <= Max({FetchMax, FetchDefault}))
  /\ k.bc \in Workers \cup {0} /\ k.pref \in Brokers \cup {None}
  /\ (k.f \in {"deliver", "late"}) = (k.todo # <<>>)

WorkerOK(b) ==
  /\ b.broker \in Brokers \cup {None} /\ b.refs \in 0..Cardinality(Children) /\ b.open \in BOOLEAN
  /\ b.m \in {"select", "drain", "hand", "end"}
  /\ b.c \in {"idle", "fetch", "feed", "acks", "handle", "abort", "drain", "end"}
  /\ b.subs \subseteq Children /\ b.batch \subseteq Children /\ b.rest \subseteq b.subs
  /\ b.acks \in 0..Cardinality(b.subs)

TypeOK ==
  /\ DOMAIN kids = Children /\ \A c \in Children : ChildOK(c, kids[c])
  /\ DOMAIN bcs = Workers /\ \A w \in Workers : WorkerOK(bcs[w])
  /\ current \in [Brokers -> Workers \cup {0}] /\ leader \in [Children -> Brokers]
  /\ faults \in 0..MaxFaults

(* The offsets a partition shows its readers: records that are neither     *)
(* control records nor, for ReadCommitted, of an aborted transaction, and  *)
(* not of a batch larger than Fetch.Max, which is reported as an error.    *)
AbortedBatch(c, b) ==
  \E t \in Aborted[c] : b.txn /\ b.pid = t.pid /\ b.offset >= t.first /\ b.offset < t.marker
Visible(c) ==
  UNION {Offsets(b) : b \in {x \in ToSet(Log[c]) :
           ~x.control /\ (FetchMax = 0 \/ x.size <= FetchMax) /\ ~(ReadCommitted /\ AbortedBatch(c, x))}}
VisibleIn(c, from, to) == SetToSortSeq({o \in Visible(c) : o >= from /\ o < to}, <)

(* What a child has delivered and is about to deliver is exactly what its  *)
(* partition shows between its first offset and the one it fetches next,   *)
(* in order, through timeouts, redispatches, compacted batches, aborted    *)
(* transactions and growing fetch sizes; closing may drop the end of it.   *)
NoGapNoDuplicate ==
  \A c \in Children :
    LET all == VisibleIn(c, ChooseStartingOffset(c), kids[c].off) IN
    IF kids[c].dying THEN IsPrefix(kids[c].got, all)
    ELSE kids[c].got \o kids[c].todo = all

(* Every child is in exactly one hand: its dispatcher, a manager's batch,  *)
(* a fetch loop, its own feeder after a timeout, or closed. So its trigger *)
(* is neither sent on after it was closed nor closed twice.                *)
Holders(c) ==
  LET k == kids[c] IN
    {<<"trigger">> : x \in {1} \cap {k.trig}}
      \cup {<<"dispatcher">> : x \in {k.d} \cap {"new", "start", "woken", "dispatch", "send"}}
      \cup {<<"feeder">> : x \in {k.f} \cap {"late", "resub"}}
      \cup {<<"batch", w>> : w \in {v \in Workers : c \in bcs[v].batch}}
      \cup {<<"loop", w>> : w \in {v \in Workers : c \in bcs[v].subs /\ k.result # "timedout"}}
      \cup {<<"closed">> : x \in {k.closed} \cap {TRUE}}
OneHolder == \A c \in Children : Cardinality(Holders(c)) = 1

(* The manager never finds its input closed while it collects a batch (it  *)
(* would add nil), nobody sends on a closed input, and a loop that fetches *)
(* is the one its broker is known by.                                      *)
InputOpen ==
  /\ \A w \in Workers : bcs[w].m = "drain" => bcs[w].open
  /\ \A c \in Children : kids[c].d \in {"start", "send"} \/ kids[c].f = "resub" => bcs[kids[c].bc].open
  /\ \A w \in Workers : bcs[w].c = "fetch" => current[bcs[w].broker] = w

(* A child reads exactly what its partition shows, in one hand at a time   *)
(* and through open channels; its fetch size and its channels stay within  *)
(* their bounds.                                                           *)
ReadsExactly == TypeOK /\ NoGapNoDuplicate /\ OneHolder /\ InputOpen

(* Whatever a child's hands are doing, once it is closed its channels are  *)
(* closed.                                                                 *)
CloseCompletes == <>[](\A c \in Children : kids[c].dying => kids[c].f = "done")

(* Everything a partition shows is delivered, unless the child is closed,  *)
(* its offset was out of range, or it is paused again and again: no child  *)
(* is forgotten by a loop, a manager or a dispatcher.                      *)
DeliveredAll(c) ==
  \/ kids[c].closed \/ kids[c].dying \/ kids[c].paused
  \/ ToSet(kids[c].got) = {o \in Visible(c) : o >= ChooseStartingOffset(c)}
AllDelivered == \A c \in Children : []<>DeliveredAll(c)

(* A child delivers all it has to, and closes when it is told to. *)
AllDone == AllDelivered /\ CloseCompletes
=============================================================================
