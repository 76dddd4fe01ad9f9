---------------------------- MODULE ConsumerGroup ----------------------------
(***************************************************************************)
(* The consumer group (consumer_group.go): members that join a group at    *)
(* its coordinator, share out the partitions, run one goroutine per claim  *)
(* and a heartbeat loop, and release a session before they join again or   *)
(* leave. Each member is one ConsumerGroup whose application calls Consume *)
(* in a loop and may call Close at any time from another goroutine. The    *)
(* coordinator is external: generations, joining and syncing, heartbeats,  *)
(* committed offsets. Offsets are those of the offset manager's contract:  *)
(* what is marked is committed in the background and when it is closed.    *)
(***************************************************************************)
EXTENDS Integers, FiniteSets

CONSTANTS
  Members,     \* members of the group
  Partitions,  \* partitions of the topics they subscribe to
  LogEnd,      \* messages in each partition
  MaxRetries,  \* Rebalance.Retry.Max, and Metadata.Retry.Max of heartbeats
  RequireId,   \* the coordinator wants a member ID before a member joins
  Closers,     \* the members that are closed at some time
  Faults,      \* what may go wrong
  MaxFaults    \* how often

FaultKinds == {"metadata", "coordinator", "net", "join", "sync", "fatal", "pom", "setup", "claim",
               "exit", "heartbeat", "commit", "expire", "partitions", "cancel", "leave", "report"}

ASSUME GroupConstants ==
  /\ LogEnd \in Nat /\ MaxRetries \in Nat /\ MaxFaults \in Nat
  /\ RequireId \in BOOLEAN /\ Closers \subseteq Members /\ Faults \subseteq FaultKinds

VARIABLES
  g,          \* the members' side
  inbox,      \* the answer on its way to each member's JoinGroup or SyncGroup
  group,      \* the coordinator's side
  committed,  \* the group's committed offsets
  seen,       \* how far each partition has been processed by anyone
  faults      \* failures so far
vars == <<g, inbox, group, committed, seen, faults>>

None == "none"
NoAnswer == [kind |-> None, gen |-> 0, leads |-> FALSE, claims |-> {}]

(***************************************************************************)
(* A member: call is where Consume is; lock who holds c.lock; id whether   *)
(* memberID is set; cancelled whether the session's context is done; ctx   *)
(* whether the application's is; hb and dying are the heartbeat loop and   *)
(* hbDying; claim, pos: the claims' goroutines and what they have marked;  *)
(* report: a goroutine in handleError; errs: the errors channel is open.   *)
(***************************************************************************)
NewMember ==
  [call |-> "idle", lock |-> None, retries |-> 0, id |-> FALSE, gen |-> 0, leads |-> FALSE,
   cancelled |-> FALSE, ctx |-> FALSE, hb |-> "off", dying |-> FALSE, beats |-> 0,
   claim |-> [p \in Partitions |-> None], pos |-> [p \in Partitions |-> 0], cleanup |-> TRUE,
   closed |-> FALSE, close |-> "no", report |-> "idle", errs |-> TRUE]

Init ==
  /\ g = [m \in Members |-> NewMember]
  /\ inbox = [m \in Members |-> NoAnswer]
  /\ group = [gen |-> 0, phase |-> "stable", known |-> {}, pending |-> {}, joined |-> {},
              leader |-> None, waiting |-> {}, plan |-> [p \in Partitions |-> None]]
  /\ committed = [p \in Partitions |-> 0] /\ seen = [p \in Partitions |-> 0]
  /\ faults = 0

Fault(kind) == kind \in Faults /\ faults < MaxFaults /\ faults' = faults + 1
NoFault == UNCHANGED faults

(* A step of member m alone. *)
Member(m, new) == g' = [g EXCEPT ![m] = new]
Local(m, new) == Member(m, new) /\ UNCHANGED <<inbox, group, committed, seen>>

(* Consume returns and unlocks. *)
Returned(k) == [k EXCEPT !.call = "idle", !.lock = None]

-----------------------------------------------------------------------------
(* The coordinator *)

Answer(kind) == [kind |-> kind, gen |-> group.gen, leads |-> FALSE, claims |-> {}]

(* Members that wait for a sync learn of a new round. *)
Interrupted(ms) == [m \in Members |-> IF m \in ms THEN Answer("again") ELSE inbox[m]]

Rejoin(gr) ==
  IF gr.phase = "join" THEN gr ELSE [gr EXCEPT !.phase = "join", !.joined = {}, !.waiting = {}]

CompleteJoin ==
  /\ group.phase = "join" /\ group.known # {} /\ group.joined = group.known
  /\ \E l \in group.known :
       /\ group' = [group EXCEPT !.gen = @ + 1, !.phase = "sync", !.leader = l, !.waiting = {}]
       /\ inbox' = [m \in Members |->
            IF m \in group.joined
            THEN [kind |-> "ok", gen |-> group.gen + 1, leads |-> m = l, claims |-> {}] ELSE inbox[m]]
  /\ UNCHANGED <<g, committed, seen, faults>>

(* A member that does not send heartbeats is removed, in the end. *)
Gone(m) == g[m].call = "idle" /\ (g[m].ctx \/ g[m].close = "done")
Expire(m) ==
  /\ m \in group.known /\ g[m].hb # "beat"
  /\ (g[m].hb = "dead" /\ Fault("expire")) \/ (Gone(m) /\ NoFault)
  /\ group' = [Rejoin(group) EXCEPT !.known = @ \ {m}, !.joined = @ \ {m}]
  /\ inbox' = Interrupted(group.waiting)
  /\ UNCHANGED <<g, committed, seen>>

Accepts(m, gen) == m \in group.known /\ gen = group.gen

-----------------------------------------------------------------------------
(* Consume: joining *)

Consume(m) ==
  /\ g[m].call = "idle" /\ ~g[m].closed /\ ~g[m].ctx
  /\ Local(m, [g[m] EXCEPT !.call = "lock"]) /\ NoFault

LockConsume(m) ==
  /\ g[m].call = "lock" /\ g[m].lock = None
  /\ \/ Local(m, [g[m] EXCEPT !.lock = "consume", !.call = "session", !.retries = MaxRetries]) /\ NoFault
     \/ Local(m, [g[m] EXCEPT !.call = "idle"]) /\ Fault("metadata")

(* After a failure that may be retried. *)
Retry(k) == IF k.retries <= 0 THEN Returned(k) ELSE [k EXCEPT !.call = "backoff"]

(* retryNewSession: wait, look for the coordinator, try again. *)
RetryNewSession(m) ==
  LET k == g[m] IN
  /\ k.call = "backoff"
  /\ \/ (k.ctx \/ k.closed) /\ Local(m, Returned(k)) /\ NoFault
     \/ Local(m, [k EXCEPT !.call = "session", !.retries = @ - 1]) /\ NoFault
     \/ /\ Fault("coordinator")
        /\ Local(m, IF k.retries <= 0 THEN Returned(k) ELSE [k EXCEPT !.retries = @ - 1])

(* newSession up to the request: the coordinator takes the member in, or   *)
(* tells it its ID first, or does not know the ID it has.                  *)
JoinGroup(m) ==
  LET k == g[m]
      sent == [k EXCEPT !.call = "join", !.hb = "off"]
  IN
  /\ k.call = "session" /\ ~k.ctx /\ k.close # "done"
  /\ \/ /\ k.id /\ m \notin group.known \cup group.pending
        /\ Member(m, sent) /\ inbox' = [inbox EXCEPT ![m] = Answer("unknown")]
        /\ UNCHANGED group
     \/ /\ ~k.id /\ RequireId
        /\ Member(m, sent) /\ inbox' = [inbox EXCEPT ![m] = Answer("required")]
        /\ group' = [group EXCEPT !.pending = @ \cup {m}]
     \/ /\ IF k.id THEN m \in group.known \cup group.pending ELSE ~RequireId
        /\ Member(m, sent) /\ inbox' = Interrupted(group.waiting)
        /\ group' = [Rejoin(group) EXCEPT !.known = @ \cup {m}, !.pending = @ \ {m},
                                            !.joined = @ \cup {m}]
  /\ UNCHANGED <<committed, seen>> /\ NoFault

CannotJoin(m) ==
  LET k == g[m] IN
  /\ k.call = "session"
  /\ \/ (k.ctx \/ k.close = "done") /\ Local(m, Returned(k)) /\ NoFault
     \/ Fault("coordinator") /\ Local(m, Retry(k))

(* Faulty variant: an ID the coordinator does not know is kept. *)
AnsweredKeepId(k, a) ==
  CASE a.kind = "unknown" -> [k EXCEPT !.call = "session"]
    [] a.kind = "required" -> [k EXCEPT !.id = TRUE, !.call = "backoff", !.retries = @ + 1]
    [] a.kind = "again" -> Retry(k)

(* What both join and sync do with an answer that is not the one hoped for. *)
Answered(k, a) ==
  CASE a.kind = "unknown" -> [k EXCEPT !.id = FALSE, !.call = "session"]
    [] a.kind = "required" -> [k EXCEPT !.id = TRUE, !.call = "backoff", !.retries = @ + 1]
    [] a.kind = "again" -> Retry(k)

Take(m, new) ==
  Member(m, new) /\ inbox' = [inbox EXCEPT ![m] = NoAnswer] /\ UNCHANGED <<group, committed, seen>>

JoinAnswered(m) ==
  LET k == g[m]
      a == inbox[m]
  IN
  /\ k.call = "join" /\ a # NoAnswer
  /\ \/ /\ a.kind = "ok"
        /\ Take(m, [k EXCEPT !.id = TRUE, !.gen = a.gen, !.leads = a.leads, !.call = "sync"]) /\ NoFault
     \/ a.kind # "ok" /\ Take(m, Answered(k, a)) /\ NoFault
     \/ Fault("join") /\ Take(m, Retry(k))
     \/ (Fault("fatal") \/ Fault("net")) /\ Take(m, Returned(k))

(* balance and syncGroupRequest: the leader sends any plan its strategy    *)
(* may come up with, which completes the round.                            *)
SyncGroup(m) ==
  LET k == g[m]
      sent == [k EXCEPT !.call = "syncing"]
      share(plan, n) == [Answer("ok") EXCEPT !.claims = {p \in Partitions : plan[p] = n}]
  IN
  /\ k.call = "sync" /\ k.close # "done" /\ Member(m, sent)
  /\ \/ /\ ~Accepts(m, k.gen) /\ inbox' = [inbox EXCEPT ![m] = Answer("unknown")] /\ UNCHANGED group
     \/ /\ Accepts(m, k.gen) /\ group.phase = "join"
        /\ inbox' = [inbox EXCEPT ![m] = Answer("again")] /\ UNCHANGED group
     \/ /\ Accepts(m, k.gen) /\ group.phase = "stable"
        /\ inbox' = [inbox EXCEPT ![m] = share(group.plan, m)] /\ UNCHANGED group
     \/ /\ Accepts(m, k.gen) /\ group.phase = "sync" /\ ~k.leads
        /\ group' = [group EXCEPT !.waiting = @ \cup {m}] /\ UNCHANGED inbox
     \/ /\ Accepts(m, k.gen) /\ group.phase = "sync" /\ k.leads
        /\ \E plan \in [Partitions -> group.joined] :
             /\ group' = [group EXCEPT !.phase = "stable", !.plan = plan, !.waiting = {}]
             /\ inbox' = [n \in Members |-> IF n = m \/ n \in group.waiting THEN share(plan, n) ELSE inbox[n]]
  /\ UNCHANGED <<committed, seen>> /\ NoFault

(* balance fails, or the client is closed. *)
CannotSync(m) ==
  /\ g[m].call = "sync"
  /\ Fault("metadata") \/ (g[m].close = "done" /\ NoFault)
  /\ Local(m, Returned(g[m]))

SyncAnswered(m) ==
  LET k == g[m]
      a == inbox[m]
      begun == [k EXCEPT !.call = "start", !.hb = "beat", !.beats = MaxRetries, !.dying = FALSE,
                         !.cancelled = k.ctx,
                         !.claim = [p \in Partitions |-> IF p \in a.claims THEN "claimed" ELSE None]]
  IN
  /\ k.call = "syncing" /\ a # NoAnswer
  /\ \/ a.kind = "ok" /\ Take(m, begun) /\ NoFault
     \/ a.kind # "ok" /\ Take(m, Answered(k, a)) /\ NoFault
     \/ Fault("sync") /\ Take(m, Retry(k))
     \/ (Fault("fatal") \/ Fault("net")) /\ Take(m, Returned(k))

-----------------------------------------------------------------------------
(* The session *)

Cancel(k) == [k EXCEPT !.cancelled = TRUE]
Claims(k) == {p \in Partitions : k.claim[p] # None}

(* release, up to the wait for the claims. *)
Release(k, withCleanup) == [Cancel(k) EXCEPT !.call = "wait", !.cleanup = withCleanup]

(* newConsumerGroupSession: offsets are fetched, Setup runs, claims start. *)
NewSession(m) ==
  LET k == [g[m] EXCEPT !.pos = [p \in Partitions |-> IF p \in Claims(g[m]) THEN committed[p] ELSE 0]]
      none == [k EXCEPT !.claim = [p \in Partitions |-> IF p \in Claims(k) THEN "done" ELSE None]]
  IN
  /\ k.call = "start"
  /\ \/ /\ NoFault
        /\ Local(m, [k EXCEPT !.call = "run",
                       !.claim = [p \in Partitions |-> IF p \in Claims(k) THEN "start" ELSE None]])
     \/ Fault("pom") /\ Local(m, Release(none, FALSE))
     \/ Fault("setup") /\ Local(m, Release(none, TRUE))

(* consume: the end of a claim ends the session. *)
EndClaim(m, p) == Local(m, [Cancel(g[m]) EXCEPT !.claim[p] = "done"])

StartClaim(m, p) ==
  /\ g[m].claim[p] = "start"
  /\ \/ (g[m].cancelled \/ g[m].closed) /\ EndClaim(m, p) /\ NoFault
     \/ Fault("claim") /\ EndClaim(m, p)
     \/ /\ ~g[m].cancelled /\ ~g[m].closed /\ NoFault
        /\ Local(m, [g[m] EXCEPT !.claim[p] = "consume"])

(* ConsumeClaim processes and marks a message. *)
Process(m, p) ==
  /\ g[m].claim[p] = "consume" /\ g[m].pos[p] < LogEnd
  /\ Member(m, [g[m] EXCEPT !.pos[p] = @ + 1])
  /\ seen' = [seen EXCEPT ![p] = IF g[m].pos[p] + 1 > @ THEN g[m].pos[p] + 1 ELSE @]
  /\ UNCHANGED <<inbox, group, committed, faults>>

(* ConsumeClaim returns, when its messages are closed or before. *)
HandlerReturns(m, p) ==
  /\ g[m].claim[p] = "consume" /\ EndClaim(m, p)
  /\ ((g[m].cancelled \/ g[m].closed) /\ NoFault) \/ Fault("exit")

(* Consume has waited for the session or for Close. *)
SessionEnds(m) ==
  /\ g[m].call = "run" /\ (g[m].cancelled \/ g[m].closed)
  /\ Local(m, Release(g[m], TRUE)) /\ NoFault

ClaimsEnded(m) ==
  /\ g[m].call = "wait" /\ \A p \in Claims(g[m]) : g[m].claim[p] = "done"
  /\ Local(m, [g[m] EXCEPT !.call = IF g[m].cleanup THEN "cleanup" ELSE "commit"]) /\ NoFault


Cleanup(m) ==
  /\ g[m].call = "cleanup"
  /\ Local(m, [g[m] EXCEPT !.call = "commit"]) /\ NoFault

(* The offset manager commits what is marked, if the group still counts    *)
(* the member in; if not the session is cancelled.                         *)
CommitOffsets(m) ==
  committed' = [p \in Partitions |-> IF p \in Claims(g[m]) /\ Accepts(m, g[m].gen) THEN g[m].pos[p] ELSE committed[p]]

SessionAutoCommit(m) ==
  /\ g[m].call \in {"run", "wait", "cleanup"} /\ g[m].close # "done"
  /\ \E p \in Claims(g[m]) : committed[p] # g[m].pos[p]
  /\ CommitOffsets(m)
  /\ Member(m, IF Accepts(m, g[m].gen) THEN g[m] ELSE Cancel(g[m]))
  /\ UNCHANGED <<inbox, group, seen, faults>>

(* The offset manager is closed, then the heartbeat loop is told to stop. *)
CloseOffsets(m) ==
  /\ g[m].call = "commit"
  /\ \/ CommitOffsets(m) /\ g[m].close # "done" /\ NoFault
     \/ UNCHANGED committed /\ g[m].close = "done" /\ NoFault
     \/ UNCHANGED committed /\ Fault("commit")
  /\ Member(m, [g[m] EXCEPT !.call = "stop", !.dying = TRUE])
  /\ UNCHANGED <<inbox, group, seen>>

Released(m) ==
  /\ g[m].call = "stop" /\ g[m].hb = "dead"
  /\ Local(m, [Returned(g[m]) EXCEPT !.claim = [p \in Partitions |-> None], !.pos = [p \in Partitions |-> 0]])
  /\ NoFault

-----------------------------------------------------------------------------
(* The heartbeat loop, and the leader's look at partition numbers *)

HeartbeatsEnd(k) == [Cancel(k) EXCEPT !.hb = "dead"]

Heartbeat(m) ==
  LET k == g[m] IN
  /\ k.hb = "beat" /\ k.close # "done"
  /\ \/ Accepts(m, k.gen) /\ group.phase # "join" /\ Local(m, [k EXCEPT !.beats = MaxRetries])
     \/ Accepts(m, k.gen) /\ group.phase = "join" /\ Local(m, [Cancel(k) EXCEPT !.beats = MaxRetries])
     \/ ~Accepts(m, k.gen) /\ Local(m, HeartbeatsEnd(k))
  /\ NoFault

(* No coordinator, no answer, or an error that cannot be retried. *)
HeartbeatFails(m) ==
  LET k == g[m] IN
  /\ k.hb = "beat"
  /\ \/ /\ Fault("heartbeat") \/ (k.close = "done" /\ NoFault)
        /\ Local(m, IF k.beats <= 0 THEN HeartbeatsEnd(k) ELSE [k EXCEPT !.beats = @ - 1])
     \/ Fault("fatal") /\ Local(m, HeartbeatsEnd(k))

HeartbeatStops(m) ==
  /\ g[m].hb = "beat" /\ g[m].dying
  /\ Local(m, HeartbeatsEnd(g[m])) /\ NoFault

(* loopCheckPartitionNumbers *)
PartitionsChange(m) ==
  /\ g[m].call = "run" /\ g[m].leads /\ Fault("partitions")
  /\ Local(m, Cancel(g[m]))

(* The application cancels the context it gave to Consume. *)
CancelContext(m) ==
  /\ ~g[m].ctx /\ Fault("cancel")
  /\ Local(m, [Cancel(g[m]) EXCEPT !.ctx = TRUE])

-----------------------------------------------------------------------------
(* Close, and errors reported meanwhile *)

Close(m) ==
  /\ m \in Closers /\ ~g[m].closed
  /\ Local(m, [g[m] EXCEPT !.closed = TRUE, !.close = "leave"]) /\ NoFault

(* Faulty variant: leave does not take the lock. *)
LeaveUnlocked(m) ==
  LET k == [g[m] EXCEPT !.close = "errors"] IN
  /\ g[m].close = "leave"
  /\ \/ /\ k.id /\ m \in group.known /\ NoFault
        /\ Member(m, [k EXCEPT !.id = FALSE])
        /\ group' = [Rejoin(group) EXCEPT !.known = @ \ {m}, !.joined = @ \ {m}]
        /\ inbox' = Interrupted(group.waiting) /\ UNCHANGED <<committed, seen>>
     \/ k.id /\ m \notin group.known /\ Local(m, [k EXCEPT !.id = FALSE]) /\ NoFault
     \/ k.id /\ Fault("leave") /\ Local(m, k)
     \/ ~k.id /\ Local(m, k) /\ NoFault

Leave(m) ==
  LET k == [g[m] EXCEPT !.close = "errors"] IN
  /\ g[m].close = "leave" /\ g[m].lock = None
  /\ \/ /\ k.id /\ m \in group.known /\ NoFault
        /\ Member(m, [k EXCEPT !.id = FALSE])
        /\ group' = [Rejoin(group) EXCEPT !.known = @ \ {m}, !.joined = @ \ {m}]
        /\ inbox' = Interrupted(group.waiting) /\ UNCHANGED <<committed, seen>>
     \/ k.id /\ m \notin group.known /\ Local(m, [k EXCEPT !.id = FALSE]) /\ NoFault
     \/ k.id /\ Fault("leave") /\ Local(m, k)
     \/ ~k.id /\ Local(m, k) /\ NoFault

(* The errors channel is closed under the write lock and drained. *)
CloseErrors(m) ==
  /\ g[m].close = "errors" /\ g[m].report # "send"
  /\ Local(m, [g[m] EXCEPT !.errs = FALSE, !.close = "client"]) /\ NoFault

(* The client is closed: requests that are waiting for an answer fail. *)
CloseClient(m) ==
  /\ g[m].close = "client"
  /\ Member(m, IF g[m].call \in {"join", "syncing"}
               THEN [Returned(g[m]) EXCEPT !.close = "done"] ELSE [g[m] EXCEPT !.close = "done"])
  /\ inbox' = [inbox EXCEPT ![m] = NoAnswer]
  /\ group' = [group EXCEPT !.waiting = @ \ {m}]
  /\ UNCHANGED <<committed, seen, faults>>

(* handleError: closed is looked at under the read lock. *)
HandleError(m) ==
  /\ "report" \in Faults /\ g[m].report = "idle" /\ ~g[m].closed
  /\ Local(m, [g[m] EXCEPT !.report = "send"]) /\ NoFault

ErrorSent(m) ==
  /\ g[m].report = "send"
  /\ Local(m, [g[m] EXCEPT !.report = "idle"]) /\ NoFault

-----------------------------------------------------------------------------
ConsumeStep(m) ==
  \/ LockConsume(m) \/ RetryNewSession(m) \/ JoinGroup(m) \/ CannotJoin(m) \/ JoinAnswered(m)
  \/ SyncGroup(m) \/ CannotSync(m) \/ SyncAnswered(m) \/ NewSession(m) \/ SessionEnds(m)
  \/ ClaimsEnded(m) \/ Cleanup(m) \/ CloseOffsets(m) \/ Released(m)

ClaimStep(m, p) == StartClaim(m, p) \/ Process(m, p) \/ HandlerReturns(m, p)

HeartbeatStep(m) == Heartbeat(m) \/ HeartbeatFails(m) \/ HeartbeatStops(m)

CloseStep(m) == Leave(m) \/ CloseErrors(m) \/ CloseClient(m)

Next ==
  \/ CompleteJoin
  \/ \E m \in Members :
       \/ Consume(m) \/ ConsumeStep(m) \/ SessionAutoCommit(m) \/ HeartbeatStep(m)
       \/ \E p \in Partitions : ClaimStep(m, p)
       \/ Close(m) \/ CloseStep(m) \/ HandleError(m) \/ ErrorSent(m)
       \/ Expire(m) \/ PartitionsChange(m) \/ CancelContext(m)

Spec == Init /\ [][Next]_vars

-----------------------------------------------------------------------------
MemberOK(k) ==
  /\ k.call \in {"idle", "lock", "session", "backoff", "join", "sync", "syncing", "start", "run",
                 "wait", "cleanup", "commit", "stop"}
  /\ k.lock \in {None, "consume"} /\ (k.call \in {"idle", "lock"}) = (k.lock = None)
  /\ k.retries \in -1..(MaxRetries + 1) /\ k.beats \in 0..MaxRetries /\ k.gen \in Nat
  /\ k.hb \in {"off", "beat", "dead"} /\ k.report \in {"idle", "checked", "send"}
  /\ k.close \in {"no", "leave", "errors", "client", "done"}
  /\ k.claim \in [Partitions -> {None, "claimed", "start", "consume", "done"}]
  /\ k.pos \in [Partitions -> 0..LogEnd]
  /\ {k.id, k.leads, k.cancelled, k.ctx, k.dying, k.cleanup, k.closed, k.errs} \subseteq BOOLEAN

TypeOK ==
  /\ DOMAIN g = Members /\ \A m \in Members : MemberOK(g[m])
  /\ group.phase \in {"stable", "join", "sync"} /\ group.gen \in Nat
  /\ group.joined \subseteq group.known /\ group.known \subseteq Members
  /\ committed \in [Partitions -> 0..LogEnd] /\ seen \in [Partitions -> 0..LogEnd]

(* Two members never process the same partition at once: a member joins a  *)
(* new round, and leaves, only after its handlers have returned, and sends *)
(* heartbeats until then.                                                  *)
ExclusiveClaims ==
  \A p \in Partitions : \A m, n \in Members :
    g[m].claim[p] = "consume" /\ g[n].claim[p] = "consume" => m = n

(* A claim starts where the partition was left, whoever had it: everything *)
(* marked before a session was released has been committed.                *)
ResumesAtMark ==
  \A m \in Members, p \in Partitions : g[m].claim[p] = "consume" => g[m].pos[p] = seen[p]

(* Handlers run between Setup and Cleanup, and never in a session that     *)
(* sends no heartbeats and has not been cancelled.                         *)
HandlersInSession ==
  \A m \in Members : \A p \in Partitions :
    g[m].claim[p] = "consume" =>
      g[m].call \in {"run", "wait"} /\ (g[m].hb = "beat" \/ g[m].cancelled)

(* A partition is processed by one member at a time, between Setup and     *)
(* Cleanup of a session that sends heartbeats or has been cancelled.       *)
ClaimsExclusive == TypeOK /\ ExclusiveClaims /\ HandlersInSession

(* No goroutine sends on the errors channel after Close has closed it.     *)
NoSendOnClosedErrors == \A m \in Members : g[m].report = "send" => g[m].errs
=============================================================================
