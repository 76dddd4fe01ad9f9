------------------------- MODULE ConsumerGroupProofs -------------------------
(***************************************************************************)
(* Proofs about ConsumerGroup, for any members, partitions, log length,    *)
(* retry limits and faults, under one assumption (KeepsBeating): either    *)
(* the coordinator removes no member that is in a session, or heartbeats   *)
(* do not fail. The inductive invariant comes in layers:                   *)
(*   TypeInv   types;                                                      *)
(*   Life      one member: its call, its claims, its heartbeats, its Close;*)
(*   Place     a member, the answer on its way to it and the coordinator;  *)
(*   MarkInv   positions, committed offsets and what has been processed.   *)
(***************************************************************************)
EXTENDS ConsumerGroup, TLAPS

(* Most leaves are first-order; those that need records or arithmetic cite SMT. *)
USE ZenonT(30)

(* A member whose heartbeats have failed while its handlers still run may  *)
(* lose its partitions to another one; Kafka promises no more.             *)
KeepsBeating == "expire" \notin Faults \/ {"heartbeat", "fatal"} \cap Faults = {}

CallStates == {"idle", "lock", "session", "backoff", "join", "sync", "syncing", "start", "run",
               "wait", "cleanup", "commit", "stop"}
Outside == {"idle", "lock", "session", "backoff"}
Session == {"start", "run", "wait", "cleanup", "commit", "stop"}
Marking == {"run", "wait", "cleanup", "commit"}

MemberType ==
  [call : CallStates, lock : {None, "consume"}, retries : -1..(MaxRetries + 1), id : BOOLEAN, gen : Nat,
   leads : BOOLEAN, cancelled : BOOLEAN, ctx : BOOLEAN, hb : {"off", "beat", "dead"}, dying : BOOLEAN,
   beats : 0..MaxRetries, claim : [Partitions -> {None, "claimed", "start", "consume", "done"}],
   pos : [Partitions -> 0..LogEnd], cleanup : BOOLEAN, closed : BOOLEAN,
   close : {"no", "leave", "errors", "client", "done"}, report : {"idle", "send"}, errs : BOOLEAN]

AnswerType ==
  [kind : {None, "ok", "unknown", "required", "again"}, gen : Nat, leads : BOOLEAN, claims : SUBSET Partitions]

GroupType ==
  [gen : Nat, phase : {"stable", "join", "sync"}, known : SUBSET Members, pending : SUBSET Members,
   joined : SUBSET Members, leader : Members \cup {None}, waiting : SUBSET Members,
   plan : [Partitions -> Members \cup {None}]]

TypeInv ==
  /\ g \in [Members -> MemberType] /\ inbox \in [Members -> AnswerType] /\ group \in GroupType
  /\ committed \in [Partitions -> 0..LogEnd] /\ seen \in [Partitions -> 0..LogEnd]

(* A member by itself. *)
Life(k) ==
  /\ (k.call \in {"idle", "lock"}) <=> (k.lock = None)
  /\ k.call \notin {"idle", "lock", "backoff"} => k.retries <= MaxRetries
  /\ k.call = "backoff" => k.retries >= 0
  /\ k.call \in {"join", "sync", "syncing"} => k.hb = "off"
  /\ k.hb = "beat" => k.call \in Session
  /\ k.call \in Session => k.hb = "beat" \/ (k.hb = "dead" /\ k.cancelled)
  /\ k.call \in Session \ {"stop"} => ~k.dying
  /\ k.closed <=> k.close # "no"
  /\ k.errs <=> k.close \in {"no", "leave", "errors"}
  /\ k.report = "send" => k.errs
  /\ k.close = "done" => k.call \notin {"join", "syncing"}
  /\ \A p \in Partitions :
       /\ k.claim[p] # None => k.call \in Session
       /\ k.claim[p] = "claimed" => k.call = "start"
       /\ k.claim[p] \in {"start", "consume"} => k.call \in {"run", "wait"}
       /\ k.claim[p] = "consume" => k.close \in {"no", "leave"}
       /\ k.call = "start" => k.claim[p] \in {None, "claimed"}

Member1(k) == k \in MemberType /\ Life(k)

-----------------------------------------------------------------------------
(* Heartbeats keep the member in the group. *)
Counted(k) == k.hb # "dead" \/ "expire" \notin Faults

(* The coordinator counts m to generation gen and, in a new round, waits   *)
(* for it.                                                                 *)
Current(gr, m, gen) == m \in gr.known /\ gen = gr.gen /\ (gr.phase = "join" => m \notin gr.joined)

(* Member k of name m, with answer a on its way, and the coordinator. *)
Place(gr, m, k, a) ==
  /\ a = NoAnswer <=> a.kind = None
  /\ k.call \notin {"join", "syncing"} /\ k.close # "done" => a = NoAnswer
  /\ m \in gr.waiting => k.call = "syncing" /\ a = NoAnswer /\ gr.phase = "sync"
  /\ k.call = "join" /\ a = NoAnswer => m \in gr.joined /\ gr.phase = "join"
  /\ gr.phase = "join" /\ m \in gr.joined /\ k.close # "done" => k.call = "join" /\ a = NoAnswer
  /\ k.call = "join" /\ a.kind = "ok" => Current(gr, m, a.gen)
  /\ k.call \in {"sync", "syncing"} => Current(gr, m, k.gen)
  /\ k.call = "syncing" /\ a.kind = "ok" => gr.phase # "sync" /\ \A p \in a.claims : gr.plan[p] = m
  /\ k.call \in Session /\ Counted(k) =>
       /\ Current(gr, m, k.gen) /\ gr.phase # "sync"
       /\ \A p \in Partitions : k.claim[p] # None => gr.plan[p] = m
  /\ KeepsBeating /\ k.call \in Session \ {"stop"} /\ k.close # "done" => Counted(k)

LifeInv == \A m \in Members : Life(g[m])

GroupInv ==
  /\ group.joined \subseteq group.known
  /\ \A m \in Members : Place(group, m, g[m], inbox[m])

(* A position lies where the partition has been processed up to, and so do *)
(* the committed offsets unless a member has yet to commit.                *)
Holds(k, p) == k.call \in Marking /\ Counted(k) /\ k.claim[p] # None

MarkInv ==
  /\ \A m \in Members, p \in Partitions : Holds(g[m], p) => g[m].pos[p] = seen[p]
  /\ \A p \in Partitions :
       committed[p] = seen[p] \/ \E m \in Members : Holds(g[m], p) /\ g[m].close \in {"no", "leave"}

(* The answers that take a member on. *)
JoinedBy(k, a) == [k EXCEPT !.id = TRUE, !.gen = a.gen, !.leads = a.leads, !.call = "sync"]

BegunBy(k, a) ==
  [k EXCEPT !.call = "start", !.hb = "beat", !.beats = MaxRetries, !.dying = FALSE, !.cancelled = k.ctx,
            !.claim = [p \in Partitions |-> IF p \in a.claims THEN "claimed" ELSE None]]

(* A message is marked. *)
MarkedAt(k, p) == [k EXCEPT !.pos[p] = @ + 1]

(* What a step of a member by itself may do, as seen from the coordinator: *)
(* k becomes n.                                                            *)
LocalMove(k, n) ==
  /\ n.gen = k.gen /\ (n.close = "done" <=> k.close = "done")
  /\ \/ n.call \in Outside /\ k.call \notin {"join", "syncing"}
     \/ n.call = k.call
     \/ n.call \in Session /\ k.call \in Session \ {"stop"}
  /\ \A p \in Partitions : n.claim[p] # None => k.claim[p] # None
  /\ \/ n.hb = k.hb
     \/ n.hb = "dead" /\ (KeepsBeating /\ n.call \in Session \ {"stop"} /\ n.close # "done" => "expire" \notin Faults)

(* It marks nothing, and what it has to commit stays with it. *)
MarkMove(k, n) ==
  KeepsBeating => \A p \in Partitions :
    /\ Holds(n, p) => Holds(k, p) /\ n.pos[p] = k.pos[p]
    /\ Holds(k, p) /\ k.close \in {"no", "leave"} => Holds(n, p) /\ n.close \in {"no", "leave"}

-----------------------------------------------------------------------------
(* Types and one member. *)

LEMMA NewMemberOK == Member1(NewMember)
  BY SMT, GroupConstants DEF Member1, MemberType, Life, NewMember, CallStates, Session, None

LEMMA InitOK == Init => TypeInv /\ LifeInv /\ GroupInv /\ MarkInv
<1> SUFFICES ASSUME Init PROVE TypeInv /\ LifeInv /\ GroupInv /\ MarkInv OBVIOUS
<1>1. \A m \in Members : g[m] = NewMember /\ inbox[m] = NoAnswer
  BY DEF Init
<1>2. g \in [Members -> MemberType] /\ LifeInv
  BY NewMemberOK DEF Init, LifeInv, Member1
<1>3. inbox \in [Members -> AnswerType]
  BY DEF Init, AnswerType, NoAnswer
<1>4. group \in GroupType /\ group.joined = {} /\ group.known = {} /\ group.waiting = {} /\ group.phase = "stable"
  BY DEF Init, GroupType
<1>5. committed \in [Partitions -> 0..LogEnd] /\ seen \in [Partitions -> 0..LogEnd]
  BY SMT, GroupConstants DEF Init
<1>6. GroupInv
  BY SMT, <1>1, <1>4 DEF GroupInv, Place, Counted, NewMember, NoAnswer, Session, None
<1>7. MarkInv
  BY <1>1 DEF Init, MarkInv, Holds, NewMember, Marking
<1> QED BY <1>2, <1>3, <1>4, <1>5, <1>6, <1>7 DEF TypeInv

(* A step of one member changes that member only. *)
LEMMA OneMember ==
  ASSUME g \in [Members -> MemberType], NEW m \in Members, NEW new, Member(m, new)
  PROVE  g'[m] = new /\ \A n \in Members : n # m => g'[n] = g[n]
  BY DEF Member

LEMMA MembersKept ==
  ASSUME TypeInv, LifeInv, NEW m \in Members, NEW new, Member(m, new), Member1(new)
  PROVE  g' \in [Members -> MemberType] /\ LifeInv'
  BY DEF TypeInv, Member, LifeInv, Member1

-----------------------------------------------------------------------------
(* The steps of one member. *)

LEMMA Limits ==
  /\ MaxRetries \in -1..(MaxRetries + 1) /\ MaxRetries \in 0..MaxRetries /\ 0 \in 0..LogEnd
  /\ MaxRetries <= MaxRetries
  BY SMT, GroupConstants

(* Consume is called. *)
LEMMA CallUpdate ==
  ASSUME NEW k, Member1(k),
         k.call = "idle",
         NEW new, new = [k EXCEPT !.call = "lock"]
  PROVE  Member1(new) /\ LocalMove(k, new) /\ MarkMove(k, new)
<1>0. k \in MemberType /\ Life(k)
  BY DEF Member1
<1>1. /\ new.call = "lock"
      /\ new.lock = k.lock /\ new.retries = k.retries /\ new.hb = k.hb
      /\ new.cancelled = k.cancelled /\ new.dying = k.dying /\ new.closed = k.closed
      /\ new.close = k.close /\ new.errs = k.errs /\ new.report = k.report
      /\ new.claim = k.claim /\ new.gen = k.gen /\ new.pos = k.pos
  BY <1>0 DEF MemberType
<1>2. new \in MemberType
  BY <1>0 DEF MemberType, CallStates
<1>3. Life(new)
  BY <1>0, <1>1 DEF Life, Session, None
<1>4. LocalMove(k, new)
  BY <1>0, <1>1 DEF Life, LocalMove, Session, Outside, None
<1>5. MarkMove(k, new)
  BY <1>0, <1>1 DEF Life, MarkMove, Holds, Counted, Marking, Session, None
<1> QED BY <1>2, <1>3, <1>4, <1>5 DEF Member1

(* Consume takes the lock. *)
LEMMA LockUpdate ==
  ASSUME NEW k, Member1(k),
         k.call = "lock",
         NEW new, new = [k EXCEPT !.lock = "consume", !.call = "session", !.retries = MaxRetries]
  PROVE  Member1(new) /\ LocalMove(k, new) /\ MarkMove(k, new)
<1>0. k \in MemberType /\ Life(k)
  BY DEF Member1
<1>1. /\ new.call = "session"
      /\ new.lock = "consume"
      /\ new.retries = MaxRetries
      /\ new.hb = k.hb /\ new.cancelled = k.cancelled /\ new.dying = k.dying
      /\ new.closed = k.closed /\ new.close = k.close /\ new.errs = k.errs
      /\ new.report = k.report /\ new.claim = k.claim /\ new.gen = k.gen /\ new.pos = k.pos
  BY <1>0 DEF MemberType
<1>2. new \in MemberType
  BY <1>0, Limits DEF MemberType, CallStates
<1>3. Life(new)
  BY <1>0, <1>1, Limits DEF Life, Session, None
<1>4. LocalMove(k, new)
  BY <1>0, <1>1 DEF Life, LocalMove, Session, Outside, None
<1>5. MarkMove(k, new)
  BY <1>0, <1>1 DEF Life, MarkMove, Holds, Counted, Marking, Session, None
<1> QED BY <1>2, <1>3, <1>4, <1>5 DEF Member1

(* Consume gives up before it has a session. *)
LEMMA LockFailsUpdate ==
  ASSUME NEW k, Member1(k),
         k.call = "lock",
         NEW new, new = [k EXCEPT !.call = "idle"]
  PROVE  Member1(new) /\ LocalMove(k, new) /\ MarkMove(k, new)
<1>0. k \in MemberType /\ Life(k)
  BY DEF Member1
<1>1. /\ new.call = "idle"
      /\ new.lock = k.lock /\ new.retries = k.retries /\ new.hb = k.hb
      /\ new.cancelled = k.cancelled /\ new.dying = k.dying /\ new.closed = k.closed
      /\ new.close = k.close /\ new.errs = k.errs /\ new.report = k.report
      /\ new.claim = k.claim /\ new.gen = k.gen /\ new.pos = k.pos
  BY <1>0 DEF MemberType
<1>2. new \in MemberType
  BY <1>0 DEF MemberType, CallStates
<1>3. Life(new)
  BY <1>0, <1>1 DEF Life, Session, None
<1>4. LocalMove(k, new)
  BY <1>0, <1>1 DEF Life, LocalMove, Session, Outside, None
<1>5. MarkMove(k, new)
  BY <1>0, <1>1 DEF Life, MarkMove, Holds, Counted, Marking, Session, None
<1> QED BY <1>2, <1>3, <1>4, <1>5 DEF Member1

(* Consume returns before it has a session. *)
LEMMA ReturnedUpdate ==
  ASSUME NEW k, Member1(k),
         k.call \in {"session", "backoff", "sync"},
         NEW new, new = Returned(k)
  PROVE  Member1(new) /\ LocalMove(k, new) /\ MarkMove(k, new)
<1>0. k \in MemberType /\ Life(k)
  BY DEF Member1
<1>1. /\ new.call = "idle"
      /\ new.lock = None
      /\ new.retries = k.retries /\ new.hb = k.hb /\ new.cancelled = k.cancelled
      /\ new.dying = k.dying /\ new.closed = k.closed /\ new.close = k.close
      /\ new.errs = k.errs /\ new.report = k.report /\ new.claim = k.claim
      /\ new.gen = k.gen /\ new.pos = k.pos
  BY <1>0 DEF MemberType, Returned
<1>2. new \in MemberType
  BY <1>0 DEF MemberType, CallStates, Returned
<1>3. Life(new)
  BY <1>0, <1>1 DEF Life, Session, None
<1>4. LocalMove(k, new)
  BY <1>0, <1>1 DEF Life, LocalMove, Session, Outside, None
<1>5. MarkMove(k, new)
  BY <1>0, <1>1 DEF Life, MarkMove, Holds, Counted, Marking, Session, None
<1> QED BY <1>2, <1>3, <1>4, <1>5 DEF Member1

(* A failure that is retried. *)
LEMMA BackoffUpdate ==
  ASSUME NEW k, Member1(k),
         k.call = "session", k.retries > 0,
         NEW new, new = [k EXCEPT !.call = "backoff"]
  PROVE  Member1(new) /\ LocalMove(k, new) /\ MarkMove(k, new)
<1>0. k \in MemberType /\ Life(k)
  BY DEF Member1
<1>1. /\ new.call = "backoff"
      /\ new.lock = k.lock /\ new.retries = k.retries /\ new.hb = k.hb
      /\ new.cancelled = k.cancelled /\ new.dying = k.dying /\ new.closed = k.closed
      /\ new.close = k.close /\ new.errs = k.errs /\ new.report = k.report
      /\ new.claim = k.claim /\ new.gen = k.gen /\ new.pos = k.pos
  BY <1>0 DEF MemberType
<1>n. k.retries >= 0
  BY SMT, <1>0, GroupConstants DEF MemberType, Life, Session
<1>2. new \in MemberType
  BY <1>0, <1>n DEF MemberType, CallStates
<1>3. Life(new)
  BY <1>0, <1>1, <1>n DEF Life, Session, None
<1>4. LocalMove(k, new)
  BY <1>0, <1>1 DEF Life, LocalMove, Session, Outside, None
<1>5. MarkMove(k, new)
  BY <1>0, <1>1 DEF Life, MarkMove, Holds, Counted, Marking, Session, None
<1> QED BY <1>2, <1>3, <1>4, <1>5 DEF Member1

(* Consume returns with an answer. *)
LEMMA RefusedUpdate ==
  ASSUME NEW k, Member1(k),
         k.call \in {"join", "syncing"},
         NEW new, new = Returned(k)
  PROVE  Member1(new) /\ MarkMove(k, new)
         /\ new.call \in Outside /\ new.close = k.close
<1>0. k \in MemberType /\ Life(k)
  BY DEF Member1
<1>1. /\ new.call = "idle"
      /\ new.lock = None
      /\ new.retries = k.retries /\ new.hb = k.hb /\ new.cancelled = k.cancelled
      /\ new.dying = k.dying /\ new.closed = k.closed /\ new.close = k.close
      /\ new.errs = k.errs /\ new.report = k.report /\ new.claim = k.claim
      /\ new.gen = k.gen /\ new.pos = k.pos
  BY <1>0 DEF MemberType, Returned
<1>2. new \in MemberType
  BY <1>0 DEF MemberType, CallStates, Returned
<1>3. Life(new)
  BY <1>0, <1>1 DEF Life, Session, None
<1>5. MarkMove(k, new)
  BY <1>0, <1>1 DEF Life, MarkMove, Holds, Counted, Marking, Session, None
<1>6. new.call \in Outside /\ new.close = k.close
  BY <1>0, <1>1 DEF Marking, Outside, None, MemberType
<1> QED BY <1>2, <1>3, <1>5, <1>6 DEF Member1

(* An answer after which the session is tried again. *)
LEMMA PostponedUpdate ==
  ASSUME NEW k, Member1(k),
         k.call \in {"join", "syncing"}, k.retries > 0,
         NEW new, new = [k EXCEPT !.call = "backoff"]
  PROVE  Member1(new) /\ MarkMove(k, new)
         /\ new.call \in Outside /\ new.close = k.close
<1>0. k \in MemberType /\ Life(k)
  BY DEF Member1
<1>1. /\ new.call = "backoff"
      /\ new.lock = k.lock /\ new.retries = k.retries /\ new.hb = k.hb
      /\ new.cancelled = k.cancelled /\ new.dying = k.dying /\ new.closed = k.closed
      /\ new.close = k.close /\ new.errs = k.errs /\ new.report = k.report
      /\ new.claim = k.claim /\ new.gen = k.gen /\ new.pos = k.pos
  BY <1>0 DEF MemberType
<1>n. k.retries >= 0
  BY SMT, <1>0, GroupConstants DEF MemberType, Life, Session
<1>2. new \in MemberType
  BY <1>0, <1>n DEF MemberType, CallStates
<1>3. Life(new)
  BY <1>0, <1>1, <1>n DEF Life, Session, None
<1>5. MarkMove(k, new)
  BY <1>0, <1>1 DEF Life, MarkMove, Holds, Counted, Marking, Session, None
<1>6. new.call \in Outside /\ new.close = k.close
  BY <1>0, <1>1 DEF Marking, Outside, None, MemberType
<1> QED BY <1>2, <1>3, <1>5, <1>6 DEF Member1

(* The session is tried again. *)
LEMMA AgainUpdate ==
  ASSUME NEW k, Member1(k),
         k.call = "backoff",
         NEW new, new = [k EXCEPT !.call = "session", !.retries = @ - 1]
  PROVE  Member1(new) /\ LocalMove(k, new) /\ MarkMove(k, new)
<1>0. k \in MemberType /\ Life(k)
  BY DEF Member1
<1>1. /\ new.call = "session"
      /\ new.retries = k.retries - 1
      /\ new.lock = k.lock /\ new.hb = k.hb /\ new.cancelled = k.cancelled
      /\ new.dying = k.dying /\ new.closed = k.closed /\ new.close = k.close
      /\ new.errs = k.errs /\ new.report = k.report /\ new.claim = k.claim
      /\ new.gen = k.gen /\ new.pos = k.pos
  BY <1>0 DEF MemberType
<1>n. k.retries - 1 \in -1..(MaxRetries + 1) /\ k.retries - 1 <= MaxRetries
  BY SMT, <1>0, GroupConstants DEF MemberType, Life, Session
<1>2. new \in MemberType
  BY <1>0, <1>n DEF MemberType, CallStates
<1>3. Life(new)
  BY <1>0, <1>1, <1>n DEF Life, Session, None
<1>4. LocalMove(k, new)
  BY <1>0, <1>1 DEF Life, LocalMove, Session, Outside, None
<1>5. MarkMove(k, new)
  BY <1>0, <1>1 DEF Life, MarkMove, Holds, Counted, Marking, Session, None
<1> QED BY <1>2, <1>3, <1>4, <1>5 DEF Member1

(* The coordinator is looked for again. *)
LEMMA BackoffAgainUpdate ==
  ASSUME NEW k, Member1(k),
         k.call = "backoff", k.retries > 0,
         NEW new, new = [k EXCEPT !.retries = @ - 1]
  PROVE  Member1(new) /\ LocalMove(k, new) /\ MarkMove(k, new)
<1>0. k \in MemberType /\ Life(k)
  BY DEF Member1
<1>1. /\ new.retries = k.retries - 1
      /\ new.call = k.call /\ new.lock = k.lock /\ new.hb = k.hb
      /\ new.cancelled = k.cancelled /\ new.dying = k.dying /\ new.closed = k.closed
      /\ new.close = k.close /\ new.errs = k.errs /\ new.report = k.report
      /\ new.claim = k.claim /\ new.gen = k.gen /\ new.pos = k.pos
  BY <1>0 DEF MemberType
<1>n. k.retries - 1 \in -1..(MaxRetries + 1) /\ k.retries - 1 >= 0
  BY SMT, <1>0, GroupConstants DEF MemberType, Life, Session
<1>2. new \in MemberType
  BY <1>0, <1>n DEF MemberType, CallStates
<1>3. Life(new)
  BY <1>0, <1>1, <1>n DEF Life, Session, None
<1>4. LocalMove(k, new)
  BY <1>0, <1>1 DEF Life, LocalMove, Session, Outside, None
<1>5. MarkMove(k, new)
  BY <1>0, <1>1 DEF Life, MarkMove, Holds, Counted, Marking, Session, None
<1> QED BY <1>2, <1>3, <1>4, <1>5 DEF Member1

(* JoinGroup is sent. *)
LEMMA JoinUpdate ==
  ASSUME NEW k, Member1(k),
         k.call = "session", k.close # "done",
         NEW new, new = [k EXCEPT !.call = "join", !.hb = "off"]
  PROVE  Member1(new) /\ MarkMove(k, new)
         /\ new.call = "join" /\ new.close = k.close
<1>0. k \in MemberType /\ Life(k)
  BY DEF Member1
<1>1. /\ new.call = "join"
      /\ new.hb = "off"
      /\ new.lock = k.lock /\ new.retries = k.retries /\ new.cancelled = k.cancelled
      /\ new.dying = k.dying /\ new.closed = k.closed /\ new.close = k.close
      /\ new.errs = k.errs /\ new.report = k.report /\ new.claim = k.claim
      /\ new.gen = k.gen /\ new.pos = k.pos
  BY <1>0 DEF MemberType
<1>2. new \in MemberType
  BY <1>0 DEF MemberType, CallStates
<1>3. Life(new)
  BY <1>0, <1>1 DEF Life, Session, None
<1>5. MarkMove(k, new)
  BY <1>0, <1>1 DEF Life, MarkMove, Holds, Counted, Marking, Session, None
<1>6. new.call = "join" /\ new.close = k.close
  BY <1>0, <1>1 DEF Marking, Outside, None, MemberType
<1> QED BY <1>2, <1>3, <1>5, <1>6 DEF Member1

(* The coordinator does not know the member ID. *)
LEMMA UnknownUpdate ==
  ASSUME NEW k, Member1(k),
         k.call \in {"join", "syncing"},
         NEW new, new = [k EXCEPT !.id = FALSE, !.call = "session"]
  PROVE  Member1(new) /\ MarkMove(k, new)
         /\ new.call \in Outside /\ new.close = k.close
<1>0. k \in MemberType /\ Life(k)
  BY DEF Member1
<1>1. /\ new.call = "session"
      /\ new.lock = k.lock /\ new.retries = k.retries /\ new.hb = k.hb
      /\ new.cancelled = k.cancelled /\ new.dying = k.dying /\ new.closed = k.closed
      /\ new.close = k.close /\ new.errs = k.errs /\ new.report = k.report
      /\ new.claim = k.claim /\ new.gen = k.gen /\ new.pos = k.pos
  BY <1>0 DEF MemberType
<1>2. new \in MemberType
  BY <1>0 DEF MemberType, CallStates
<1>3. Life(new)
  BY <1>0, <1>1 DEF Life, Session, None
<1>5. MarkMove(k, new)
  BY <1>0, <1>1 DEF Life, MarkMove, Holds, Counted, Marking, Session, None
<1>6. new.call \in Outside /\ new.close = k.close
  BY <1>0, <1>1 DEF Marking, Outside, None, MemberType
<1> QED BY <1>2, <1>3, <1>5, <1>6 DEF Member1

(* The coordinator has given a member ID. *)
LEMMA RequiredUpdate ==
  ASSUME NEW k, Member1(k),
         k.call \in {"join", "syncing"},
         NEW new, new = [k EXCEPT !.id = TRUE, !.call = "backoff", !.retries = @ + 1]
  PROVE  Member1(new) /\ MarkMove(k, new)
         /\ new.call \in Outside /\ new.close = k.close
<1>0. k \in MemberType /\ Life(k)
  BY DEF Member1
<1>1. /\ new.call = "backoff"
      /\ new.retries = k.retries + 1
      /\ new.lock = k.lock /\ new.hb = k.hb /\ new.cancelled = k.cancelled
      /\ new.dying = k.dying /\ new.closed = k.closed /\ new.close = k.close
      /\ new.errs = k.errs /\ new.report = k.report /\ new.claim = k.claim
      /\ new.gen = k.gen /\ new.pos = k.pos
  BY <1>0 DEF MemberType
<1>n. k.retries + 1 \in -1..(MaxRetries + 1) /\ k.retries + 1 >= 0
  BY SMT, <1>0, GroupConstants DEF MemberType, Life, Session
<1>2. new \in MemberType
  BY <1>0, <1>n DEF MemberType, CallStates
<1>3. Life(new)
  BY <1>0, <1>1, <1>n DEF Life, Session, None
<1>5. MarkMove(k, new)
  BY <1>0, <1>1 DEF Life, MarkMove, Holds, Counted, Marking, Session, None
<1>6. new.call \in Outside /\ new.close = k.close
  BY <1>0, <1>1 DEF Marking, Outside, None, MemberType
<1> QED BY <1>2, <1>3, <1>5, <1>6 DEF Member1

(* The member is in the new generation. *)
LEMMA JoinedUpdate ==
  ASSUME NEW k, Member1(k), NEW a \in AnswerType,
         k.call = "join",
         NEW new, new = JoinedBy(k, a)
  PROVE  Member1(new) /\ MarkMove(k, new)
         /\ new.call = "sync" /\ new.gen = a.gen /\ new.close = k.close
<1>0. k \in MemberType /\ Life(k)
  BY DEF Member1
<1>1. /\ new.call = "sync"
      /\ new.gen = a.gen
      /\ new.lock = k.lock /\ new.retries = k.retries /\ new.hb = k.hb
      /\ new.cancelled = k.cancelled /\ new.dying = k.dying /\ new.closed = k.closed
      /\ new.close = k.close /\ new.errs = k.errs /\ new.report = k.report
      /\ new.claim = k.claim /\ new.pos = k.pos
  BY <1>0 DEF MemberType, JoinedBy
<1>n. a.gen \in Nat /\ a.leads \in BOOLEAN
  BY <1>0, GroupConstants DEF MemberType, Life, Session, AnswerType
<1>2. new \in MemberType
  BY <1>0, <1>n DEF MemberType, CallStates, JoinedBy
<1>3. Life(new)
  BY <1>0, <1>1, <1>n DEF Life, Session, None
<1>5. MarkMove(k, new)
  BY <1>0, <1>1 DEF Life, MarkMove, Holds, Counted, Marking, Session, None
<1>6. new.call = "sync" /\ new.gen = a.gen /\ new.close = k.close
  BY <1>0, <1>1 DEF Marking, Outside, None, MemberType
<1> QED BY <1>2, <1>3, <1>5, <1>6 DEF Member1

(* SyncGroup is sent. *)
LEMMA SyncingUpdate ==
  ASSUME NEW k, Member1(k),
         k.call = "sync", k.close # "done",
         NEW new, new = [k EXCEPT !.call = "syncing"]
  PROVE  Member1(new) /\ MarkMove(k, new)
         /\ new.call = "syncing" /\ new.gen = k.gen /\ new.close = k.close
<1>0. k \in MemberType /\ Life(k)
  BY DEF Member1
<1>1. /\ new.call = "syncing"
      /\ new.lock = k.lock /\ new.retries = k.retries /\ new.hb = k.hb
      /\ new.cancelled = k.cancelled /\ new.dying = k.dying /\ new.closed = k.closed
      /\ new.close = k.close /\ new.errs = k.errs /\ new.report = k.report
      /\ new.claim = k.claim /\ new.gen = k.gen /\ new.pos = k.pos
  BY <1>0 DEF MemberType
<1>2. new \in MemberType
  BY <1>0 DEF MemberType, CallStates
<1>3. Life(new)
  BY <1>0, <1>1 DEF Life, Session, None
<1>5. MarkMove(k, new)
  BY <1>0, <1>1 DEF Life, MarkMove, Holds, Counted, Marking, Session, None
<1>6. new.call = "syncing" /\ new.gen = k.gen /\ new.close = k.close
  BY <1>0, <1>1 DEF Marking, Outside, None, MemberType
<1> QED BY <1>2, <1>3, <1>5, <1>6 DEF Member1

(* A session begins. *)
LEMMA BegunUpdate ==
  ASSUME NEW k, Member1(k), NEW a \in AnswerType,
         k.call = "syncing",
         NEW new, new = BegunBy(k, a)
  PROVE  Member1(new) /\ MarkMove(k, new)
         /\ new.call = "start" /\ new.hb = "beat" /\ new.gen = k.gen /\ new.close = k.close
         /\ \A p \in Partitions : new.claim[p] # None => p \in a.claims
<1>0. k \in MemberType /\ Life(k)
  BY DEF Member1
<1>1. /\ new.call = "start"
      /\ new.hb = "beat"
      /\ new.cancelled = k.ctx
      /\ new.dying = FALSE
      /\ new.claim = [p \in Partitions |-> IF p \in a.claims THEN "claimed" ELSE None]
      /\ new.lock = k.lock /\ new.retries = k.retries /\ new.closed = k.closed
      /\ new.close = k.close /\ new.errs = k.errs /\ new.report = k.report
      /\ new.gen = k.gen /\ new.pos = k.pos
  BY <1>0 DEF MemberType, BegunBy
<1>n. a.claims \in SUBSET Partitions
  BY <1>0, GroupConstants DEF MemberType, Life, Session, AnswerType
<1>2. new \in MemberType
  BY <1>0, <1>n, Limits DEF MemberType, CallStates, BegunBy
<1>3. Life(new)
  BY <1>0, <1>1, <1>n, Limits DEF Life, Session, None
<1>5. MarkMove(k, new)
  BY <1>0, <1>1 DEF Life, MarkMove, Holds, Counted, Marking, Session, None
<1>6. new.call = "start" /\ new.hb = "beat" /\ new.gen = k.gen /\ new.close = k.close
      /\ \A p \in Partitions : new.claim[p] # None => p \in a.claims
  BY <1>0, <1>1 DEF Marking, Outside, None, MemberType
<1> QED BY <1>2, <1>3, <1>5, <1>6 DEF Member1

(* The offsets are fetched. *)
LEMMA SetupUpdate ==
  ASSUME NEW k, Member1(k), NEW pos \in [Partitions -> 0..LogEnd],
         k.call = "start",
         NEW new, new = [k EXCEPT !.pos = pos]
  PROVE  Member1(new) /\ LocalMove(k, new)
         /\ new.call = "start" /\ new.pos = pos /\ new.hb = k.hb /\ new.close = k.close /\ new.claim = k.claim
<1>0. k \in MemberType /\ Life(k)
  BY DEF Member1
<1>1. /\ new.pos = pos
      /\ new.call = k.call /\ new.lock = k.lock /\ new.retries = k.retries /\ new.hb = k.hb
      /\ new.cancelled = k.cancelled /\ new.dying = k.dying /\ new.closed = k.closed
      /\ new.close = k.close /\ new.errs = k.errs /\ new.report = k.report
      /\ new.claim = k.claim /\ new.gen = k.gen
  BY <1>0 DEF MemberType
<1>2. new \in MemberType
  BY <1>0 DEF MemberType, CallStates
<1>3. Life(new)
  BY <1>0, <1>1 DEF Life, Session, None
<1>4. LocalMove(k, new)
  BY <1>0, <1>1 DEF Life, LocalMove, Session, Outside, None
<1>6. new.call = "start" /\ new.pos = pos /\ new.hb = k.hb /\ new.close = k.close /\ new.claim = k.claim
  BY <1>0, <1>1 DEF Marking, Outside, None, MemberType
<1> QED BY <1>2, <1>3, <1>4, <1>6 DEF Member1

(* The claims start. *)
LEMMA RunUpdate ==
  ASSUME NEW k, Member1(k),
         k.call = "start",
         NEW new, new = [k EXCEPT !.call = "run", !.claim = [p \in Partitions |-> IF p \in Claims(k) THEN "start" ELSE None]]
  PROVE  Member1(new) /\ LocalMove(k, new)
         /\ new.call \in Marking /\ new.hb = k.hb /\ new.close = k.close /\ new.pos = k.pos
         /\ \A p \in Partitions : new.claim[p] # None => k.claim[p] # None
<1>0. k \in MemberType /\ Life(k)
  BY DEF Member1
<1>1. /\ new.call = "run"
      /\ new.claim = [p \in Partitions |-> IF p \in Claims(k) THEN "start" ELSE None]
      /\ new.lock = k.lock /\ new.retries = k.retries /\ new.hb = k.hb
      /\ new.cancelled = k.cancelled /\ new.dying = k.dying /\ new.closed = k.closed
      /\ new.close = k.close /\ new.errs = k.errs /\ new.report = k.report
      /\ new.gen = k.gen /\ new.pos = k.pos
  BY <1>0 DEF MemberType
<1>2. new \in MemberType
  BY <1>0 DEF MemberType, CallStates
<1>3. Life(new)
  BY SMT, <1>0, <1>1 DEF Life, Session, None, Claims
<1>4. LocalMove(k, new)
  BY SMT, <1>0, <1>1 DEF Life, LocalMove, Session, Outside, None, Claims
<1>6. new.call \in Marking /\ new.hb = k.hb /\ new.close = k.close /\ new.pos = k.pos
      /\ \A p \in Partitions : new.claim[p] # None => k.claim[p] # None
  BY <1>0, <1>1 DEF Marking, Outside, None, MemberType, Claims
<1> QED BY <1>2, <1>3, <1>4, <1>6 DEF Member1

(* The session is released before it has run. *)
LEMMA NotRunUpdate ==
  ASSUME NEW k, Member1(k), NEW b \in BOOLEAN,
         k.call = "start",
         NEW new, new = Release([k EXCEPT !.claim = [p \in Partitions |-> IF p \in Claims(k) THEN "done" ELSE None]], b)
  PROVE  Member1(new) /\ LocalMove(k, new)
         /\ new.call \in Marking /\ new.hb = k.hb /\ new.close = k.close /\ new.pos = k.pos
         /\ \A p \in Partitions : new.claim[p] # None => k.claim[p] # None
<1>0. k \in MemberType /\ Life(k)
  BY DEF Member1
<1>1. /\ new.call = "wait"
      /\ new.cancelled = TRUE
      /\ new.lock = k.lock /\ new.retries = k.retries /\ new.hb = k.hb
      /\ new.dying = k.dying /\ new.closed = k.closed /\ new.close = k.close
      /\ new.errs = k.errs /\ new.report = k.report /\ new.gen = k.gen /\ new.pos = k.pos
  BY <1>0 DEF MemberType, Release, Cancel
<1>p. \A q \in Partitions : new.claim[q] = IF k.claim[q] # None THEN "done" ELSE None
  BY <1>0 DEF MemberType, Claims, None, Release, Cancel
<1>2. new \in MemberType
  BY <1>0 DEF MemberType, CallStates, Release, Cancel
<1>3. Life(new)
  BY <1>0, <1>1, <1>p DEF Life, Session, None, Claims
<1>4. LocalMove(k, new)
  BY <1>0, <1>1, <1>p DEF Life, LocalMove, Session, Outside, None, Claims
<1>6. new.call \in Marking /\ new.hb = k.hb /\ new.close = k.close /\ new.pos = k.pos
      /\ \A p \in Partitions : new.claim[p] # None => k.claim[p] # None
  BY <1>0, <1>1, <1>p DEF Marking, Outside, None, MemberType, Claims
<1> QED BY <1>2, <1>3, <1>4, <1>6 DEF Member1

(* A claim ends. *)
LEMMA EndClaimUpdate ==
  ASSUME NEW k, Member1(k), NEW p \in Partitions,
         k.claim[p] \in {"start", "consume"},
         NEW new, new = [Cancel(k) EXCEPT !.claim[p] = "done"]
  PROVE  Member1(new) /\ LocalMove(k, new) /\ MarkMove(k, new)
<1>0. k \in MemberType /\ Life(k)
  BY DEF Member1
<1>1. /\ new.cancelled = TRUE
      /\ new.call = k.call /\ new.lock = k.lock /\ new.retries = k.retries /\ new.hb = k.hb
      /\ new.dying = k.dying /\ new.closed = k.closed /\ new.close = k.close
      /\ new.errs = k.errs /\ new.report = k.report /\ new.gen = k.gen /\ new.pos = k.pos
  BY <1>0 DEF MemberType, Cancel
<1>p. \A q \in Partitions : new.claim[q] = IF q = p THEN "done" ELSE k.claim[q]
  BY <1>0 DEF MemberType, Claims, None, Cancel
<1>2. new \in MemberType
  BY <1>0 DEF MemberType, CallStates, Cancel
<1>3. Life(new)
  BY SMT, <1>0, <1>1, <1>p DEF Life, Session, None
<1>4. LocalMove(k, new)
  BY <1>0, <1>1, <1>p DEF Life, LocalMove, Session, Outside, None
<1>5. MarkMove(k, new)
  BY SMT, <1>0, <1>1, <1>p DEF Life, MarkMove, Holds, Counted, Marking, Session, None
<1> QED BY <1>2, <1>3, <1>4, <1>5 DEF Member1

(* A handler starts. *)
LEMMA ClaimUpdate ==
  ASSUME NEW k, Member1(k), NEW p \in Partitions,
         k.claim[p] = "start", ~k.closed,
         NEW new, new = [k EXCEPT !.claim[p] = "consume"]
  PROVE  Member1(new) /\ LocalMove(k, new) /\ MarkMove(k, new)
<1>0. k \in MemberType /\ Life(k)
  BY DEF Member1
<1>1. /\ new.claim = [k.claim EXCEPT ![p] = "consume"]
      /\ new.call = k.call /\ new.lock = k.lock /\ new.retries = k.retries /\ new.hb = k.hb
      /\ new.cancelled = k.cancelled /\ new.dying = k.dying /\ new.closed = k.closed
      /\ new.close = k.close /\ new.errs = k.errs /\ new.report = k.report
      /\ new.gen = k.gen /\ new.pos = k.pos
  BY <1>0 DEF MemberType
<1>2. new \in MemberType
  BY <1>0 DEF MemberType, CallStates
<1>3. Life(new)
  BY SMT, <1>0, <1>1 DEF Life, Session, None
<1>4. LocalMove(k, new)
  BY SMT, <1>0, <1>1 DEF Life, LocalMove, Session, Outside, None
<1>5. MarkMove(k, new)
  BY SMT, <1>0, <1>1 DEF Life, MarkMove, Holds, Counted, Marking, Session, None
<1> QED BY <1>2, <1>3, <1>4, <1>5 DEF Member1

(* A message is marked. *)
LEMMA ProcessUpdate ==
  ASSUME NEW k, Member1(k), NEW p \in Partitions,
         k.claim[p] = "consume", k.pos[p] < LogEnd,
         NEW new, new = MarkedAt(k, p)
  PROVE  Member1(new) /\ LocalMove(k, new)
         /\ new.call = k.call /\ new.hb = k.hb /\ new.close = k.close /\ new.claim = k.claim
         /\ new.pos = [k.pos EXCEPT ![p] = k.pos[p] + 1]
<1>0. k \in MemberType /\ Life(k)
  BY DEF Member1
<1>1. /\ new.pos = [k.pos EXCEPT ![p] = @ + 1]
      /\ new.call = k.call /\ new.lock = k.lock /\ new.retries = k.retries /\ new.hb = k.hb
      /\ new.cancelled = k.cancelled /\ new.dying = k.dying /\ new.closed = k.closed
      /\ new.close = k.close /\ new.errs = k.errs /\ new.report = k.report
      /\ new.claim = k.claim /\ new.gen = k.gen
  BY <1>0 DEF MemberType, MarkedAt
<1>n. k.pos[p] + 1 \in 0..LogEnd
  BY SMT, <1>0, GroupConstants DEF MemberType, Life, Session
<1>2. new \in MemberType
  BY <1>0, <1>n, Limits DEF MemberType, CallStates, MarkedAt
<1>3. Life(new)
  BY <1>0, <1>1, <1>n, Limits DEF Life, Session, None
<1>4. LocalMove(k, new)
  BY <1>0, <1>1 DEF Life, LocalMove, Session, Outside, None
<1>6. new.call = k.call /\ new.hb = k.hb /\ new.close = k.close /\ new.claim = k.claim
      /\ new.pos = [k.pos EXCEPT ![p] = k.pos[p] + 1]
  BY <1>0, <1>1 DEF Marking, Outside, None, MemberType
<1> QED BY <1>2, <1>3, <1>4, <1>6 DEF Member1

(* The session is released. *)
LEMMA ReleaseUpdate ==
  ASSUME NEW k, Member1(k), NEW b \in BOOLEAN,
         k.call = "run",
         NEW new, new = Release(k, b)
  PROVE  Member1(new) /\ LocalMove(k, new) /\ MarkMove(k, new)
<1>0. k \in MemberType /\ Life(k)
  BY DEF Member1
<1>1. /\ new.call = "wait"
      /\ new.cancelled = TRUE
      /\ new.lock = k.lock /\ new.retries = k.retries /\ new.hb = k.hb
      /\ new.dying = k.dying /\ new.closed = k.closed /\ new.close = k.close
      /\ new.errs = k.errs /\ new.report = k.report /\ new.claim = k.claim
      /\ new.gen = k.gen /\ new.pos = k.pos
  BY <1>0 DEF MemberType, Release, Cancel
<1>2. new \in MemberType
  BY <1>0 DEF MemberType, CallStates, Release, Cancel
<1>3. Life(new)
  BY <1>0, <1>1 DEF Life, Session, None
<1>4. LocalMove(k, new)
  BY <1>0, <1>1 DEF Life, LocalMove, Session, Outside, None
<1>5. MarkMove(k, new)
  BY <1>0, <1>1 DEF Life, MarkMove, Holds, Counted, Marking, Session, None
<1> QED BY <1>2, <1>3, <1>4, <1>5 DEF Member1

(* The handlers have returned. *)
LEMMA ClaimsEndedUpdate ==
  ASSUME NEW k, Member1(k),
         k.call = "wait", \A p \in Partitions : k.claim[p] \in {None, "done"},
         NEW new, new = [k EXCEPT !.call = IF k.cleanup THEN "cleanup" ELSE "commit"]
  PROVE  Member1(new) /\ LocalMove(k, new) /\ MarkMove(k, new)
<1>0. k \in MemberType /\ Life(k)
  BY DEF Member1
<1>1. /\ new.call = (IF k.cleanup THEN "cleanup" ELSE "commit")
      /\ new.lock = k.lock /\ new.retries = k.retries /\ new.hb = k.hb
      /\ new.cancelled = k.cancelled /\ new.dying = k.dying /\ new.closed = k.closed
      /\ new.close = k.close /\ new.errs = k.errs /\ new.report = k.report
      /\ new.claim = k.claim /\ new.gen = k.gen /\ new.pos = k.pos
  BY <1>0 DEF MemberType
<1>2. new \in MemberType
  BY <1>0 DEF MemberType, CallStates
<1>3. Life(new)
  BY SMT, <1>0, <1>1 DEF Life, Session, None
<1>4. LocalMove(k, new)
  BY <1>0, <1>1 DEF Life, LocalMove, Session, Outside, None
<1>5. MarkMove(k, new)
  BY <1>0, <1>1 DEF Life, MarkMove, Holds, Counted, Marking, Session, None
<1> QED BY <1>2, <1>3, <1>4, <1>5 DEF Member1

(* Cleanup has run. *)
LEMMA CleanupUpdate ==
  ASSUME NEW k, Member1(k),
         k.call = "cleanup",
         NEW new, new = [k EXCEPT !.call = "commit"]
  PROVE  Member1(new) /\ LocalMove(k, new) /\ MarkMove(k, new)
<1>0. k \in MemberType /\ Life(k)
  BY DEF Member1
<1>1. /\ new.call = "commit"
      /\ new.lock = k.lock /\ new.retries = k.retries /\ new.hb = k.hb
      /\ new.cancelled = k.cancelled /\ new.dying = k.dying /\ new.closed = k.closed
      /\ new.close = k.close /\ new.errs = k.errs /\ new.report = k.report
      /\ new.claim = k.claim /\ new.gen = k.gen /\ new.pos = k.pos
  BY <1>0 DEF MemberType
<1>2. new \in MemberType
  BY <1>0 DEF MemberType, CallStates
<1>3. Life(new)
  BY <1>0, <1>1 DEF Life, Session, None
<1>4. LocalMove(k, new)
  BY <1>0, <1>1 DEF Life, LocalMove, Session, Outside, None
<1>5. MarkMove(k, new)
  BY <1>0, <1>1 DEF Life, MarkMove, Holds, Counted, Marking, Session, None
<1> QED BY <1>2, <1>3, <1>4, <1>5 DEF Member1

(* The session is cancelled. *)
LEMMA CancelUpdate ==
  ASSUME NEW k, Member1(k),
         NEW new, new = Cancel(k)
  PROVE  Member1(new) /\ LocalMove(k, new) /\ MarkMove(k, new)
<1>0. k \in MemberType /\ Life(k)
  BY DEF Member1
<1>1. /\ new.cancelled = TRUE
      /\ new.call = k.call /\ new.lock = k.lock /\ new.retries = k.retries /\ new.hb = k.hb
      /\ new.dying = k.dying /\ new.closed = k.closed /\ new.close = k.close
      /\ new.errs = k.errs /\ new.report = k.report /\ new.claim = k.claim
      /\ new.gen = k.gen /\ new.pos = k.pos
  BY <1>0 DEF MemberType, Cancel
<1>2. new \in MemberType
  BY <1>0 DEF MemberType, CallStates, Cancel
<1>3. Life(new)
  BY SMT, <1>0, <1>1 DEF Life, Session, None
<1>4. LocalMove(k, new)
  BY <1>0, <1>1 DEF Life, LocalMove, Session, Outside, None
<1>5. MarkMove(k, new)
  BY <1>0, <1>1 DEF Life, MarkMove, Holds, Counted, Marking, Session, None
<1> QED BY <1>2, <1>3, <1>4, <1>5 DEF Member1

(* The offset manager is closed. *)
LEMMA StopUpdate ==
  ASSUME NEW k, Member1(k),
         k.call = "commit",
         NEW new, new = [k EXCEPT !.call = "stop", !.dying = TRUE]
  PROVE  Member1(new) /\ LocalMove(k, new)
         /\ new.call = "stop"
<1>0. k \in MemberType /\ Life(k)
  BY DEF Member1
<1>1. /\ new.call = "stop"
      /\ new.dying = TRUE
      /\ new.lock = k.lock /\ new.retries = k.retries /\ new.hb = k.hb
      /\ new.cancelled = k.cancelled /\ new.closed = k.closed /\ new.close = k.close
      /\ new.errs = k.errs /\ new.report = k.report /\ new.claim = k.claim
      /\ new.gen = k.gen /\ new.pos = k.pos
  BY <1>0 DEF MemberType
<1>2. new \in MemberType
  BY <1>0 DEF MemberType, CallStates
<1>3. Life(new)
  BY <1>0, <1>1 DEF Life, Session, None
<1>4. LocalMove(k, new)
  BY <1>0, <1>1 DEF Life, LocalMove, Session, Outside, None
<1>6. new.call = "stop"
  BY <1>0, <1>1 DEF Marking, Outside, None, MemberType
<1> QED BY <1>2, <1>3, <1>4, <1>6 DEF Member1

(* Consume returns from a session. *)
LEMMA ReleasedUpdate ==
  ASSUME NEW k, Member1(k),
         k.call = "stop", k.hb = "dead",
         NEW new, new = [Returned(k) EXCEPT !.claim = [p \in Partitions |-> None], !.pos = [p \in Partitions |-> 0]]
  PROVE  Member1(new) /\ LocalMove(k, new) /\ MarkMove(k, new)
<1>0. k \in MemberType /\ Life(k)
  BY DEF Member1
<1>1. /\ new.call = "idle"
      /\ new.lock = None
      /\ new.claim = [p \in Partitions |-> None]
      /\ new.pos = [p \in Partitions |-> 0]
      /\ new.retries = k.retries /\ new.hb = k.hb /\ new.cancelled = k.cancelled
      /\ new.dying = k.dying /\ new.closed = k.closed /\ new.close = k.close
      /\ new.errs = k.errs /\ new.report = k.report /\ new.gen = k.gen
  BY <1>0 DEF MemberType, Returned
<1>2. new \in MemberType
  BY <1>0, Limits DEF MemberType, CallStates, Returned
<1>3. Life(new)
  BY SMT, <1>0, <1>1, Limits DEF Life, Session, None
<1>4. LocalMove(k, new)
  BY SMT, <1>0, <1>1 DEF Life, LocalMove, Session, Outside, None
<1>5. MarkMove(k, new)
  BY <1>0, <1>1 DEF Life, MarkMove, Holds, Counted, Marking, Session, None
<1> QED BY <1>2, <1>3, <1>4, <1>5 DEF Member1

(* A heartbeat is answered. *)
LEMMA BeatUpdate ==
  ASSUME NEW k, Member1(k),
         NEW new, new = [k EXCEPT !.beats = MaxRetries]
  PROVE  Member1(new) /\ LocalMove(k, new) /\ MarkMove(k, new)
<1>0. k \in MemberType /\ Life(k)
  BY DEF Member1
<1>1. /\ new.call = k.call /\ new.lock = k.lock /\ new.retries = k.retries /\ new.hb = k.hb
      /\ new.cancelled = k.cancelled /\ new.dying = k.dying /\ new.closed = k.closed
      /\ new.close = k.close /\ new.errs = k.errs /\ new.report = k.report
      /\ new.claim = k.claim /\ new.gen = k.gen /\ new.pos = k.pos
  BY <1>0 DEF MemberType
<1>2. new \in MemberType
  BY <1>0, Limits DEF MemberType, CallStates
<1>3. Life(new)
  BY <1>0, <1>1, Limits DEF Life, Session, None
<1>4. LocalMove(k, new)
  BY <1>0, <1>1 DEF Life, LocalMove, Session, Outside, None
<1>5. MarkMove(k, new)
  BY <1>0, <1>1 DEF Life, MarkMove, Holds, Counted, Marking, Session, None
<1> QED BY <1>2, <1>3, <1>4, <1>5 DEF Member1

(* A heartbeat is answered with a new round. *)
LEMMA LastBeatUpdate ==
  ASSUME NEW k, Member1(k),
         NEW new, new = [Cancel(k) EXCEPT !.beats = MaxRetries]
  PROVE  Member1(new) /\ LocalMove(k, new) /\ MarkMove(k, new)
<1>0. k \in MemberType /\ Life(k)
  BY DEF Member1
<1>1. /\ new.cancelled = TRUE
      /\ new.call = k.call /\ new.lock = k.lock /\ new.retries = k.retries /\ new.hb = k.hb
      /\ new.dying = k.dying /\ new.closed = k.closed /\ new.close = k.close
      /\ new.errs = k.errs /\ new.report = k.report /\ new.claim = k.claim
      /\ new.gen = k.gen /\ new.pos = k.pos
  BY <1>0 DEF MemberType, Cancel
<1>2. new \in MemberType
  BY <1>0, Limits DEF MemberType, CallStates, Cancel
<1>3. Life(new)
  BY SMT, <1>0, <1>1, Limits DEF Life, Session, None
<1>4. LocalMove(k, new)
  BY <1>0, <1>1 DEF Life, LocalMove, Session, Outside, None
<1>5. MarkMove(k, new)
  BY <1>0, <1>1 DEF Life, MarkMove, Holds, Counted, Marking, Session, None
<1> QED BY <1>2, <1>3, <1>4, <1>5 DEF Member1

(* A heartbeat fails. *)
LEMMA MissUpdate ==
  ASSUME NEW k, Member1(k),
         k.beats > 0,
         NEW new, new = [k EXCEPT !.beats = @ - 1]
  PROVE  Member1(new) /\ LocalMove(k, new) /\ MarkMove(k, new)
<1>0. k \in MemberType /\ Life(k)
  BY DEF Member1
<1>1. /\ new.call = k.call /\ new.lock = k.lock /\ new.retries = k.retries /\ new.hb = k.hb
      /\ new.cancelled = k.cancelled /\ new.dying = k.dying /\ new.closed = k.closed
      /\ new.close = k.close /\ new.errs = k.errs /\ new.report = k.report
      /\ new.claim = k.claim /\ new.gen = k.gen /\ new.pos = k.pos
  BY <1>0 DEF MemberType
<1>n. k.beats - 1 \in 0..MaxRetries
  BY SMT, <1>0, GroupConstants DEF MemberType, Life, Session
<1>2. new \in MemberType
  BY <1>0, <1>n DEF MemberType, CallStates
<1>3. Life(new)
  BY <1>0, <1>1, <1>n DEF Life, Session, None
<1>4. LocalMove(k, new)
  BY <1>0, <1>1 DEF Life, LocalMove, Session, Outside, None
<1>5. MarkMove(k, new)
  BY <1>0, <1>1 DEF Life, MarkMove, Holds, Counted, Marking, Session, None
<1> QED BY <1>2, <1>3, <1>4, <1>5 DEF Member1

(* The heartbeat loop ends. *)
LEMMA HeartbeatsEndUpdate ==
  ASSUME NEW k, Member1(k),
         k.hb = "beat", KeepsBeating /\ k.close # "done" /\ k.call # "stop" => "expire" \notin Faults,
         NEW new, new = HeartbeatsEnd(k)
  PROVE  Member1(new) /\ LocalMove(k, new) /\ MarkMove(k, new)
<1>0. k \in MemberType /\ Life(k)
  BY DEF Member1
<1>1. /\ new.hb = "dead"
      /\ new.cancelled = TRUE
      /\ new.call = k.call /\ new.lock = k.lock /\ new.retries = k.retries
      /\ new.dying = k.dying /\ new.closed = k.closed /\ new.close = k.close
      /\ new.errs = k.errs /\ new.report = k.report /\ new.claim = k.claim
      /\ new.gen = k.gen /\ new.pos = k.pos
  BY <1>0 DEF MemberType, HeartbeatsEnd, Cancel
<1>2. new \in MemberType
  BY <1>0 DEF MemberType, CallStates, HeartbeatsEnd, Cancel
<1>3. Life(new)
  BY <1>0, <1>1 DEF Life, Session, None
<1>4. LocalMove(k, new)
  BY <1>0, <1>1 DEF Life, LocalMove, Session, Outside, None
<1>5. MarkMove(k, new)
  BY <1>0, <1>1 DEF Life, MarkMove, Holds, Counted, Marking, Session, None
<1> QED BY <1>2, <1>3, <1>4, <1>5 DEF Member1

(* The application cancels its context. *)
LEMMA ContextUpdate ==
  ASSUME NEW k, Member1(k),
         NEW new, new = [Cancel(k) EXCEPT !.ctx = TRUE]
  PROVE  Member1(new) /\ LocalMove(k, new) /\ MarkMove(k, new)
<1>0. k \in MemberType /\ Life(k)
  BY DEF Member1
<1>1. /\ new.cancelled = TRUE
      /\ new.call = k.call /\ new.lock = k.lock /\ new.retries = k.retries /\ new.hb = k.hb
      /\ new.dying = k.dying /\ new.closed = k.closed /\ new.close = k.close
      /\ new.errs = k.errs /\ new.report = k.report /\ new.claim = k.claim
      /\ new.gen = k.gen /\ new.pos = k.pos
  BY <1>0 DEF MemberType, Cancel
<1>2. new \in MemberType
  BY <1>0 DEF MemberType, CallStates, Cancel
<1>3. Life(new)
  BY SMT, <1>0, <1>1 DEF Life, Session, None
<1>4. LocalMove(k, new)
  BY <1>0, <1>1 DEF Life, LocalMove, Session, Outside, None
<1>5. MarkMove(k, new)
  BY <1>0, <1>1 DEF Life, MarkMove, Holds, Counted, Marking, Session, None
<1> QED BY <1>2, <1>3, <1>4, <1>5 DEF Member1

(* Close is called. *)
LEMMA CloseUpdate ==
  ASSUME NEW k, Member1(k),
         ~k.closed,
         NEW new, new = [k EXCEPT !.closed = TRUE, !.close = "leave"]
  PROVE  Member1(new) /\ LocalMove(k, new) /\ MarkMove(k, new)
<1>0. k \in MemberType /\ Life(k)
  BY DEF Member1
<1>1. /\ new.closed = TRUE
      /\ new.close = "leave"
      /\ new.call = k.call /\ new.lock = k.lock /\ new.retries = k.retries /\ new.hb = k.hb
      /\ new.cancelled = k.cancelled /\ new.dying = k.dying /\ new.errs = k.errs
      /\ new.report = k.report /\ new.claim = k.claim /\ new.gen = k.gen /\ new.pos = k.pos
  BY <1>0 DEF MemberType
<1>2. new \in MemberType
  BY <1>0 DEF MemberType, CallStates
<1>3. Life(new)
  BY SMT, <1>0, <1>1 DEF Life, Session, None
<1>4. LocalMove(k, new)
  BY <1>0, <1>1 DEF Life, LocalMove, Session, Outside, None
<1>5. MarkMove(k, new)
  BY <1>0, <1>1 DEF Life, MarkMove, Holds, Counted, Marking, Session, None
<1> QED BY <1>2, <1>3, <1>4, <1>5 DEF Member1

(* The member leaves. *)
LEMMA LeftUpdate ==
  ASSUME NEW k, Member1(k), NEW id \in BOOLEAN,
         k.close = "leave", k.lock = None,
         NEW new, new = [[k EXCEPT !.close = "errors"] EXCEPT !.id = id]
  PROVE  Member1(new) /\ LocalMove(k, new) /\ MarkMove(k, new)
<1>0. k \in MemberType /\ Life(k)
  BY DEF Member1
<1>1. /\ new.close = "errors"
      /\ new.call = k.call /\ new.lock = k.lock /\ new.retries = k.retries /\ new.hb = k.hb
      /\ new.cancelled = k.cancelled /\ new.dying = k.dying /\ new.closed = k.closed
      /\ new.errs = k.errs /\ new.report = k.report /\ new.claim = k.claim
      /\ new.gen = k.gen /\ new.pos = k.pos
  BY <1>0 DEF MemberType
<1>2. new \in MemberType
  BY <1>0 DEF MemberType, CallStates
<1>3. Life(new)
  BY <1>0, <1>1 DEF Life, Session, None
<1>4. LocalMove(k, new)
  BY <1>0, <1>1 DEF Life, LocalMove, Session, Outside, None
<1>5. MarkMove(k, new)
  BY <1>0, <1>1 DEF Life, MarkMove, Holds, Counted, Marking, Session, None
<1> QED BY <1>2, <1>3, <1>4, <1>5 DEF Member1

(* The errors channel is closed. *)
LEMMA ErrorsClosedUpdate ==
  ASSUME NEW k, Member1(k),
         k.close = "errors", k.report # "send",
         NEW new, new = [k EXCEPT !.errs = FALSE, !.close = "client"]
  PROVE  Member1(new) /\ LocalMove(k, new) /\ MarkMove(k, new)
<1>0. k \in MemberType /\ Life(k)
  BY DEF Member1
<1>1. /\ new.close = "client"
      /\ new.errs = FALSE
      /\ new.call = k.call /\ new.lock = k.lock /\ new.retries = k.retries /\ new.hb = k.hb
      /\ new.cancelled = k.cancelled /\ new.dying = k.dying /\ new.closed = k.closed
      /\ new.report = k.report /\ new.claim = k.claim /\ new.gen = k.gen /\ new.pos = k.pos
  BY <1>0 DEF MemberType
<1>2. new \in MemberType
  BY <1>0 DEF MemberType, CallStates
<1>3. Life(new)
  BY SMT, <1>0, <1>1 DEF Life, Session, None
<1>4. LocalMove(k, new)
  BY <1>0, <1>1 DEF Life, LocalMove, Session, Outside, None
<1>5. MarkMove(k, new)
  BY <1>0, <1>1 DEF Life, MarkMove, Holds, Counted, Marking, Session, None
<1> QED BY <1>2, <1>3, <1>4, <1>5 DEF Member1

(* The client is closed. *)
LEMMA ClientClosedUpdate ==
  ASSUME NEW k, Member1(k),
         k.close = "client", k.call \notin {"join", "syncing"},
         NEW new, new = [k EXCEPT !.close = "done"]
  PROVE  Member1(new) /\ MarkMove(k, new)
         /\ new.call = k.call /\ new.close = "done" /\ new.gen = k.gen /\ new.hb = k.hb /\ new.claim = k.claim
<1>0. k \in MemberType /\ Life(k)
  BY DEF Member1
<1>1. /\ new.close = "done"
      /\ new.call = k.call /\ new.lock = k.lock /\ new.retries = k.retries /\ new.hb = k.hb
      /\ new.cancelled = k.cancelled /\ new.dying = k.dying /\ new.closed = k.closed
      /\ new.errs = k.errs /\ new.report = k.report /\ new.claim = k.claim
      /\ new.gen = k.gen /\ new.pos = k.pos
  BY <1>0 DEF MemberType
<1>2. new \in MemberType
  BY <1>0 DEF MemberType, CallStates
<1>3. Life(new)
  BY <1>0, <1>1 DEF Life, Session, None
<1>5. MarkMove(k, new)
  BY <1>0, <1>1 DEF Life, MarkMove, Holds, Counted, Marking, Session, None
<1>6. new.call = k.call /\ new.close = "done" /\ new.gen = k.gen /\ new.hb = k.hb /\ new.claim = k.claim
  BY <1>0, <1>1 DEF Marking, Outside, None, MemberType
<1> QED BY <1>2, <1>3, <1>5, <1>6 DEF Member1

(* The client is closed under a request. *)
LEMMA CallClosedUpdate ==
  ASSUME NEW k, Member1(k),
         k.close = "client", k.call \in {"join", "syncing"},
         NEW new, new = [Returned(k) EXCEPT !.close = "done"]
  PROVE  Member1(new) /\ MarkMove(k, new)
         /\ new.call = "idle" /\ new.close = "done"
<1>0. k \in MemberType /\ Life(k)
  BY DEF Member1
<1>1. /\ new.call = "idle"
      /\ new.lock = None
      /\ new.close = "done"
      /\ new.retries = k.retries /\ new.hb = k.hb /\ new.cancelled = k.cancelled
      /\ new.dying = k.dying /\ new.closed = k.closed /\ new.errs = k.errs
      /\ new.report = k.report /\ new.claim = k.claim /\ new.gen = k.gen /\ new.pos = k.pos
  BY <1>0 DEF MemberType, Returned
<1>2. new \in MemberType
  BY <1>0 DEF MemberType, CallStates, Returned
<1>3. Life(new)
  BY <1>0, <1>1 DEF Life, Session, None
<1>5. MarkMove(k, new)
  BY <1>0, <1>1 DEF Life, MarkMove, Holds, Counted, Marking, Session, None
<1>6. new.call = "idle" /\ new.close = "done"
  BY <1>0, <1>1 DEF Marking, Outside, None, MemberType
<1> QED BY <1>2, <1>3, <1>5, <1>6 DEF Member1

(* An error is reported. *)
LEMMA ReportUpdate ==
  ASSUME NEW k, Member1(k),
         ~k.closed,
         NEW new, new = [k EXCEPT !.report = "send"]
  PROVE  Member1(new) /\ LocalMove(k, new) /\ MarkMove(k, new)
<1>0. k \in MemberType /\ Life(k)
  BY DEF Member1
<1>1. /\ new.report = "send"
      /\ new.call = k.call /\ new.lock = k.lock /\ new.retries = k.retries /\ new.hb = k.hb
      /\ new.cancelled = k.cancelled /\ new.dying = k.dying /\ new.closed = k.closed
      /\ new.close = k.close /\ new.errs = k.errs /\ new.claim = k.claim /\ new.gen = k.gen
      /\ new.pos = k.pos
  BY <1>0 DEF MemberType
<1>2. new \in MemberType
  BY <1>0 DEF MemberType, CallStates
<1>3. Life(new)
  BY <1>0, <1>1 DEF Life, Session, None
<1>4. LocalMove(k, new)
  BY <1>0, <1>1 DEF Life, LocalMove, Session, Outside, None
<1>5. MarkMove(k, new)
  BY <1>0, <1>1 DEF Life, MarkMove, Holds, Counted, Marking, Session, None
<1> QED BY <1>2, <1>3, <1>4, <1>5 DEF Member1

(* The error has been sent. *)
LEMMA ReportedUpdate ==
  ASSUME NEW k, Member1(k),
         NEW new, new = [k EXCEPT !.report = "idle"]
  PROVE  Member1(new) /\ LocalMove(k, new) /\ MarkMove(k, new)
<1>0. k \in MemberType /\ Life(k)
  BY DEF Member1
<1>1. /\ new.report = "idle"
      /\ new.call = k.call /\ new.lock = k.lock /\ new.retries = k.retries /\ new.hb = k.hb
      /\ new.cancelled = k.cancelled /\ new.dying = k.dying /\ new.closed = k.closed
      /\ new.close = k.close /\ new.errs = k.errs /\ new.claim = k.claim /\ new.gen = k.gen
      /\ new.pos = k.pos
  BY <1>0 DEF MemberType
<1>2. new \in MemberType
  BY <1>0 DEF MemberType, CallStates
<1>3. Life(new)
  BY SMT, <1>0, <1>1 DEF Life, Session, None
<1>4. LocalMove(k, new)
  BY <1>0, <1>1 DEF Life, LocalMove, Session, Outside, None
<1>5. MarkMove(k, new)
  BY <1>0, <1>1 DEF Life, MarkMove, Holds, Counted, Marking, Session, None
<1> QED BY <1>2, <1>3, <1>4, <1>5 DEF Member1

-----------------------------------------------------------------------------
(* A member, its answer and the coordinator. *)

(* A failure before the request, or with its answer. *)
LEMMA RetryUpdate ==
  ASSUME NEW k, Member1(k), k.call = "session", NEW new, new = Retry(k)
  PROVE  Member1(new) /\ LocalMove(k, new) /\ MarkMove(k, new)
<1>1. k.retries \in Int
  BY SMT DEF Member1, MemberType
<1>2. CASE k.retries <= 0
  BY <1>2, ReturnedUpdate DEF Retry
<1>3. CASE ~(k.retries <= 0)
  <2>1. k.retries > 0 BY SMT, <1>1, <1>3
  <2> QED BY <2>1, <1>3, BackoffUpdate DEF Retry
<1> QED BY <1>2, <1>3

LEMMA RetryAnswerUpdate ==
  ASSUME NEW k, Member1(k), k.call \in {"join", "syncing"}, NEW new, new = Retry(k)
  PROVE  Member1(new) /\ MarkMove(k, new) /\ new.call \in Outside /\ new.close = k.close
<1>1. k.retries \in Int
  BY SMT DEF Member1, MemberType
<1>2. CASE k.retries <= 0
  BY <1>2, RefusedUpdate DEF Retry
<1>3. CASE ~(k.retries <= 0)
  <2>1. k.retries > 0 BY SMT, <1>1, <1>3
  <2> QED BY <2>1, <1>3, PostponedUpdate DEF Retry
<1> QED BY <1>2, <1>3

LEMMA AnsweredUpdate ==
  ASSUME NEW k, Member1(k), k.call \in {"join", "syncing"}, NEW a, a.kind \in {"unknown", "required", "again"},
         NEW new, new = Answered(k, a)
  PROVE  Member1(new) /\ MarkMove(k, new) /\ new.call \in Outside /\ new.close = k.close
<1>1. CASE a.kind = "unknown"
  <2>1. new = [k EXCEPT !.id = FALSE, !.call = "session"]
    BY <1>1 DEF Answered
  <2> QED BY <2>1, UnknownUpdate
<1>2. CASE a.kind = "required"
  <2>1. new = [k EXCEPT !.id = TRUE, !.call = "backoff", !.retries = @ + 1]
    BY <1>2 DEF Answered
  <2> QED BY <2>1, RequiredUpdate
<1>3. CASE a.kind = "again"
  <2>1. new = Retry(k)
    BY <1>3 DEF Answered
  <2> QED BY <2>1, RetryAnswerUpdate
<1> QED BY <1>1, <1>2, <1>3

(* Steps of a member by itself. *)
LEMMA PlaceLocal ==
  ASSUME NEW gr, NEW m, NEW k, NEW n, NEW a, Place(gr, m, k, a), LocalMove(k, n)
  PROVE  Place(gr, m, n, a)
  BY DEF Place, LocalMove, Current, Counted, Session, Outside

(* The answer to a request, when it does not begin a session. *)
LEMMA PlaceAnswered ==
  ASSUME NEW gr, NEW m, NEW k, NEW n, NEW a, Place(gr, m, k, a), Life(k),
         k.call \in {"join", "syncing"}, a # NoAnswer, n.call \in Outside, n.close = k.close
  PROVE  Place(gr, m, n, NoAnswer)
  BY DEF Place, Life, Session, Outside, NoAnswer

(* The member is taken into the next generation. *)
LEMMA PlaceJoined ==
  ASSUME NEW gr, NEW m, NEW k, NEW n, NEW a, Place(gr, m, k, a), Life(k),
         k.call = "join", a.kind = "ok", n.call = "sync", n.gen = a.gen, n.close = k.close
  PROVE  Place(gr, m, n, NoAnswer)
  BY DEF Place, Life, Session, NoAnswer, None

(* Its session begins. *)
LEMMA PlaceBegun ==
  ASSUME NEW gr, NEW m, NEW k, NEW n, NEW a, Place(gr, m, k, a), Life(k),
         k.call = "syncing", a.kind = "ok", n.call = "start", n.gen = k.gen, n.hb = "beat", n.close = k.close,
         \A p \in Partitions : n.claim[p] # None => p \in a.claims
  PROVE  Place(gr, m, n, NoAnswer)
  BY DEF Place, Life, Session, Counted, NoAnswer, None

(* The coordinator starts a round, which concerns member m. *)
NewRound(gr, gr2, m) ==
  /\ gr2.gen = gr.gen /\ gr2.plan = gr.plan /\ gr2.phase = "join" /\ gr2.waiting = {}
  /\ \A n \in Members \ {m} :
       /\ n \in gr2.known <=> n \in gr.known
       /\ n \in gr2.joined <=> gr.phase = "join" /\ n \in gr.joined

LEMMA PlaceNewRound ==
  ASSUME NEW gr, NEW gr2, NEW m, NEW n \in Members \ {m}, NEW k, NEW a, NEW b, Place(gr, n, k, a),
         NewRound(gr, gr2, m), IF n \in gr.waiting THEN b.kind = "again" ELSE b = a
  PROVE  Place(gr2, n, k, b)
<1>1. CASE n \in gr.waiting
  <2>1. b # NoAnswer /\ b.kind # None /\ b.kind # "ok"
    BY SMT, <1>1 DEF NoAnswer, None
  <2>2. k.call = "syncing" /\ gr.phase = "sync"
    BY <1>1 DEF Place
  <2> QED BY <1>1, <2>1, <2>2 DEF Place, NewRound, Current, Session
<1>2. CASE n \notin gr.waiting
  BY <1>2 DEF Place, NewRound, Current
<1> QED BY <1>1, <1>2

(* It is removed: it has left, or was gone, or sent no heartbeats. *)
LEMMA PlaceRemoved ==
  ASSUME NEW gr, NEW gr2, NEW m, NEW k, NEW a, Place(gr, m, k, a),
         NewRound(gr, gr2, m), m \notin gr2.joined,
         k.call \notin {"join", "sync", "syncing"}, k.call \in Session => ~Counted(k)
  PROVE  Place(gr2, m, k, a) /\ m \notin gr.waiting
<1>1. gr2.phase = "join" /\ gr2.waiting = {}
  BY DEF NewRound
<1> QED BY <1>1 DEF Place

(* It joins. *)
LEMMA PlaceJoins ==
  ASSUME NEW gr, NEW gr2, NEW m, NEW k, NEW n, NEW a, Place(gr, m, k, a),
         NewRound(gr, gr2, m), m \in gr2.joined, k.call = "session", k.close # "done",
         n.call = "join", n.close = k.close
  PROVE  Place(gr2, m, n, a) /\ m \notin gr.waiting
  BY DEF Place, NewRound, Session, NoAnswer, None

(* Its request is answered at once. *)
LEMMA PlaceTurnedAway ==
  ASSUME NEW gr, NEW gr2, NEW m, NEW k, NEW n, NEW a, NEW b, Place(gr, m, k, a), 
         gr2.phase = gr.phase, gr2.joined = gr.joined, gr2.waiting = gr.waiting,
         k.call = "session", k.close # "done", n.call = "join", n.close = k.close,
         b.kind \in {"unknown", "required"}
  PROVE  Place(gr2, m, n, b)
<1>1. b # NoAnswer /\ b.kind # None /\ b.kind # "ok"
  BY SMT DEF NoAnswer, None
<1> QED BY <1>1 DEF Place, Session

(* Its SyncGroup is answered at once. *)
LEMMA PlaceSyncs ==
  ASSUME NEW gr, NEW m, NEW k, NEW n, NEW a, NEW b, Place(gr, m, k, a),
         k.call = "sync", k.close # "done", n.call = "syncing", n.gen = k.gen, n.close = k.close,
         b # NoAnswer, b.kind # None,
         b.kind = "ok" => gr.phase # "sync" /\ \A p \in b.claims : gr.plan[p] = m
  PROVE  Place(gr, m, n, b)
  BY DEF Place, Session

(* It waits for the leader's plan. *)
LEMMA PlaceWaits ==
  ASSUME NEW gr, NEW gr2, NEW m, NEW k, NEW n, NEW a, Place(gr, m, k, a),
         gr2.gen = gr.gen, gr2.known = gr.known, gr2.joined = gr.joined, gr2.phase = gr.phase,
         gr.phase = "sync",
         k.call = "sync", k.close # "done", n.call = "syncing", n.gen = k.gen, n.close = k.close
  PROVE  Place(gr2, m, n, a)
  BY DEF Place, Current, Session, NoAnswer, None

(* The leader's plan is there. *)
LEMMA PlacePlanned ==
  ASSUME NEW gr, NEW gr2, NEW m, NEW k, NEW a, NEW b, Place(gr, m, k, a),
         gr2.gen = gr.gen, gr2.known = gr.known, gr2.joined = gr.joined, gr2.waiting = {},
         gr.phase = "sync", gr2.phase = "stable",
         IF m \in gr.waiting
         THEN b.kind = "ok" /\ \A p \in b.claims : gr2.plan[p] = m ELSE b = a
  PROVE  Place(gr2, m, k, b)
<1>1. CASE m \in gr.waiting
  <2>1. b # NoAnswer /\ b.kind # None
    BY SMT, <1>1 DEF NoAnswer, None
  <2>2. k.call = "syncing"
    BY <1>1 DEF Place
  <2> QED BY <1>1, <2>1, <2>2 DEF Place, Current, Session
<1>2. CASE m \notin gr.waiting
  BY <1>2 DEF Place, Current
<1> QED BY <1>1, <1>2

(* The leader itself has it. *)
LEMMA PlaceLeads ==
  ASSUME NEW gr, NEW gr2, NEW m, NEW k, NEW n, NEW a, NEW b, Place(gr, m, k, a),
         gr2.gen = gr.gen, gr2.known = gr.known, gr2.joined = gr.joined, gr2.waiting = {},
         gr.phase = "sync", gr2.phase = "stable",
         k.call = "sync", k.close # "done", n.call = "syncing", n.gen = k.gen, n.close = k.close,
         b.kind = "ok", \A p \in b.claims : gr2.plan[p] = m
  PROVE  Place(gr2, m, n, b)
<1>1. b # NoAnswer /\ b.kind # None
  BY SMT DEF NoAnswer, None
<1> QED BY <1>1 DEF Place, Current, Session

(* Everybody has joined. *)
LEMMA PlaceCompleted ==
  ASSUME NEW gr, NEW gr2, NEW m, NEW k, NEW a, NEW b, Place(gr, m, k, a), Life(k),
         gr.phase = "join", gr.joined = gr.known, gr2.phase = "sync", gr2.waiting = {},
         gr2.known = gr.known, gr2.joined = gr.joined,
         IF m \in gr.joined THEN b.kind = "ok" /\ b.gen = gr2.gen ELSE b = a
  PROVE  Place(gr2, m, k, b)
<1>1. CASE m \in gr.joined
  <2>1. b # NoAnswer /\ b.kind # None
    BY SMT, <1>1 DEF NoAnswer, None
  <2>2. k.call \notin {"sync", "syncing"} /\ (k.call \in Session => ~Counted(k))
    BY <1>1 DEF Place, Current
  <2>3. k.close # "done" => k.call = "join"
    BY <1>1 DEF Place
  <2> QED BY <1>1, <2>1, <2>2, <2>3 DEF Place, Current, Session
<1>2. CASE m \notin gr.joined
  <2>1. k.call \notin {"sync", "syncing"} /\ (k.call \in Session => ~Counted(k))
    BY <1>2 DEF Place, Current
  <2>2. k.call # "join" \/ (a # NoAnswer /\ a.kind # "ok")
    BY <1>2 DEF Place, Current
  <2> QED BY <1>2, <2>1, <2>2 DEF Place
<1> QED BY <1>1, <1>2

(* The client is closed. *)
LEMMA PlaceClosed ==
  ASSUME NEW gr, NEW gr2, NEW m, NEW k, NEW n, NEW a, Place(gr, m, k, a),
         gr2.gen = gr.gen, gr2.known = gr.known, gr2.joined = gr.joined, gr2.phase = gr.phase,
         gr2.plan = gr.plan, m \notin gr2.waiting, n.close = "done",
         \/ n.call = "idle"
         \/ k.call \notin {"join", "syncing"} /\ n.call = k.call /\ n.gen = k.gen /\ n.hb = k.hb /\ n.claim = k.claim
  PROVE  Place(gr2, m, n, NoAnswer)
  BY DEF Place, Current, Counted, Session, NoAnswer, None

(* Other members when one of them is no longer or is now waiting. *)
LEMMA PlaceOthers ==
  ASSUME NEW gr, NEW gr2, NEW m, NEW k, NEW a, Place(gr, m, k, a),
         gr2.gen = gr.gen, gr2.known = gr.known, gr2.joined = gr.joined, gr2.phase = gr.phase,
         gr2.plan = gr.plan, m \in gr2.waiting <=> m \in gr.waiting
  PROVE  Place(gr2, m, k, a)
  BY DEF Place, Current
=============================================================================
