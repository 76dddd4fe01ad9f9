------------------------ MODULE ConsumerGroupTheorems ------------------------
(***************************************************************************)
(* The steps of the consumer group keep the invariant of                   *)
(* ConsumerGroupProofs, and what follows from it.                          *)
(***************************************************************************)
EXTENDS ConsumerGroupProofs

(* Most leaves are first-order; those that need records or arithmetic cite SMT. *)
USE ZenonT(30)

-----------------------------------------------------------------------------
(* The steps of the system. *)

Good == TypeInv /\ LifeInv /\ GroupInv

(* What every step keeps. *)
Kept == Good' /\ (KeepsBeating /\ "commit" \notin Faults /\ MarkInv => MarkInv')

LEMMA GoodMember ==
  ASSUME Good, NEW m \in Members
  PROVE  Member1(g[m]) /\ Place(group, m, g[m], inbox[m]) /\ inbox[m] \in AnswerType
  BY DEF Good, TypeInv, LifeInv, GroupInv, Member1

(* A step of one member that the coordinator does not see. *)
LEMMA MemberStep ==
  ASSUME Good, NEW m \in Members, NEW new, Member(m, new), Member1(new), LocalMove(g[m], new),
         inbox' = inbox, group' = group,
         committed' \in [Partitions -> 0..LogEnd], seen' \in [Partitions -> 0..LogEnd]
  PROVE  Good'
<1>1. g \in [Members -> MemberType]
  BY DEF Good, TypeInv
<1>2. g' \in [Members -> MemberType] /\ LifeInv'
  BY MembersKept DEF Good
<1>3. TypeInv'
  BY <1>2 DEF Good, TypeInv
<1>4. Place(group, m, new, inbox[m])
  BY GoodMember, PlaceLocal
<1>5. \A n \in Members : Place(group', n, g'[n], inbox'[n])
  BY <1>1, <1>4, OneMember, GoodMember
<1>6. group'.joined \subseteq group'.known
  BY DEF Good, GroupInv
<1> QED BY <1>2, <1>3, <1>5, <1>6 DEF Good, GroupInv

(* A step of one member that marks and commits nothing. *)
LEMMA MarkStep ==
  ASSUME TypeInv, KeepsBeating, MarkInv, NEW m \in Members, NEW new, Member(m, new), MarkMove(g[m], new),
         committed' = committed, seen' = seen
  PROVE  MarkInv'
<1>1. g'[m] = new /\ \A n \in Members : n # m => g'[n] = g[n]
  BY OneMember DEF TypeInv
<1>2. ASSUME NEW n \in Members, NEW p \in Partitions, Holds(g'[n], p)
      PROVE  g'[n].pos[p] = seen[p]
  BY <1>1, <1>2 DEF MarkInv, MarkMove
<1>3. ASSUME NEW p \in Partitions, committed[p] # seen[p]
      PROVE  \E n \in Members : Holds(g'[n], p) /\ g'[n].close \in {"no", "leave"}
  <2>1. PICK n \in Members : Holds(g[n], p) /\ g[n].close \in {"no", "leave"}
    BY <1>3 DEF MarkInv
  <2>2. Holds(g'[n], p) /\ g'[n].close \in {"no", "leave"}
    BY <1>1, <2>1 DEF MarkMove
  <2> QED BY <2>2
<1> QED BY <1>2, <1>3 DEF MarkInv, Holds, Counted

LEMMA LocalStep ==
  ASSUME Good, NEW m \in Members, NEW new, Local(m, new), Member1(new), LocalMove(g[m], new), MarkMove(g[m], new)
  PROVE  Kept
<1>1. committed' \in [Partitions -> 0..LogEnd] /\ seen' \in [Partitions -> 0..LogEnd]
  BY DEF Local, Good, TypeInv
<1>2. Good'
  BY <1>1, MemberStep DEF Local
<1>3. KeepsBeating /\ MarkInv => MarkInv'
  BY MarkStep DEF Local, Good
<1> QED BY <1>2, <1>3 DEF Kept

(* Consume up to the request, and after a failure. *)
LEMMA ConsumeKept ==
  ASSUME Good, NEW m \in Members,
         Consume(m) \/ LockConsume(m) \/ RetryNewSession(m) \/ CannotJoin(m) \/ CannotSync(m)
  PROVE  Kept
<1>0. Member1(g[m])
  BY GoodMember
<1>1. CASE Consume(m)
  BY <1>0, <1>1, LocalStep, CallUpdate DEF Consume
<1>2. CASE LockConsume(m)
  BY <1>0, <1>2, LocalStep, LockUpdate, LockFailsUpdate DEF LockConsume
<1>3. CASE RetryNewSession(m)
  <2>1. CASE Local(m, Returned(g[m]))
    BY <1>0, <1>3, <2>1, LocalStep, ReturnedUpdate DEF RetryNewSession
  <2>2. CASE Local(m, [g[m] EXCEPT !.call = "session", !.retries = @ - 1])
    BY <1>0, <1>3, <2>2, LocalStep, AgainUpdate DEF RetryNewSession
  <2>3. CASE ~(g[m].retries <= 0) /\ Local(m, [g[m] EXCEPT !.retries = @ - 1])
    <3>1. g[m].retries > 0
      BY SMT, <1>0, <2>3 DEF Member1, MemberType
    <3> QED BY <1>0, <1>3, <2>3, <3>1, LocalStep, BackoffAgainUpdate DEF RetryNewSession
  <2> QED BY <1>3, <2>1, <2>2, <2>3 DEF RetryNewSession
<1>4. CASE CannotJoin(m)
  <2>1. g[m].call = "session" /\ (Local(m, Returned(g[m])) \/ Local(m, Retry(g[m])))
    BY <1>4 DEF CannotJoin
  <2> QED BY <1>0, <2>1, LocalStep, ReturnedUpdate, RetryUpdate
<1>5. CASE CannotSync(m)
  BY <1>0, <1>5, LocalStep, ReturnedUpdate DEF CannotSync
<1> QED BY <1>1, <1>2, <1>3, <1>4, <1>5

(* The session's steps, but those that mark or commit. *)
LEMMA SessionKept ==
  ASSUME Good, NEW m \in Members,
         \/ SessionEnds(m) \/ ClaimsEnded(m) \/ Cleanup(m) \/ Released(m) \/ PartitionsChange(m) \/ CancelContext(m)
         \/ \E p \in Partitions : StartClaim(m, p) \/ HandlerReturns(m, p)
  PROVE  Kept
<1>0. Member1(g[m])
  BY GoodMember
<1>1. CASE SessionEnds(m)
  BY <1>0, <1>1, LocalStep, ReleaseUpdate DEF SessionEnds
<1>2. CASE ClaimsEnded(m)
  <2>1. \A p \in Partitions : g[m].claim[p] \in {None, "done"}
    BY <1>2 DEF ClaimsEnded, Claims
  <2> QED BY <1>0, <1>2, <2>1, LocalStep, ClaimsEndedUpdate DEF ClaimsEnded
<1>3. CASE Cleanup(m)
  BY <1>0, <1>3, LocalStep, CleanupUpdate DEF Cleanup
<1>4. CASE Released(m)
  BY <1>0, <1>4, LocalStep, ReleasedUpdate DEF Released
<1>5. CASE PartitionsChange(m)
  BY <1>0, <1>5, LocalStep, CancelUpdate DEF PartitionsChange
<1>6. CASE CancelContext(m)
  BY <1>0, <1>6, LocalStep, ContextUpdate DEF CancelContext
<1>7. ASSUME NEW p \in Partitions, StartClaim(m, p) \/ HandlerReturns(m, p)
      PROVE  Kept
  <2>1. CASE g[m].claim[p] \in {"start", "consume"} /\ EndClaim(m, p)
    BY <1>0, <2>1, LocalStep, EndClaimUpdate DEF EndClaim
  <2>2. CASE g[m].claim[p] = "start" /\ ~g[m].closed /\ Local(m, [g[m] EXCEPT !.claim[p] = "consume"])
    BY <1>0, <2>2, LocalStep, ClaimUpdate
  <2> QED BY <1>7, <2>1, <2>2 DEF StartClaim, HandlerReturns
<1> QED BY <1>1, <1>2, <1>3, <1>4, <1>5, <1>6, <1>7

(* Heartbeats: they end early only where members that are not heard of are *)
(* not removed, with the session, or with the client.                      *)
LEMMA HeartbeatKept ==
  ASSUME Good, NEW m \in Members, HeartbeatStep(m)
  PROVE  Kept
<1> DEFINE k == g[m]
<1>0. Member1(k) /\ Place(group, m, k, inbox[m])
  BY GoodMember
<1>1. ASSUME Local(m, HeartbeatsEnd(k)), k.hb = "beat",
             KeepsBeating /\ k.close # "done" /\ k.call # "stop" => "expire" \notin Faults
      PROVE  Kept
  BY <1>0, <1>1, LocalStep, HeartbeatsEndUpdate
<1>2. k.hb = "beat" => k.call \in Session /\ Accepts(m, k.gen)
  <2>1. k.hb = "beat" => k.call \in Session /\ Counted(k)
    BY <1>0 DEF Member1, Life, Counted
  <2> QED BY <1>0, <2>1 DEF Place, Current, Accepts
<1>3. CASE Heartbeat(m)
  BY <1>0, <1>2, <1>3, LocalStep, BeatUpdate, LastBeatUpdate DEF Heartbeat
<1>4. CASE HeartbeatFails(m)
  <2>1. CASE (k.beats <= 0 \/ Fault("fatal")) /\ Local(m, HeartbeatsEnd(k))
    <3>1. k.close = "done" \/ "heartbeat" \in Faults \/ "fatal" \in Faults
      BY <1>4 DEF HeartbeatFails, Fault
    <3>2. KeepsBeating /\ k.close # "done" => "expire" \notin Faults
      BY <3>1 DEF KeepsBeating
    <3> QED BY <1>1, <1>4, <2>1, <3>2 DEF HeartbeatFails
  <2>2. CASE ~(k.beats <= 0) /\ Local(m, [k EXCEPT !.beats = @ - 1])
    <3>1. k.beats > 0
      BY SMT, <1>0, <2>2 DEF Member1, MemberType
    <3> QED BY <1>0, <2>2, <3>1, LocalStep, MissUpdate
  <2> QED BY <1>4, <2>1, <2>2 DEF HeartbeatFails
<1>5. CASE HeartbeatStops(m)
  <2>1. k.hb = "beat" /\ k.dying /\ Local(m, HeartbeatsEnd(k))
    BY <1>5 DEF HeartbeatStops
  <2>2. k.call = "stop"
    BY <1>0, <1>2, <2>1 DEF Member1, Life
  <2> QED BY <1>1, <2>1, <2>2
<1> QED BY <1>3, <1>4, <1>5 DEF HeartbeatStep

(* Close, as far as the coordinator does not see it, and errors. *)
LEMMA CloseKept ==
  ASSUME Good, NEW m \in Members, Close(m) \/ CloseErrors(m) \/ HandleError(m) \/ ErrorSent(m)
  PROVE  Kept
<1>0. Member1(g[m])
  BY GoodMember
<1>1. CASE Close(m)
  BY <1>0, <1>1, LocalStep, CloseUpdate DEF Close
<1>2. CASE CloseErrors(m)
  BY <1>0, <1>2, LocalStep, ErrorsClosedUpdate DEF CloseErrors
<1>3. CASE HandleError(m)
  BY <1>0, <1>3, LocalStep, ReportUpdate DEF HandleError
<1>4. CASE ErrorSent(m)
  BY <1>0, <1>4, LocalStep, ReportedUpdate DEF ErrorSent
<1> QED BY <1>1, <1>2, <1>3, <1>4

-----------------------------------------------------------------------------
(* The coordinator's steps. *)

(* The whole group after a step of member m and of the coordinator. *)
LEMMA GroupStep ==
  ASSUME Good, NEW m \in Members, NEW new, Member(m, new), Member1(new), MarkMove(g[m], new),
         inbox' \in [Members -> AnswerType], group' \in GroupType, group'.joined \subseteq group'.known,
         committed' = committed, seen' = seen,
         Place(group', m, new, inbox'[m]), \A n \in Members \ {m} : Place(group', n, g[n], inbox'[n])
  PROVE  Kept
<1>1. g'[m] = new /\ \A n \in Members : n # m => g'[n] = g[n]
  BY OneMember DEF Good, TypeInv
<1>2. g' \in [Members -> MemberType] /\ LifeInv'
  BY MembersKept DEF Good
<1>3. TypeInv'
  BY <1>2 DEF Good, TypeInv
<1>4. \A n \in Members : Place(group', n, g'[n], inbox'[n])
  BY <1>1
<1>5. KeepsBeating /\ MarkInv => MarkInv'
  BY MarkStep DEF Good
<1> QED BY <1>2, <1>3, <1>4, <1>5 DEF Good, GroupInv, Kept

(* Nobody's step. *)
LEMMA QuietStep ==
  ASSUME Good, g' = g, inbox' \in [Members -> AnswerType], group' \in GroupType,
         group'.joined \subseteq group'.known, committed' = committed, seen' = seen,
         \A n \in Members : Place(group', n, g[n], inbox'[n])
  PROVE  Kept
<1>1. TypeInv' /\ LifeInv' /\ GroupInv'
  BY DEF Good, TypeInv, LifeInv, GroupInv
<1>2. MarkInv => MarkInv'
  BY DEF MarkInv
<1> QED BY <1>1, <1>2 DEF Good, Kept

LEMMA CompleteJoinKept ==
  ASSUME Good, CompleteJoin
  PROVE  Kept
<1>1. PICK l \in group.known :
        /\ group' = [group EXCEPT !.gen = @ + 1, !.phase = "sync", !.leader = l, !.waiting = {}]
        /\ inbox' = [m \in Members |->
             IF m \in group.joined
             THEN [kind |-> "ok", gen |-> group.gen + 1, leads |-> m = l, claims |-> {}] ELSE inbox[m]]
  BY DEF CompleteJoin
<1>2. /\ group \in GroupType /\ l \in Members /\ group.gen + 1 \in Nat
      /\ group.phase = "join" /\ group.joined = group.known
  BY SMT DEF CompleteJoin, Good, TypeInv, GroupType
<1>3. group' \in GroupType
  BY <1>1, <1>2 DEF GroupType
<1>4. /\ group'.gen = group.gen + 1 /\ group'.phase = "sync" /\ group'.waiting = {}
      /\ group'.known = group.known /\ group'.joined = group.joined
  BY <1>1, <1>2 DEF GroupType
<1>5. inbox' \in [Members -> AnswerType]
  <2>1. ASSUME NEW m \in Members
        PROVE  [kind |-> "ok", gen |-> group.gen + 1, leads |-> m = l, claims |-> {}] \in AnswerType
    BY <1>2 DEF AnswerType
  <2> QED BY <1>1, <2>1 DEF Good, TypeInv
<1>6. ASSUME NEW n \in Members
      PROVE  Place(group', n, g[n], inbox'[n])
  <2>1. IF n \in group.joined THEN inbox'[n].kind = "ok" /\ inbox'[n].gen = group'.gen ELSE inbox'[n] = inbox[n]
    BY <1>1, <1>4
  <2> QED BY <1>2, <1>4, <2>1, GoodMember, PlaceCompleted DEF Member1
<1> QED BY <1>2, <1>3, <1>4, <1>5, <1>6, QuietStep DEF CompleteJoin

LEMMA RejoinType ==
  ASSUME Good
  PROVE  /\ Rejoin(group) \in GroupType /\ Rejoin(group).known = group.known
         /\ Rejoin(group).gen = group.gen /\ Rejoin(group).plan = group.plan
         /\ Rejoin(group).phase = "join" /\ Rejoin(group).waiting = {}
         /\ Rejoin(group).joined = IF group.phase = "join" THEN group.joined ELSE {}
<1>1. group \in GroupType
  BY DEF Good, TypeInv
<1>2. group.phase = "join" => group.waiting = {}
  <2>1. group.waiting \subseteq Members
    BY <1>1 DEF GroupType
  <2> QED BY <2>1, GoodMember DEF Place
<1> QED BY <1>1, <1>2 DEF Rejoin, GroupType

(* A new round, with m or without it. *)
LEMMA RejoinRound ==
  ASSUME Good, NEW m \in Members, inbox' = Interrupted(group.waiting), group' \in GroupType,
         group'.gen = group.gen, group'.plan = group.plan, group'.phase = "join", group'.waiting = {},
         \/ group'.known = group.known \ {m} /\ group'.joined = Rejoin(group).joined \ {m}
         \/ group'.known = group.known \cup {m} /\ group'.joined = Rejoin(group).joined \cup {m}
  PROVE  /\ inbox' \in [Members -> AnswerType] /\ NewRound(group, group', m)
         /\ group'.joined \subseteq group'.known
         /\ \A n \in Members \ {m} : Place(group', n, g[n], inbox'[n])
         /\ m \notin group.waiting => inbox'[m] = inbox[m]
<1>1. group \in GroupType /\ group.joined \subseteq group.known
  BY DEF Good, TypeInv, GroupInv
<1>2. Rejoin(group).joined = IF group.phase = "join" THEN group.joined ELSE {}
  BY RejoinType
<1>3. group'.joined \subseteq group'.known
  BY <1>1, <1>2
<1>4. NewRound(group, group', m)
  BY <1>2 DEF NewRound
<1>5. inbox' \in [Members -> AnswerType]
  <2>1. Answer("again") \in AnswerType
    BY <1>1 DEF Answer, AnswerType, GroupType
  <2> QED BY <2>1 DEF Interrupted, Good, TypeInv
<1>6. ASSUME NEW n \in Members
      PROVE  IF n \in group.waiting THEN inbox'[n].kind = "again" ELSE inbox'[n] = inbox[n]
  BY DEF Interrupted, Answer
<1>7. ASSUME NEW n \in Members \ {m}
      PROVE  Place(group', n, g[n], inbox'[n])
  BY <1>4, <1>6, GoodMember, PlaceNewRound
<1> QED BY <1>3, <1>4, <1>5, <1>6, <1>7

Without(r, m) == [r EXCEPT !.known = @ \ {m}, !.joined = @ \ {m}]

LEMMA WithoutFields ==
  ASSUME NEW r \in GroupType, NEW m, NEW s, s = Without(r, m)
  PROVE  /\ s \in GroupType /\ s.gen = r.gen /\ s.plan = r.plan /\ s.phase = r.phase
         /\ s.waiting = r.waiting /\ s.known = r.known \ {m} /\ s.joined = r.joined \ {m}
<1>1. r.known \ {m} \in SUBSET Members /\ r.joined \ {m} \in SUBSET Members
  BY DEF GroupType
<1>2. s \in GroupType
  BY <1>1 DEF GroupType, Without
<1> QED BY <1>2 DEF GroupType, Without

(* The member that is removed. *)
LEMMA RemovalRound ==
  ASSUME Good, NEW m \in Members, inbox' = Interrupted(group.waiting),
         NEW r, r = Rejoin(group), group' = [r EXCEPT !.known = @ \ {m}, !.joined = @ \ {m}],
         g[m].call \notin {"join", "sync", "syncing"}, g[m].call \in Session => ~Counted(g[m])
  PROVE  /\ group' \in GroupType /\ inbox' \in [Members -> AnswerType]
         /\ group'.joined \subseteq group'.known
         /\ \A n \in Members : Place(group', n, g[n], inbox'[n])
<1>1. r \in GroupType
  BY RejoinType
<1>4. /\ group' \in GroupType
      /\ group'.gen = r.gen /\ group'.plan = r.plan /\ group'.phase = r.phase
      /\ group'.waiting = r.waiting /\ group'.known = r.known \ {m} /\ group'.joined = r.joined \ {m}
  <2>1. group' = Without(r, m)
    BY DEF Without
  <2> QED BY SMT, <1>1, <2>1, WithoutFields
<1>5r. r.gen = group.gen /\ r.plan = group.plan /\ r.phase = "join" /\ r.waiting = {} /\ r.known = group.known
  BY RejoinType
<1>5. /\ inbox' \in [Members -> AnswerType] /\ NewRound(group, group', m)
      /\ group'.joined \subseteq group'.known
      /\ \A n \in Members \ {m} : Place(group', n, g[n], inbox'[n])
      /\ m \notin group.waiting => inbox'[m] = inbox[m]
  BY <1>4, <1>5r, RejoinRound
<1>6. m \notin group'.joined
  BY <1>4
<1>7. Place(group', m, g[m], inbox[m]) /\ m \notin group.waiting
  BY <1>5, <1>6, GoodMember, PlaceRemoved
<1> QED BY <1>4, <1>5, <1>7

LEMMA ExpireKept ==
  ASSUME Good, NEW m \in Members, Expire(m)
  PROVE  Kept
<1>1. Life(g[m])
  BY GoodMember DEF Member1
<1>2. (g[m].hb = "dead" /\ "expire" \in Faults) \/ g[m].call = "idle"
  BY DEF Expire, Gone, Fault
<1>3. g[m].call \notin {"join", "sync", "syncing"} /\ (g[m].call \in Session => ~Counted(g[m]))
  BY <1>1, <1>2 DEF Life, Counted, Session
<1>4. /\ g' = g /\ committed' = committed /\ seen' = seen /\ inbox' = Interrupted(group.waiting)
      /\ group' = [Rejoin(group) EXCEPT !.known = @ \ {m}, !.joined = @ \ {m}]
  BY DEF Expire
<1> QED BY <1>3, <1>4, RemovalRound, QuietStep

LEMMA LeaveKept ==
  ASSUME Good, NEW m \in Members, Leave(m)
  PROVE  Kept
<1>1. Member1(g[m]) /\ g[m].close = "leave" /\ g[m].lock = None
  BY GoodMember DEF Leave
<1> DEFINE k == [g[m] EXCEPT !.close = "errors"]
<1>2. k = [k EXCEPT !.id = g[m].id] /\ k.id = g[m].id /\ g[m].id \in BOOLEAN
  BY <1>1 DEF Member1, MemberType
<1>3. CASE Local(m, [k EXCEPT !.id = FALSE])
  BY <1>1, <1>3, LeftUpdate, LocalStep
<1>4. CASE Local(m, k)
  BY <1>1, <1>2, <1>4, LeftUpdate, LocalStep
<1>5. CASE /\ Member(m, [k EXCEPT !.id = FALSE]) /\ inbox' = Interrupted(group.waiting)
           /\ group' = [Rejoin(group) EXCEPT !.known = @ \ {m}, !.joined = @ \ {m}]
           /\ committed' = committed /\ seen' = seen
  <2>1. g[m].call \in {"idle", "lock"}
    BY <1>1 DEF Member1, Life
  <2>2. g[m].call \notin {"join", "sync", "syncing"} /\ (g[m].call \in Session => ~Counted(g[m]))
    BY <2>1 DEF Session
  <2>3. /\ group' \in GroupType /\ inbox' \in [Members -> AnswerType]
        /\ group'.joined \subseteq group'.known
        /\ \A n \in Members : Place(group', n, g[n], inbox'[n])
    BY <1>5, <2>2, RemovalRound
  <2>4. ASSUME NEW new, new = [k EXCEPT !.id = FALSE]
        PROVE  Member1(new) /\ LocalMove(g[m], new) /\ MarkMove(g[m], new)
    BY <1>1, <2>4, LeftUpdate
  <2>5. Place(group', m, [k EXCEPT !.id = FALSE], inbox'[m])
    BY <2>3, <2>4, PlaceLocal
  <2> HIDE DEF k
  <2> QED BY <1>5, <2>3, <2>4, <2>5, GroupStep
<1> QED BY <1>3, <1>4, <1>5 DEF Leave

LEMMA AnswerOK == Good => \A kind \in {"unknown", "required", "again", "ok"} :
                            /\ Answer(kind) \in AnswerType /\ Answer(kind).kind = kind
                            /\ Answer(kind) # NoAnswer
  BY DEF Good, TypeInv, GroupType, Answer, AnswerType, NoAnswer, None

(* One answer is put in or taken. *)
LEMMA OneAnswer ==
  ASSUME Good, NEW m \in Members, NEW a \in AnswerType, inbox' = [inbox EXCEPT ![m] = a]
  PROVE  /\ inbox' \in [Members -> AnswerType] /\ inbox'[m] = a
         /\ \A n \in Members \ {m} : inbox'[n] = inbox[n]
  BY DEF Good, TypeInv

LEMMA WithPending ==
  ASSUME NEW r \in GroupType, NEW m \in Members, NEW s, s = [r EXCEPT !.pending = @ \cup {m}]
  PROVE  /\ s \in GroupType /\ s.gen = r.gen /\ s.plan = r.plan /\ s.phase = r.phase
         /\ s.waiting = r.waiting /\ s.known = r.known /\ s.joined = r.joined
<1>1. r.pending \cup {m} \in SUBSET Members
  BY DEF GroupType
<1>2. s \in GroupType
  BY <1>1 DEF GroupType
<1> QED BY <1>2 DEF GroupType

With(r, m) == [r EXCEPT !.known = @ \cup {m}, !.pending = @ \ {m}, !.joined = @ \cup {m}]

LEMMA WithFields ==
  ASSUME NEW r \in GroupType, NEW m \in Members, NEW s, s = With(r, m)
  PROVE  /\ s \in GroupType /\ s.gen = r.gen /\ s.plan = r.plan /\ s.phase = r.phase
         /\ s.waiting = r.waiting /\ s.known = r.known \cup {m} /\ s.joined = r.joined \cup {m}
<1>1. /\ r.known \cup {m} \in SUBSET Members /\ r.joined \cup {m} \in SUBSET Members
      /\ r.pending \ {m} \in SUBSET Members
  BY DEF GroupType
<1>2. s \in GroupType
  BY <1>1 DEF GroupType, With
<1> QED BY <1>2 DEF GroupType, With

LEMMA JoinGroupKept ==
  ASSUME Good, NEW m \in Members, JoinGroup(m)
  PROVE  Kept
<1> DEFINE k == g[m]
           sent == [k EXCEPT !.call = "join", !.hb = "off"]
<1>1. /\ Member1(k) /\ Place(group, m, k, inbox[m]) /\ k.call = "session" /\ k.close # "done"
      /\ group \in GroupType /\ group.joined \subseteq group.known
      /\ Member(m, sent) /\ committed' = committed /\ seen' = seen
  BY GoodMember DEF JoinGroup, Good, TypeInv, GroupInv
<1>2. Member1(sent) /\ MarkMove(k, sent) /\ sent.call = "join" /\ sent.close = k.close
  BY <1>1, JoinUpdate
<1> HIDE DEF sent
<1>3. ASSUME NEW b \in AnswerType, b.kind \in {"unknown", "required"}, inbox' = [inbox EXCEPT ![m] = b],
             group' \in GroupType, group'.gen = group.gen, group'.plan = group.plan, group'.phase = group.phase,
             group'.waiting = group.waiting, group'.known = group.known, group'.joined = group.joined
      PROVE  Kept
  <2>1. /\ inbox' \in [Members -> AnswerType] /\ inbox'[m] = b
        /\ \A n \in Members \ {m} : inbox'[n] = inbox[n]
    BY <1>3, OneAnswer
  <2>2. Place(group', m, sent, b)
    BY <1>1, <1>2, <1>3, PlaceTurnedAway
  <2>3. \A n \in Members \ {m} : Place(group', n, g[n], inbox'[n])
    BY <1>3, <2>1, GoodMember, PlaceOthers
  <2>4. group'.joined \subseteq group'.known
    BY <1>1, <1>3
  <2> QED BY <1>1, <1>2, <1>3, <2>1, <2>2, <2>3, <2>4, GroupStep
<1>4. CASE inbox' = [inbox EXCEPT ![m] = Answer("unknown")] /\ group' = group
  BY <1>1, <1>3, <1>4, AnswerOK
<1>5. CASE inbox' = [inbox EXCEPT ![m] = Answer("required")] /\ group' = [group EXCEPT !.pending = @ \cup {m}]
  <2>1. /\ group' \in GroupType /\ group'.gen = group.gen /\ group'.plan = group.plan /\ group'.phase = group.phase
        /\ group'.waiting = group.waiting /\ group'.known = group.known /\ group'.joined = group.joined
    BY <1>1, <1>5, WithPending
  <2> QED BY <1>3, <1>5, <2>1, AnswerOK
<1>6. CASE inbox' = Interrupted(group.waiting) /\ group' = With(Rejoin(group), m)
  <2>1. ASSUME NEW r, r = Rejoin(group)
        PROVE  /\ group' \in GroupType
               /\ group'.gen = group.gen /\ group'.plan = group.plan /\ group'.phase = "join"
               /\ group'.waiting = {} /\ group'.known = group.known \cup {m} /\ group'.joined = r.joined \cup {m}
    <3>1. /\ r \in GroupType /\ r.gen = group.gen /\ r.plan = group.plan /\ r.phase = "join"
          /\ r.waiting = {} /\ r.known = group.known
      BY <2>1, RejoinType
    <3> QED BY SMT, <1>6, <2>1, <3>1, WithFields
  <2>2. /\ inbox' \in [Members -> AnswerType] /\ NewRound(group, group', m)
        /\ group'.joined \subseteq group'.known
        /\ \A n \in Members \ {m} : Place(group', n, g[n], inbox'[n])
        /\ m \notin group.waiting => inbox'[m] = inbox[m]
    BY <1>6, <2>1, RejoinRound
  <2>3. m \in group'.joined
    BY <2>1
  <2>4. Place(group', m, sent, inbox[m]) /\ m \notin group.waiting
    BY <1>1, <1>2, <2>2, <2>3, PlaceJoins
  <2> QED BY <1>1, <1>2, <2>1, <2>2, <2>4, GroupStep
<1> QED BY <1>4, <1>5, <1>6 DEF JoinGroup, With

(* The answer to JoinGroup or SyncGroup is taken. *)
LEMMA TakeStep ==
  ASSUME Good, NEW m \in Members, NEW new, Take(m, new), Member1(new), MarkMove(g[m], new),
         Place(group, m, new, NoAnswer)
  PROVE  Kept
<1>1. NoAnswer \in AnswerType
  BY DEF NoAnswer, AnswerType
<1>2. /\ inbox' \in [Members -> AnswerType] /\ inbox'[m] = NoAnswer
      /\ \A n \in Members \ {m} : inbox'[n] = inbox[n]
  BY <1>1, OneAnswer DEF Take
<1>3. group' \in GroupType /\ group'.joined \subseteq group'.known
  BY DEF Take, Good, TypeInv, GroupInv
<1>4. \A n \in Members \ {m} : Place(group', n, g[n], inbox'[n])
  BY <1>2, GoodMember DEF Take
<1> QED BY <1>2, <1>3, <1>4, GroupStep DEF Take

LEMMA AnswerKept ==
  ASSUME Good, NEW m \in Members, JoinAnswered(m) \/ SyncAnswered(m)
  PROVE  Kept
<1> DEFINE k == g[m]
           a == inbox[m]
<1>1. /\ Member1(k) /\ Life(k) /\ Place(group, m, k, a) /\ k.call \in {"join", "syncing"} /\ a # NoAnswer
      /\ a \in AnswerType
  BY GoodMember DEF JoinAnswered, SyncAnswered, Member1
<1>3. CASE k.call = "join" /\ a.kind = "ok" /\ Take(m, JoinedBy(k, a))
  <2>1. ASSUME NEW new, new = JoinedBy(k, a)
        PROVE  /\ Member1(new) /\ MarkMove(k, new)
               /\ new.call = "sync" /\ new.gen = a.gen /\ new.close = k.close
    BY SMT, <1>1, <1>3, <2>1, JoinedUpdate
  <2>2. Place(group, m, JoinedBy(k, a), NoAnswer)
    BY <1>1, <1>3, <2>1, PlaceJoined
  <2> QED BY <1>3, <2>1, <2>2, TakeStep
<1>4. CASE k.call = "syncing" /\ a.kind = "ok" /\ Take(m, BegunBy(k, a))
  <2>1. ASSUME NEW new, new = BegunBy(k, a)
        PROVE  /\ Member1(new) /\ MarkMove(k, new)
               /\ new.call = "start" /\ new.hb = "beat" /\ new.gen = k.gen /\ new.close = k.close
               /\ \A p \in Partitions : new.claim[p] # None => p \in a.claims
    BY SMT, <1>1, <1>4, <2>1, BegunUpdate
  <2>2. Place(group, m, BegunBy(k, a), NoAnswer)
    BY <1>1, <1>4, <2>1, PlaceBegun
  <2> QED BY <1>4, <2>1, <2>2, TakeStep
<1>5. ASSUME NEW new, Take(m, new), Member1(new), MarkMove(k, new), new.call \in Outside, new.close = k.close
      PROVE  Kept
  <2>1. Place(group, m, new, NoAnswer)
    BY <1>1, <1>5, PlaceAnswered
  <2> QED BY <1>5, <2>1, TakeStep
<1>6. CASE a.kind # "ok" /\ Take(m, Answered(k, a))
  <2>1. a.kind \in {"unknown", "required", "again"}
    <3>1. a.kind # None
      BY <1>1 DEF Place
    <3> QED BY <1>1, <1>6, <3>1 DEF AnswerType
  <2> HIDE DEF k, a
  <2>2. ASSUME NEW new, new = Answered(k, a)
        PROVE  Member1(new) /\ MarkMove(k, new) /\ new.call \in Outside /\ new.close = k.close
    BY SMT, <1>1, <2>1, <2>2, AnsweredUpdate
  <2> QED BY <1>5, <1>6, <2>2
<1>7. CASE Take(m, Retry(k))
  BY <1>1, <1>5, <1>7, RetryAnswerUpdate
<1>8. CASE Take(m, Returned(k))
  BY <1>1, <1>5, <1>8, RefusedUpdate
<1> QED BY <1>3, <1>4, <1>6, <1>7, <1>8 DEF JoinAnswered, SyncAnswered, JoinedBy, BegunBy

Waits(r, m) == [r EXCEPT !.waiting = @ \cup {m}]

Planned(r, plan) == [r EXCEPT !.phase = "stable", !.plan = plan, !.waiting = {}]

Unwaits(r, m) == [r EXCEPT !.waiting = @ \ {m}]

LEMMA WaitingFields ==
  ASSUME NEW r \in GroupType, NEW m \in Members, NEW s, s = Waits(r, m) \/ s = Unwaits(r, m)
  PROVE  /\ s \in GroupType /\ s.gen = r.gen /\ s.plan = r.plan /\ s.phase = r.phase
         /\ s.known = r.known /\ s.joined = r.joined
         /\ s = Waits(r, m) => s.waiting = r.waiting \cup {m}
         /\ s = Unwaits(r, m) => s.waiting = r.waiting \ {m}
<1>1. r.waiting \cup {m} \in SUBSET Members /\ r.waiting \ {m} \in SUBSET Members
  BY DEF GroupType
<1>2. s \in GroupType
  BY <1>1 DEF GroupType, Waits, Unwaits
<1>3. CASE s = Waits(r, m)
  <2>1. r.waiting \cup {m} = s.waiting
    BY <1>3 DEF GroupType, Waits
  <2>2. s = Unwaits(r, m) => s.waiting = r.waiting \ {m}
    BY <1>2 DEF GroupType, Unwaits
  <2>3. s.gen = r.gen /\ s.plan = r.plan /\ s.phase = r.phase /\ s.known = r.known /\ s.joined = r.joined
    BY <1>3 DEF GroupType, Waits
  <2> QED BY <1>2, <2>1, <2>2, <2>3
<1>4. CASE s = Unwaits(r, m)
  <2>1. r.waiting \ {m} = s.waiting
    BY <1>4 DEF GroupType, Unwaits
  <2>2. s = Waits(r, m) => s.waiting = r.waiting \cup {m}
    BY <1>2 DEF GroupType, Waits
  <2>3. s.gen = r.gen /\ s.plan = r.plan /\ s.phase = r.phase /\ s.known = r.known /\ s.joined = r.joined
    BY <1>4 DEF GroupType, Unwaits
  <2> QED BY <1>2, <2>1, <2>2, <2>3
<1> QED BY <1>3, <1>4

LEMMA PlannedFields ==
  ASSUME NEW r \in GroupType, NEW plan \in [Partitions -> Members \cup {None}], NEW s, s = Planned(r, plan)
  PROVE  /\ s \in GroupType /\ s.gen = r.gen /\ s.plan = plan /\ s.phase = "stable"
         /\ s.known = r.known /\ s.joined = r.joined /\ s.waiting = {}
<1>1. {} \in SUBSET Members
  OBVIOUS
<1>2. s \in GroupType
  BY <1>1 DEF GroupType, Planned
<1> QED BY <1>2 DEF GroupType, Planned

(* A member's share of a plan. *)
Share(plan, n) == [Answer("ok") EXCEPT !.claims = {p \in Partitions : plan[p] = n}]

LEMMA ShareOK ==
  ASSUME Good, NEW plan, NEW n
  PROVE  /\ Share(plan, n) \in AnswerType /\ Share(plan, n).kind = "ok" /\ Share(plan, n) # NoAnswer
         /\ \A p \in Share(plan, n).claims : plan[p] = n
<1>1. Answer("ok") \in AnswerType /\ Answer("ok").kind = "ok"
  BY AnswerOK
<1>2. ASSUME NEW a \in AnswerType, NEW c \in SUBSET Partitions, a.kind = "ok"
      PROVE  /\ [a EXCEPT !.claims = c] \in AnswerType
             /\ [a EXCEPT !.claims = c].kind = "ok" /\ [a EXCEPT !.claims = c].claims = c
  BY <1>2 DEF AnswerType
<1>3. {p \in Partitions : plan[p] = n} \in SUBSET Partitions
  OBVIOUS
<1>4. /\ Share(plan, n) \in AnswerType /\ Share(plan, n).kind = "ok"
      /\ Share(plan, n).claims = {p \in Partitions : plan[p] = n}
  BY <1>1, <1>2, <1>3 DEF Share
<1> QED BY SMT, <1>4 DEF NoAnswer, None

LEMMA SyncGroupKept ==
  ASSUME Good, NEW m \in Members, SyncGroup(m)
  PROVE  Kept
<1> DEFINE k == g[m]
           sent == [k EXCEPT !.call = "syncing"]
<1>1. /\ Member1(k) /\ Place(group, m, k, inbox[m]) /\ k.call = "sync" /\ k.close # "done"
      /\ group \in GroupType /\ group.joined \subseteq group.known
      /\ Member(m, sent) /\ committed' = committed /\ seen' = seen
  BY GoodMember DEF SyncGroup, Good, TypeInv, GroupInv
<1>2. Member1(sent) /\ MarkMove(k, sent) /\ sent.call = "syncing" /\ sent.gen = k.gen /\ sent.close = k.close
  BY <1>1, SyncingUpdate
<1> HIDE DEF sent
<1>3. ASSUME NEW b \in AnswerType, b # NoAnswer, b.kind # None,
             b.kind = "ok" => group.phase # "sync" /\ \A p \in b.claims : group.plan[p] = m,
             inbox' = [inbox EXCEPT ![m] = b], group' = group
      PROVE  Kept
  <2>1. /\ inbox' \in [Members -> AnswerType] /\ inbox'[m] = b
        /\ \A n \in Members \ {m} : inbox'[n] = inbox[n]
    BY <1>3, OneAnswer
  <2>2. Place(group', m, sent, b)
    BY <1>1, <1>2, <1>3, PlaceSyncs
  <2>3. \A n \in Members \ {m} : Place(group', n, g[n], inbox'[n])
    BY <1>3, <2>1, GoodMember
  <2> QED BY <1>1, <1>2, <1>3, <2>1, <2>2, <2>3, GroupStep
<1>4. ASSUME NEW kind \in {"unknown", "again"}, inbox' = [inbox EXCEPT ![m] = Answer(kind)], group' = group
      PROVE  Kept
  <2>1. /\ Answer(kind) \in AnswerType /\ Answer(kind) # NoAnswer
        /\ Answer(kind).kind # None /\ Answer(kind).kind # "ok"
    BY <1>4, AnswerOK DEF None
  <2> QED BY <1>3, <1>4, <2>1
<1>5. CASE group.phase = "stable" /\ inbox' = [inbox EXCEPT ![m] = Share(group.plan, m)] /\ group' = group
  <2>1. /\ Share(group.plan, m) \in AnswerType /\ Share(group.plan, m) # NoAnswer
        /\ Share(group.plan, m).kind # None /\ \A p \in Share(group.plan, m).claims : group.plan[p] = m
    BY ShareOK DEF None
  <2>2. group.phase # "sync"
    BY <1>5
  <2> QED BY <1>3, <1>5, <2>1, <2>2
<1>6. CASE group.phase = "sync" /\ group' = Waits(group, m) /\ inbox' = inbox
  <2>1. /\ group' \in GroupType /\ group'.gen = group.gen /\ group'.plan = group.plan /\ group'.phase = group.phase
        /\ group'.known = group.known /\ group'.joined = group.joined /\ group'.waiting = group.waiting \cup {m}
    BY SMT, <1>1, <1>6, WaitingFields
  <2>2. Place(group', m, sent, inbox[m])
    BY <1>1, <1>2, <1>6, <2>1, PlaceWaits
  <2>3. ASSUME NEW n \in Members \ {m}
        PROVE  Place(group', n, g[n], inbox'[n])
    <3>1. n \in group'.waiting <=> n \in group.waiting
      BY <2>1
    <3> QED BY <1>6, <2>1, <3>1, GoodMember, PlaceOthers
  <2>4. inbox' \in [Members -> AnswerType] /\ group'.joined \subseteq group'.known
    BY <1>1, <1>6, <2>1 DEF Good, TypeInv
  <2> QED BY <1>1, <1>2, <1>6, <2>1, <2>2, <2>3, <2>4, GroupStep
<1>7. ASSUME group.phase = "sync", NEW plan \in [Partitions -> group.joined], group' = Planned(group, plan),
             inbox' = [n \in Members |-> IF n = m \/ n \in group.waiting THEN Share(plan, n) ELSE inbox[n]]
      PROVE  Kept
  <2>0. plan \in [Partitions -> Members \cup {None}]
    BY <1>1, <1>7 DEF GroupType
  <2>1. /\ group' \in GroupType /\ group'.gen = group.gen /\ group'.plan = plan /\ group'.phase = "stable"
        /\ group'.known = group.known /\ group'.joined = group.joined /\ group'.waiting = {}
    BY SMT, <1>1, <1>7, <2>0, PlannedFields
  <2>2. inbox' \in [Members -> AnswerType]
    BY <1>7, ShareOK DEF Good, TypeInv
  <2>3. Place(group', m, sent, inbox'[m])
    <3>1. inbox'[m].kind = "ok" /\ \A p \in inbox'[m].claims : group'.plan[p] = m
      BY SMT, <1>7, <2>1, ShareOK
    <3> QED BY SMT, <1>1, <1>2, <1>7, <2>1, <3>1, PlaceLeads
  <2>4. ASSUME NEW n \in Members \ {m}
        PROVE  Place(group', n, g[n], inbox'[n])
    <3>1. IF n \in group.waiting
          THEN inbox'[n].kind = "ok" /\ \A p \in inbox'[n].claims : group'.plan[p] = n ELSE inbox'[n] = inbox[n]
      BY SMT, <1>7, <2>1, ShareOK
    <3> QED BY <1>7, <2>1, <3>1, GoodMember, PlacePlanned
  <2>5. group'.joined \subseteq group'.known
    BY <1>1, <2>1
  <2> QED BY <1>1, <1>2, <2>1, <2>2, <2>3, <2>4, <2>5, GroupStep
<1>8. \/ \E kind \in {"unknown", "again"} : inbox' = [inbox EXCEPT ![m] = Answer(kind)] /\ group' = group
      \/ group.phase = "stable" /\ inbox' = [inbox EXCEPT ![m] = Share(group.plan, m)] /\ group' = group
      \/ group.phase = "sync" /\ group' = Waits(group, m) /\ inbox' = inbox
      \/ /\ group.phase = "sync"
         /\ \E plan \in [Partitions -> group.joined] :
              /\ group' = Planned(group, plan)
              /\ inbox' = [n \in Members |-> IF n = m \/ n \in group.waiting THEN Share(plan, n) ELSE inbox[n]]
  BY DEF SyncGroup, Share, Waits, Planned
<1> QED BY <1>4, <1>5, <1>6, <1>7, <1>8

LEMMA CloseClientKept ==
  ASSUME Good, NEW m \in Members, CloseClient(m)
  PROVE  Kept
<1> DEFINE k == g[m]
<1>1. /\ Member1(k) /\ Place(group, m, k, inbox[m]) /\ k.close = "client"
      /\ group \in GroupType /\ group.joined \subseteq group.known
      /\ committed' = committed /\ seen' = seen /\ inbox' = [inbox EXCEPT ![m] = NoAnswer]
  BY GoodMember DEF CloseClient, Good, TypeInv, GroupInv
<1>2. group' = Unwaits(group, m)
  BY DEF CloseClient, Unwaits
<1>3. /\ group' \in GroupType /\ group'.gen = group.gen /\ group'.plan = group.plan /\ group'.phase = group.phase
      /\ group'.known = group.known /\ group'.joined = group.joined /\ group'.waiting = group.waiting \ {m}
  BY SMT, <1>1, <1>2, WaitingFields
<1>4. NoAnswer \in AnswerType
  BY DEF NoAnswer, AnswerType
<1>5. /\ inbox' \in [Members -> AnswerType] /\ inbox'[m] = NoAnswer
      /\ \A n \in Members \ {m} : inbox'[n] = inbox[n]
  BY <1>1, <1>4, OneAnswer
<1>6. ASSUME NEW n \in Members \ {m}
      PROVE  Place(group', n, g[n], inbox'[n])
  <2>1. n \in group'.waiting <=> n \in group.waiting
    BY <1>3
  <2>2. Place(group', n, g[n], inbox[n])
    BY <1>3, <2>1, GoodMember, PlaceOthers
  <2> QED BY <1>5, <2>2
<1>7. ASSUME NEW new, Member(m, new), Member1(new), MarkMove(k, new), new.close = "done",
             \/ new.call = "idle"
             \/ k.call \notin {"join", "syncing"} /\ new.call = k.call /\ new.gen = k.gen /\ new.hb = k.hb /\ new.claim = k.claim
      PROVE  Kept
  <2>1. m \notin group'.waiting /\ group'.joined \subseteq group'.known
    BY <1>1, <1>3
  <2>2. Place(group', m, new, NoAnswer)
    BY <1>1, <1>3, <1>7, <2>1, PlaceClosed
  <2> QED BY <1>1, <1>3, <1>5, <1>6, <1>7, <2>1, <2>2, GroupStep
<1>8. CASE k.call \in {"join", "syncing"} /\ Member(m, [Returned(k) EXCEPT !.close = "done"])
  BY <1>1, <1>7, <1>8, CallClosedUpdate
<1>9. CASE k.call \notin {"join", "syncing"} /\ Member(m, [k EXCEPT !.close = "done"])
  BY <1>1, <1>7, <1>9, ClientClosedUpdate
<1> QED BY <1>8, <1>9 DEF CloseClient

-----------------------------------------------------------------------------
(* Marks and commits. *)

(* Who holds a partition has it by the plan, alone. *)
LEMMA HoldsAlone ==
  ASSUME Good, NEW m \in Members, NEW p \in Partitions,
         g[m].call \in Session, Counted(g[m]), g[m].claim[p] # None
  PROVE  group.plan[p] = m
  BY GoodMember DEF Place

LEMMA CountedMember ==
  ASSUME Good, KeepsBeating, NEW m \in Members, g[m].call \in Session \ {"stop"}, g[m].close # "done"
  PROVE  Counted(g[m]) /\ Accepts(m, g[m].gen)
<1>1. Counted(g[m])
  BY GoodMember DEF Place
<1>2. g[m].call \in Session
  BY DEF Session
<1> QED BY <1>1, <1>2, GoodMember DEF Place, Current, Accepts

(* A session starts at the committed offsets, which nobody else changes. *)
LEMMA NewSessionKept ==
  ASSUME Good, NEW m \in Members, NewSession(m)
  PROVE  Kept
<1> DEFINE pos == [p \in Partitions |-> IF p \in Claims(g[m]) THEN committed[p] ELSE 0]
           k == [g[m] EXCEPT !.pos = pos]
<1>1. pos \in [Partitions -> 0..LogEnd]
  BY SMT, GroupConstants DEF Good, TypeInv
<1>2. Member1(g[m]) /\ g[m].call = "start"
  <2>1. Member1(g[m])
    BY GoodMember
  <2>2. k.call = "start"
    BY DEF NewSession
  <2> QED BY <2>1, <2>2 DEF Member1, MemberType
<1>3. /\ Member1(k) /\ LocalMove(g[m], k) /\ k.call = "start" /\ k.pos = pos /\ k.hb = g[m].hb
      /\ k.close = g[m].close /\ k.claim = g[m].claim
  <2> HIDE DEF pos
  <2> QED BY SMT, <1>1, <1>2, SetupUpdate
<1>4. ASSUME NEW new, Local(m, new), Member1(new), LocalMove(k, new), new.call \in Marking, new.hb = k.hb,
             new.pos = k.pos, \A p \in Partitions : new.claim[p] # None => k.claim[p] # None
      PROVE  Kept
  <2>1. LocalMove(g[m], new)
    BY <1>2, <1>3, <1>4 DEF LocalMove, Outside
  <2>2. Good'
    BY <1>4, <2>1, MemberStep DEF Local, Good, TypeInv
  <2>3. g'[m] = new /\ \A n \in Members : n # m => g'[n] = g[n]
    BY <1>4, OneMember DEF Local, Good, TypeInv
  <2>4. ASSUME KeepsBeating, MarkInv
        PROVE  MarkInv'
    <3>1. ASSUME NEW n \in Members, NEW p \in Partitions, Holds(g'[n], p)
          PROVE  g'[n].pos[p] = seen[p]
      <4>1. CASE n # m
        BY <2>3, <2>4, <3>1, <4>1 DEF MarkInv
      <4>2. CASE n = m
        <5>1. Counted(g[m]) /\ g[m].claim[p] # None /\ g[m].call \in Session
          BY <1>2, <1>3, <1>4, <2>3, <3>1, <4>2 DEF Holds, Counted, Session
        <5>2. group.plan[p] = m
          BY <5>1, HoldsAlone
        <5>3. ASSUME NEW o \in Members, Holds(g[o], p)
              PROVE  FALSE
          <6>1. group.plan[p] = o
            BY <5>3, HoldsAlone DEF Holds, Marking, Session
          <6> QED BY <1>2, <5>2, <5>3, <6>1 DEF Holds, Marking
        <5>4. committed[p] = seen[p]
          BY <2>4, <5>3 DEF MarkInv
        <5>5. pos[p] = committed[p]
          BY <5>1 DEF Claims
        <5> HIDE DEF pos, k
        <5> QED BY <1>3, <1>4, <2>3, <4>2, <5>4, <5>5
      <4> QED BY <4>1, <4>2
    <3>2. ASSUME NEW p \in Partitions, committed[p] # seen[p]
          PROVE  \E n \in Members : Holds(g'[n], p) /\ g'[n].close \in {"no", "leave"}
      <4>1. PICK n \in Members : Holds(g[n], p) /\ g[n].close \in {"no", "leave"}
        BY <2>4, <3>2 DEF MarkInv
      <4>2. n # m
        BY <1>2, <4>1 DEF Holds, Marking
      <4> QED BY <2>3, <4>1, <4>2
    <3> QED BY <1>4, <3>1, <3>2 DEF MarkInv, Holds, Counted, Local
  <2> QED BY <2>2, <2>4 DEF Kept
<1>5. CASE Local(m, [k EXCEPT !.call = "run",
                       !.claim = [p \in Partitions |-> IF p \in Claims(k) THEN "start" ELSE None]])
  <2> HIDE DEF k
  <2> QED BY <1>3, <1>4, <1>5, RunUpdate
<1>6. ASSUME NEW b \in BOOLEAN,
             Local(m, Release([k EXCEPT !.claim = [p \in Partitions |-> IF p \in Claims(k) THEN "done" ELSE None]], b))
      PROVE  Kept
  <2> HIDE DEF k
  <2> QED BY <1>3, <1>4, <1>6, NotRunUpdate
<1> QED BY <1>5, <1>6 DEF NewSession

LEMMA ProcessKept ==
  ASSUME Good, NEW m \in Members, NEW p \in Partitions, Process(m, p)
  PROVE  Kept
<1> DEFINE k == g[m]
           new == MarkedAt(k, p)
<1>1. /\ Member1(k) /\ k.claim[p] = "consume" /\ k.pos[p] < LogEnd /\ Member(m, new)
      /\ seen' = [seen EXCEPT ![p] = IF k.pos[p] + 1 > @ THEN k.pos[p] + 1 ELSE @]
      /\ inbox' = inbox /\ group' = group /\ committed' = committed
  BY GoodMember DEF Process, MarkedAt
<1>2. /\ Member1(new) /\ LocalMove(k, new) /\ new.call = k.call /\ new.hb = k.hb /\ new.close = k.close
      /\ new.claim = k.claim /\ new.pos = [k.pos EXCEPT ![p] = k.pos[p] + 1]
  BY SMT, <1>1, ProcessUpdate
<1> HIDE DEF new
<1>3. k.call \in {"run", "wait"} /\ k.close \in {"no", "leave"} /\ k.claim[p] # None
  BY <1>1 DEF Member1, Life, None
<1>4. k.pos \in [Partitions -> 0..LogEnd] /\ seen \in [Partitions -> 0..LogEnd]
  BY <1>1 DEF Member1, MemberType, Good, TypeInv
<1>5. seen' \in [Partitions -> 0..LogEnd] /\ committed' \in [Partitions -> 0..LogEnd]
  <2>1. k.pos[p] + 1 \in 0..LogEnd
    BY SMT, <1>1, <1>4, GroupConstants
  <2>2. committed' \in [Partitions -> 0..LogEnd]
    BY <1>1 DEF Good, TypeInv
  <2> QED BY <1>1, <1>4, <2>1, <2>2
<1>6. Good'
  BY <1>1, <1>2, <1>5, MemberStep
<1>7. g'[m] = new /\ \A n \in Members : n # m => g'[n] = g[n]
  BY <1>1, OneMember DEF Good, TypeInv
<1>8. ASSUME KeepsBeating, MarkInv
      PROVE  MarkInv'
  <2>1. Counted(k)
    BY <1>3, <1>8, CountedMember DEF Session
  <2>2. Holds(k, p) /\ Holds(new, p) /\ group.plan[p] = m
    BY <1>2, <1>3, <2>1, HoldsAlone DEF Holds, Marking, Session, Counted
  <2>3. k.pos[p] = seen[p]
    BY <1>8, <2>2 DEF MarkInv
  <2>4. new.pos[p] = seen[p] + 1 /\ seen'[p] = seen[p] + 1 /\ \A q \in Partitions : q # p => new.pos[q] = k.pos[q] /\ seen'[q] = seen[q]
    BY SMT, <1>1, <1>2, <1>4, <2>3
  <2>5. \A q \in Partitions : Holds(new, q) <=> Holds(k, q)
    BY <1>2 DEF Holds, Counted
  <2>6. ASSUME NEW n \in Members, NEW q \in Partitions, Holds(g'[n], q)
        PROVE  g'[n].pos[q] = seen'[q]
    <3>1. CASE n = m
      BY <1>7, <1>8, <2>4, <2>5, <2>6, <3>1 DEF MarkInv
    <3>2. CASE n # m
      <4>1. Holds(g[n], q) /\ g'[n].pos[q] = seen[q]
        BY <1>7, <1>8, <2>6, <3>2 DEF MarkInv
      <4>2. group.plan[q] = n
        BY <4>1, HoldsAlone DEF Holds, Marking, Session
      <4> QED BY <2>2, <2>4, <3>2, <4>1, <4>2
    <3> QED BY <3>1, <3>2
  <2>7. ASSUME NEW q \in Partitions, committed[q] # seen'[q]
        PROVE  \E n \in Members : Holds(g'[n], q) /\ g'[n].close \in {"no", "leave"}
    <3>1. CASE q = p
      BY <1>2, <1>3, <1>7, <2>2, <3>1
    <3>2. CASE q # p
      <4>1. PICK n \in Members : Holds(g[n], q) /\ g[n].close \in {"no", "leave"}
        BY <1>8, <2>4, <2>7, <3>2 DEF MarkInv
      <4> QED BY <1>2, <1>7, <2>5, <4>1
    <3> QED BY <3>1, <3>2
  <2> QED BY <1>1, <2>6, <2>7 DEF MarkInv, Holds, Counted
<1> QED BY <1>6, <1>8 DEF Kept

(* A member whose session counts commits where the partition has been      *)
(* processed up to.                                                        *)
LEMMA CommitsMarks ==
  ASSUME Good, KeepsBeating, MarkInv, NEW m \in Members, g[m].call \in Marking, g[m].close # "done",
         CommitOffsets(m)
  PROVE  \A p \in Partitions : committed'[p] = IF g[m].claim[p] # None THEN seen[p] ELSE committed[p]
<1>1. g[m].call \in Session \ {"stop"}
  BY DEF Marking, Session
<1>2. Counted(g[m]) /\ Accepts(m, g[m].gen)
  BY <1>1, CountedMember
<1>3. ASSUME NEW p \in Partitions, g[m].claim[p] # None
      PROVE  g[m].pos[p] = seen[p]
  BY <1>2, <1>3 DEF MarkInv, Holds
<1> QED BY <1>2, <1>3 DEF CommitOffsets, Claims

LEMMA CommitType ==
  ASSUME Good, NEW m \in Members, CommitOffsets(m)
  PROVE  committed' \in [Partitions -> 0..LogEnd]
<1>1. g[m].pos \in [Partitions -> 0..LogEnd] /\ committed \in [Partitions -> 0..LogEnd]
  BY GoodMember DEF Member1, MemberType, Good, TypeInv
<1> QED BY <1>1 DEF CommitOffsets

LEMMA AutoCommitKept ==
  ASSUME Good, NEW m \in Members, SessionAutoCommit(m)
  PROVE  Kept
<1> DEFINE k == g[m]
<1>1. /\ Member1(k) /\ k.call \in {"run", "wait", "cleanup"} /\ k.close # "done" /\ CommitOffsets(m)
      /\ inbox' = inbox /\ group' = group /\ seen' = seen
      /\ Member(m, IF Accepts(m, k.gen) THEN k ELSE Cancel(k))
  BY GoodMember DEF SessionAutoCommit
<1>2. committed' \in [Partitions -> 0..LogEnd] /\ seen' \in [Partitions -> 0..LogEnd]
  BY <1>1, CommitType DEF Good, TypeInv
<1>3. LocalMove(k, k)
  BY DEF LocalMove
<1>4. ASSUME NEW new, new = Cancel(k)
      PROVE  Member1(new) /\ LocalMove(k, new)
  BY <1>1, <1>4, CancelUpdate
<1>5. Good'
  BY <1>1, <1>2, <1>3, <1>4, MemberStep
<1>6. ASSUME KeepsBeating, MarkInv
      PROVE  MarkInv'
  <2>1. k.call \in Marking /\ k.call \in Session \ {"stop"}
    BY <1>1 DEF Marking, Session
  <2>2. g' = [g EXCEPT ![m] = g[m]]
    BY <1>1, <1>6, <2>1, CountedMember DEF Member
  <2>3. g' = g
    BY <2>2 DEF Good, TypeInv
  <2>4. \A p \in Partitions : committed'[p] = IF k.claim[p] # None THEN seen[p] ELSE committed[p]
    BY <1>1, <1>6, <2>1, CommitsMarks
  <2>5. \A n \in Members, p \in Partitions : Holds(g[n], p) => g[n].pos[p] = seen[p]
    BY <1>6 DEF MarkInv
  <2>6. ASSUME NEW p \in Partitions
        PROVE  committed'[p] = seen[p] \/ \E n \in Members : Holds(g[n], p) /\ g[n].close \in {"no", "leave"}
    BY <1>6, <2>4 DEF MarkInv
  <2> QED BY <1>1, <2>3, <2>5, <2>6 DEF MarkInv, Holds, Counted
<1> QED BY <1>5, <1>6 DEF Kept

LEMMA CloseOffsetsKept ==
  ASSUME Good, NEW m \in Members, CloseOffsets(m)
  PROVE  Kept
<1> DEFINE k == g[m]
           new == [k EXCEPT !.call = "stop", !.dying = TRUE]
<1>1. /\ Member1(k) /\ k.call = "commit" /\ Member(m, new) /\ inbox' = inbox /\ group' = group /\ seen' = seen
      /\ \/ CommitOffsets(m) /\ k.close # "done"
         \/ committed' = committed /\ (k.close = "done" \/ "commit" \in Faults)
  BY GoodMember DEF CloseOffsets, Fault
<1>2. Member1(new) /\ LocalMove(k, new) /\ new.call = "stop"
  BY <1>1, StopUpdate
<1> HIDE DEF new
<1>3. committed' \in [Partitions -> 0..LogEnd] /\ seen' \in [Partitions -> 0..LogEnd]
  BY <1>1, CommitType DEF Good, TypeInv
<1>4. Good'
  BY <1>1, <1>2, <1>3, MemberStep
<1>5. g'[m] = new /\ \A n \in Members : n # m => g'[n] = g[n]
  BY <1>1, OneMember DEF Good, TypeInv
<1>6. ASSUME KeepsBeating, "commit" \notin Faults, MarkInv
      PROVE  MarkInv'
  <2>1. ASSUME NEW p \in Partitions PROVE ~Holds(new, p)
    BY <1>2 DEF Holds, Marking
  <2>2. ASSUME NEW n \in Members, NEW p \in Partitions, Holds(g'[n], p)
        PROVE  g'[n].pos[p] = seen[p]
    BY <1>5, <1>6, <2>1, <2>2 DEF MarkInv
  <2>3. ASSUME NEW p \in Partitions, committed'[p] # seen[p]
        PROVE  \E n \in Members : Holds(g'[n], p) /\ g'[n].close \in {"no", "leave"}
    <3>1. committed[p] # seen[p] /\ (k.close = "done" \/ ~Holds(k, p))
      <4>1. CASE CommitOffsets(m) /\ k.close # "done"
        <5>1. k.call \in Marking
          BY <1>1 DEF Marking
        <5>2. committed'[p] = IF k.claim[p] # None THEN seen[p] ELSE committed[p]
          BY <1>6, <4>1, <5>1, CommitsMarks
        <5> QED BY <2>3, <5>2 DEF Holds
      <4>2. CASE committed' = committed /\ k.close = "done"
        BY <2>3, <4>2
      <4> QED BY <1>1, <1>6, <4>1, <4>2
    <3>2. PICK n \in Members : Holds(g[n], p) /\ g[n].close \in {"no", "leave"}
      BY <1>6, <3>1 DEF MarkInv
    <3>3. n # m
      BY <3>1, <3>2
    <3> QED BY <1>5, <3>2, <3>3
  <2> QED BY <1>1, <2>2, <2>3 DEF MarkInv, Holds, Counted
<1> QED BY <1>4, <1>6 DEF Kept

-----------------------------------------------------------------------------
(* The theorems. *)

LEMMA StutterKept ==
  ASSUME Good, UNCHANGED vars
  PROVE  Kept
<1>1. Good'
  BY DEF Good, TypeInv, LifeInv, GroupInv, vars
<1>2. MarkInv => MarkInv'
  BY DEF MarkInv, vars
<1> QED BY <1>1, <1>2 DEF Kept

LEMMA NextKept ==
  ASSUME Good, [Next]_vars
  PROVE  Kept
<1>1. CASE CompleteJoin
  BY <1>1, CompleteJoinKept
<1>2. ASSUME NEW m \in Members,
             \/ Consume(m) \/ LockConsume(m) \/ RetryNewSession(m) \/ CannotJoin(m) \/ CannotSync(m)
      PROVE  Kept
  BY <1>2, ConsumeKept
<1>3. ASSUME NEW m \in Members,
             \/ JoinGroup(m) \/ JoinAnswered(m) \/ SyncGroup(m) \/ SyncAnswered(m) \/ Leave(m) \/ CloseClient(m)
             \/ Expire(m)
      PROVE  Kept
  BY <1>3, JoinGroupKept, AnswerKept, SyncGroupKept, LeaveKept, CloseClientKept, ExpireKept
<1>4. ASSUME NEW m \in Members,
             \/ SessionEnds(m) \/ ClaimsEnded(m) \/ Cleanup(m) \/ Released(m) \/ PartitionsChange(m)
             \/ CancelContext(m) \/ \E p \in Partitions : StartClaim(m, p) \/ HandlerReturns(m, p)
      PROVE  Kept
  BY <1>4, SessionKept
<1>5. ASSUME NEW m \in Members,
             \/ NewSession(m) \/ SessionAutoCommit(m) \/ CloseOffsets(m) \/ \E p \in Partitions : Process(m, p)
      PROVE  Kept
  BY <1>5, NewSessionKept, AutoCommitKept, CloseOffsetsKept, ProcessKept
<1>6. ASSUME NEW m \in Members,
             HeartbeatStep(m) \/ Close(m) \/ CloseErrors(m) \/ HandleError(m) \/ ErrorSent(m)
      PROVE  Kept
  BY <1>6, HeartbeatKept, CloseKept
<1>7. CASE UNCHANGED vars
  BY <1>7, StutterKept
<1> QED BY <1>1, <1>2, <1>3, <1>4, <1>5, <1>6, <1>7 DEF Next, ConsumeStep, ClaimStep, CloseStep

LEMMA GoodAlways == Spec => []Good
<1>1. Init => Good
  BY InitOK DEF Good
<1>2. Good /\ [Next]_vars => Good'
  BY NextKept DEF Kept
<1> QED BY <1>1, <1>2, PTL DEF Spec

(* Every member and the group stay of their types: call, locks, retries,   *)
(* heartbeats, claims and offsets, whatever fails.                         *)
THEOREM GroupTypes == Spec => []TypeOK
<1>1. Good => TypeOK
  <2> SUFFICES ASSUME Good PROVE TypeOK OBVIOUS
  <2>1. DOMAIN g = Members
    BY DEF Good, TypeInv
  <2>2. ASSUME NEW m \in Members
        PROVE  MemberOK(g[m])
    <3>1. g[m] \in MemberType /\ (g[m].call \in {"idle", "lock"} <=> g[m].lock = None)
      BY GoodMember DEF Member1, Life
    <3> HIDE DEF MemberType
    <3> QED BY SMT, <3>1 DEF MemberOK, MemberType, CallStates
  <2>3. /\ group.phase \in {"stable", "join", "sync"} /\ group.gen \in Nat
        /\ group.joined \subseteq group.known /\ group.known \subseteq Members
    BY DEF Good, TypeInv, GroupInv, GroupType
  <2> QED BY <2>1, <2>2, <2>3 DEF TypeOK, Good, TypeInv
<1> QED BY <1>1, GoodAlways, PTL

(* As long as heartbeats do not fail, or nobody is removed for want of     *)
(* them, a partition is processed by one member at a time, between Setup   *)
(* and Cleanup: for any number of members and partitions, any retry limits *)
(* and any other failures, rebalances and closes.                          *)
THEOREM ClaimsStayExclusive == KeepsBeating /\ Spec => []ClaimsExclusive
<1> SUFFICES ASSUME KeepsBeating PROVE Spec => []ClaimsExclusive OBVIOUS
<1>1. Good => ExclusiveClaims /\ HandlersInSession
  <2> SUFFICES ASSUME Good PROVE ExclusiveClaims /\ HandlersInSession OBVIOUS
  <2>1. ASSUME NEW m \in Members, NEW p \in Partitions, g[m].claim[p] = "consume"
        PROVE  /\ g[m].call \in {"run", "wait"} /\ (g[m].hb = "beat" \/ g[m].cancelled)
               /\ g[m].close # "done" /\ g[m].claim[p] # None
    BY <2>1, GoodMember DEF Member1, Life, Session, None
  <2>2. ASSUME NEW m \in Members, NEW p \in Partitions, g[m].claim[p] = "consume"
        PROVE  group.plan[p] = m
    BY SMT, <2>1, <2>2, CountedMember, HoldsAlone DEF Session
  <2> QED BY <2>1, <2>2 DEF ExclusiveClaims, HandlersInSession
<1> QED BY <1>1, GroupTypes, GoodAlways, PTL DEF ClaimsExclusive

(* If commits do not fail either, a handler always continues where the     *)
(* partition was left, whoever had it before: nothing marked is processed  *)
(* twice, and nothing is skipped.                                          *)
THEOREM ClaimsResumeAtMark == KeepsBeating /\ "commit" \notin Faults /\ Spec => []ResumesAtMark
<1> SUFFICES ASSUME KeepsBeating, "commit" \notin Faults PROVE Spec => []ResumesAtMark OBVIOUS
<1>1. Init => Good /\ MarkInv
  BY InitOK DEF Good
<1>2. Good /\ MarkInv /\ [Next]_vars => (Good /\ MarkInv)'
  BY NextKept DEF Kept
<1>3. Good /\ MarkInv => ResumesAtMark
  <2> SUFFICES ASSUME Good, MarkInv, NEW m \in Members, NEW p \in Partitions, g[m].claim[p] = "consume"
               PROVE  g[m].pos[p] = seen[p]
    BY DEF ResumesAtMark
  <2>1. g[m].call \in {"run", "wait"} /\ g[m].close # "done" /\ g[m].claim[p] # None
    BY GoodMember DEF Member1, Life, None
  <2>2. Holds(g[m], p)
    BY <2>1, CountedMember DEF Holds, Marking, Session
  <2> QED BY <2>2 DEF MarkInv
<1> QED BY <1>1, <1>2, <1>3, PTL DEF Spec

(* handleError never sends on the errors channel that Close has closed.    *)
THEOREM ErrorsStaySafe == Spec => []NoSendOnClosedErrors
<1>1. Good => NoSendOnClosedErrors
  BY GoodMember DEF NoSendOnClosedErrors, Member1, Life
<1> QED BY <1>1, GoodAlways, PTL
=============================================================================
