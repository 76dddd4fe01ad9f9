--------------------------- MODULE OffsetManager ---------------------------
(***************************************************************************)
(* The offset manager of a consumer group (offset_manager.go): partition   *)
(* offset managers marked by the application, the ticker that commits      *)
(* them, calls of Commit, and Close. Each of these three is a committer:   *)
(* it builds a request from what is dirty, finds the coordinator, sends    *)
(* the request, handles the answer and releases what is closed and clean.  *)
(* The lock pomsLock is held for reading from the first partition of an    *)
(* answer (or of an error) to the last; each partition may block on its    *)
(* errors channel.                                                         *)
(***************************************************************************)
EXTENDS Integers, Sequences, FiniteSets

CONSTANTS
  Partitions,      \* topic-partitions
  Brokers,         \* brokers that may be coordinator
  MaxOffset,       \* bound on offsets
  Metas,           \* metadata strings
  MaxMarks,        \* bound on positions set per partition
  MaxManage,       \* bound on calls of ManagePartition per partition
  AutoCommit,      \* Consumer.Offsets.AutoCommit.Enable
  RetryMax,        \* Consumer.Offsets.Retry.Max
  FetchRetryMax,   \* Metadata.Retry.Max
  ReturnErrors,    \* Consumer.Return.Errors
  ErrorsCap,       \* ChannelBufferSize
  AppCommitters,   \* goroutines of the application that call Commit
  Answers,         \* answers of the coordinator to a commit, per partition
  Faults,          \* failures of a request as a whole
  Overlap,         \* flushes may overlap, and ManagePartition may be called for a managed
                   \* partition and during Close
  Resets,          \* the application uses ResetOffset
  NoBroker

Ticker == "ticker"   \* mainLoop
Closer == "closer"   \* the goroutine that calls Close
Committers == AppCommitters \cup {Ticker, Closer}

AnswerKinds == {"ok", "redispatch", "tell", "loading", "fenced", "unknown", "missing"}
FaultKinds == {"coordinator", "net", "lostanswer", "fetch"}

ASSUME OffsetConstants ==
  /\ Metas # {} /\ NoBroker \notin Brokers /\ Brokers # {}
  /\ MaxOffset \in Nat /\ MaxMarks \in Nat /\ MaxManage \in Nat
  /\ RetryMax \in Nat /\ FetchRetryMax \in Nat /\ ErrorsCap \in Nat \ {0}
  /\ AutoCommit \in BOOLEAN /\ ReturnErrors \in BOOLEAN
  /\ Overlap \in BOOLEAN /\ Resets \in BOOLEAN
  /\ Ticker \notin AppCommitters /\ Closer \notin AppCommitters
  /\ Answers \subseteq AnswerKinds /\ Faults \subseteq FaultKinds

VARIABLES
  stored,     \* what Kafka has, per partition
  life,       \* "none", "live" (in poms) or "released", per partition
  pom,        \* offset, metadata, dirty and done of the latest manager of a partition
  errors,     \* length of its errors channel
  pclose,     \* "no", "waiting" or "returned": a call of the partition's Close
  fpc, fretries, fbroker, fvalue, manages,  \* a call of ManagePartition, per partition
  broker,     \* the cached coordinator
  cpc,        \* where each committer is
  req,        \* the request of a committer: positions by partition
  cbroker,    \* the coordinator a committer uses
  resp,       \* the answer it got
  todo,       \* partitions whose part of the answer, or error, is not handled
  attempt,    \* Close: flushes made
  closing,    \* closing is closed
  cancelled,  \* the session has been cancelled
  marks, at   \* history: positions set, and the one in Kafka

pomVars == <<life, pom, errors>>
fetchVars == <<fpc, fretries, fbroker, fvalue, manages>>
flushVars == <<req, cbroker, resp, todo>>
history == <<marks, at>>
vars == <<stored, pomVars, pclose, fetchVars, broker, cpc, flushVars,
          attempt, closing, cancelled, history>>

Position == [offset : -1..MaxOffset, meta : Metas]
NoMeta == CHOOSE m \in Metas : TRUE
NotStored == [offset |-> -1, meta |-> NoMeta]
Value(p) == [offset |-> pom[p].offset, meta |-> pom[p].meta]
Live == {p \in Partitions : life[p] = "live"}
NoRequest == [p \in {} |-> NotStored]

\* pomsLock is held for reading across steps by those who handle an answer or an error.
Handling == {"response", "error"}
Unlocked == \A c \in Committers : cpc[c] \notin Handling

Init ==
  /\ stored = [p \in Partitions |-> NotStored]
  /\ life = [p \in Partitions |-> "none"]
  /\ pom = [p \in Partitions |-> [offset |-> -1, meta |-> NoMeta, dirty |-> FALSE, done |-> FALSE]]
  /\ errors = [p \in Partitions |-> 0]
  /\ pclose = [p \in Partitions |-> "no"]
  /\ fpc = [p \in Partitions |-> "idle"]
  /\ fretries = [p \in Partitions |-> 0]
  /\ fbroker = [p \in Partitions |-> NoBroker]
  /\ fvalue = [p \in Partitions |-> NotStored]
  /\ manages = [p \in Partitions |-> 0]
  /\ broker = NoBroker
  /\ cpc = [c \in Committers |-> IF c = Ticker /\ ~AutoCommit THEN "exited" ELSE "idle"]
  /\ req = [c \in Committers |-> NoRequest]
  /\ cbroker = [c \in Committers |-> NoBroker]
  /\ resp = [c \in Committers |-> NoRequest]
  /\ todo = [c \in Committers |-> {}]
  /\ attempt = 0
  /\ closing = FALSE
  /\ cancelled = FALSE
  /\ marks = [p \in Partitions |-> <<>>]
  /\ at = [p \in Partitions |-> 0]

----------------------------------------------------------------------------
(* The coordinator cache.                                                  *)

\* coordinator(): the cached broker, or a fresh one, which is then cached; b is
\* NoBroker when the lookup fails.
Coordinator(b) ==
  \/ broker # NoBroker /\ b = broker /\ UNCHANGED broker
  \/ broker = NoBroker /\ b \in Brokers /\ broker' = b
  \/ broker = NoBroker /\ b = NoBroker /\ "coordinator" \in Faults /\ UNCHANGED broker

\* releaseCoordinator(b): forget it, unless another one has been cached since.
ReleaseCoordinator(b) == broker' = IF broker = b THEN NoBroker ELSE broker

----------------------------------------------------------------------------
(* ManagePartition and fetchInitialOffset.                                 *)

ManagePartition(p) ==
  /\ fpc[p] = "idle" /\ manages[p] < MaxManage
  /\ Overlap \/ (life[p] # "live" /\ ~closing)
  /\ pclose[p] # "waiting"
  /\ fpc' = [fpc EXCEPT ![p] = "coordinator"]
  /\ fretries' = [fretries EXCEPT ![p] = FetchRetryMax]
  /\ manages' = [manages EXCEPT ![p] = @ + 1]
  /\ UNCHANGED <<stored, pomVars, pclose, fbroker, fvalue, broker, cpc, flushVars,
                 attempt, closing, cancelled, history>>

\* Another attempt if retries are left; otherwise ManagePartition returns the error.
FetchAgain(p) ==
  /\ fpc' = [fpc EXCEPT ![p] = IF fretries[p] > 0 THEN "coordinator" ELSE "idle"]
  /\ fretries' = [fretries EXCEPT ![p] = IF @ > 0 THEN @ - 1 ELSE 0]

FetchCoordinator(p) ==
  /\ fpc[p] = "coordinator"
  /\ \E b \in Brokers \cup {NoBroker} :
        /\ Coordinator(b)
        /\ fbroker' = [fbroker EXCEPT ![p] = b]
        /\ IF b = NoBroker
           THEN FetchAgain(p)
           ELSE fpc' = [fpc EXCEPT ![p] = "fetch"] /\ UNCHANGED fretries
  /\ UNCHANGED <<stored, pomVars, pclose, fvalue, manages, cpc, flushVars,
                 attempt, closing, cancelled, history>>

FetchOk(p) ==
  /\ fvalue' = [fvalue EXCEPT ![p] = stored[p]]
  /\ fpc' = [fpc EXCEPT ![p] = "add"]
  /\ UNCHANGED <<fretries, broker>>

\* A broken connection, or not the coordinator any more: the cached coordinator is
\* released when there are retries left.
FetchMoved(p) ==
  /\ "fetch" \in Faults
  /\ FetchAgain(p)
  /\ IF fretries[p] > 0 THEN ReleaseCoordinator(fbroker[p]) ELSE UNCHANGED broker
  /\ UNCHANGED fvalue

\* Offsets are being loaded: retry after the backoff, give up when the manager closes.
FetchLoading(p) ==
  /\ "fetch" \in Faults
  /\ \/ FetchAgain(p)
     \/ closing /\ fpc' = [fpc EXCEPT ![p] = "idle"] /\ UNCHANGED fretries
  /\ UNCHANGED <<fvalue, broker>>

\* No block for the partition, or any other error: returned at once.
FetchFails(p) ==
  /\ "fetch" \in Faults
  /\ fpc' = [fpc EXCEPT ![p] = "idle"]
  /\ UNCHANGED <<fretries, fvalue, broker>>

FetchInitialOffset(p) ==
  /\ fpc[p] = "fetch"
  /\ FetchOk(p) \/ FetchMoved(p) \/ FetchLoading(p) \/ FetchFails(p)
  /\ UNCHANGED <<stored, pomVars, pclose, fbroker, manages, cpc, flushVars,
                 attempt, closing, cancelled, history>>

\* The manager enters poms, unless the partition has one.
AddPOM(p) ==
  /\ fpc[p] = "add" /\ Unlocked
  /\ fpc' = [fpc EXCEPT ![p] = "idle"]
  /\ IF life[p] = "live"
     THEN UNCHANGED <<pomVars, pclose, history>>
     ELSE /\ life' = [life EXCEPT ![p] = "live"]
          /\ pom' = [pom EXCEPT ![p] = [offset |-> fvalue[p].offset, meta |-> fvalue[p].meta,
                                        dirty |-> FALSE, done |-> FALSE]]
          /\ errors' = [errors EXCEPT ![p] = 0]
          /\ pclose' = [pclose EXCEPT ![p] = "no"]
          /\ marks' = [marks EXCEPT ![p] = <<fvalue[p]>>]
          /\ at' = [at EXCEPT ![p] = IF stored[p] = fvalue[p] THEN 1 ELSE 0]
  /\ UNCHANGED <<stored, fretries, fbroker, fvalue, manages, broker, cpc, flushVars,
                 attempt, closing, cancelled>>

----------------------------------------------------------------------------
(* The partition's manager in the hands of the application.                *)

\* MarkOffset and ResetOffset, when they have an effect.
SetOffset(p, off, m) ==
  /\ pom' = [pom EXCEPT ![p].offset = off, ![p].meta = m, ![p].dirty = TRUE]
  /\ marks' = [marks EXCEPT ![p] = Append(@, [offset |-> off, meta |-> m])]

MarkOffset(p) ==
  /\ life[p] = "live" /\ Len(marks[p]) <= MaxMarks
  /\ \E off \in 0..MaxOffset, m \in Metas : off > pom[p].offset /\ SetOffset(p, off, m)
  /\ UNCHANGED <<stored, life, errors, pclose, fetchVars, broker, cpc, flushVars,
                 attempt, closing, cancelled, at>>

ResetOffset(p) ==
  /\ Resets
  /\ life[p] = "live" /\ Len(marks[p]) <= MaxMarks
  /\ \E off \in 0..MaxOffset, m \in Metas : off <= pom[p].offset /\ SetOffset(p, off, m)
  /\ UNCHANGED <<stored, life, errors, pclose, fetchVars, broker, cpc, flushVars,
                 attempt, closing, cancelled, at>>

\* Faulty variant: forgets that the position may have changed.
UpdateCommittedBlindly(p, x) ==
  pom' = [pom EXCEPT ![p].dirty = FALSE]

\* updateCommitted: clean, unless the position has moved since the request was built.
UpdateCommitted(p, x) ==
  pom' = [pom EXCEPT ![p].dirty = @ /\ Value(p) # x]

AsyncClosePOM(p) ==
  /\ life[p] = "live" /\ ~pom[p].done
  /\ pom' = [pom EXCEPT ![p].done = TRUE]
  /\ UNCHANGED <<stored, life, errors, pclose, fetchVars, broker, cpc, flushVars,
                 attempt, closing, cancelled, history>>

\* The partition's Close: marks it done and drains the errors channel until it is closed.
ClosePOM(p) ==
  /\ life[p] = "live" /\ pclose[p] = "no"
  /\ pom' = [pom EXCEPT ![p].done = TRUE]
  /\ pclose' = [pclose EXCEPT ![p] = "waiting"]
  /\ UNCHANGED <<stored, life, errors, fetchVars, broker, cpc, flushVars,
                 attempt, closing, cancelled, history>>

ClosePOMReturns(p) ==
  /\ pclose[p] = "waiting" /\ life[p] = "released" /\ errors[p] = 0
  /\ pclose' = [pclose EXCEPT ![p] = "returned"]
  /\ UNCHANGED <<stored, pomVars, fetchVars, broker, cpc, flushVars,
                 attempt, closing, cancelled, history>>

\* The application, or the partition's Close, receives an error.
DrainError(p) ==
  /\ errors[p] > 0
  /\ errors' = [errors EXCEPT ![p] = @ - 1]
  /\ UNCHANGED <<stored, life, pom, pclose, fetchVars, broker, cpc, flushVars,
                 attempt, closing, cancelled, history>>

\* The partition's handleError: sent when errors are returned, otherwise logged.
CanHandleError(p) == ReturnErrors => errors[p] < ErrorsCap
HandleError(p) ==
  /\ CanHandleError(p)
  /\ errors' = IF ReturnErrors THEN [errors EXCEPT ![p] = @ + 1] ELSE errors

----------------------------------------------------------------------------
(* A committer: Commit, called by the ticker, by the application, and the  *)
(* same steps in Close.                                                    *)

Goto(c, l) == cpc' = [cpc EXCEPT ![c] = l]

\* A bound on the application and the ticker: unless flushes may overlap, nobody flushes
\* beside c, and Commit is not called once the manager is being closed.
Flushing == {"construct", "coordinator", "commit", "answered", "failed", "response", "error",
             "release"}
Alone(c) == Overlap \/ \A d \in Committers \ {c} : cpc[d] \notin Flushing

Tick ==
  /\ cpc[Ticker] = "idle" /\ Alone(Ticker)
  /\ Goto(Ticker, "construct")
  /\ UNCHANGED <<stored, pomVars, pclose, fetchVars, broker, flushVars,
                 attempt, closing, cancelled, history>>

Commit(c) ==
  /\ c \in AppCommitters /\ cpc[c] = "idle"
  /\ Alone(c) /\ (Overlap \/ ~closing)
  /\ Goto(c, "construct")
  /\ UNCHANGED <<stored, pomVars, pclose, fetchVars, broker, flushVars,
                 attempt, closing, cancelled, history>>

\* Faulty variant: managers that are done are skipped.
DirtyAndOpen == {p \in Live : pom[p].dirty /\ ~pom[p].done}

DirtyPOMs == {p \in Live : pom[p].dirty}

\* constructRequest; nothing dirty means nothing is sent. The request also remembers
\* where in the history its positions are.
ConstructRequest(c) ==
  /\ cpc[c] = "construct"
  /\ req' = [req EXCEPT ![c] = [p \in DirtyPOMs |-> [value |-> Value(p), mark |-> Len(marks[p])]]]
  /\ Goto(c, IF DirtyPOMs = {} THEN "release" ELSE "coordinator")
  /\ UNCHANGED <<stored, pomVars, pclose, fetchVars, broker, cbroker, resp, todo,
                 attempt, closing, cancelled, history>>

FlushCoordinator(c) ==
  /\ cpc[c] = "coordinator"
  /\ \E b \in Brokers \cup {NoBroker} :
        /\ Coordinator(b)
        /\ cbroker' = [cbroker EXCEPT ![c] = b]
        /\ Goto(c, IF b = NoBroker THEN "failed" ELSE "commit")
  /\ UNCHANGED <<stored, pomVars, pclose, fetchVars, req, resp, todo,
                 attempt, closing, cancelled, history>>

\* The coordinator stores the partitions it answers with "ok".
StoreAt(c, ps) ==
  /\ stored' = [p \in Partitions |-> IF p \in ps THEN req[c][p].value ELSE stored[p]]
  /\ at' = [p \in Partitions |-> IF p \in ps THEN req[c][p].mark ELSE at[p]]

CommitAnswered(c) ==
  /\ \E r \in [DOMAIN req[c] -> Answers] :
        /\ StoreAt(c, {p \in DOMAIN r : r[p] = "ok"})
        /\ resp' = [resp EXCEPT ![c] = r]
  /\ Goto(c, "answered")

\* The connection breaks before the request reaches the coordinator, or before the
\* answer comes back.
CommitBroken(c) ==
  /\ \/ "net" \in Faults /\ UNCHANGED <<stored, at>>
     \/ "lostanswer" \in Faults /\ StoreAt(c, DOMAIN req[c])
  /\ Goto(c, "failed")
  /\ UNCHANGED resp

CommitOffset(c) ==
  /\ cpc[c] = "commit"
  /\ CommitAnswered(c) \/ CommitBroken(c)
  /\ UNCHANGED <<pomVars, pclose, fetchVars, broker, req, cbroker, todo,
                 attempt, closing, cancelled, marks>>

\* handleResponse and handleError take pomsLock for reading. An answer concerns the
\* partitions asked for that are still in poms, an error all that are in poms.
BeginHandling(c) ==
  /\ \/ cpc[c] = "answered" /\ Goto(c, "response")
        /\ todo' = [todo EXCEPT ![c] = DOMAIN req[c] \cap Live]
     \/ cpc[c] = "failed" /\ Goto(c, "error") /\ todo' = [todo EXCEPT ![c] = Live]
  /\ UNCHANGED <<stored, pomVars, pclose, fetchVars, broker, req, cbroker, resp,
                 attempt, closing, cancelled, history>>

Handled(c, p) == todo' = [todo EXCEPT ![c] = @ \ {p}]

\* Faulty variant: the answer for one partition is taken for all.
AnswerForAny(c, p) == resp[c][CHOOSE q \in DOMAIN resp[c] : TRUE]

AnswerFor(c, p) == resp[c][p]

\* One partition of handleResponse.
HandleResponse(c, p) ==
  /\ cpc[c] = "response" /\ p \in todo[c]
  /\ LET kind == AnswerFor(c, p) IN
     /\ IF kind = "ok" THEN UpdateCommitted(p, req[c][p].value) ELSE UNCHANGED pom
     /\ IF kind \in {"tell", "fenced", "unknown", "missing"}
        THEN HandleError(p) ELSE UNCHANGED errors
     /\ IF kind \in {"redispatch", "unknown"}
        THEN ReleaseCoordinator(cbroker[c]) ELSE UNCHANGED broker
     /\ cancelled' = (cancelled \/ kind = "fenced")
  /\ Handled(c, p)
  /\ UNCHANGED <<stored, life, pclose, fetchVars, cpc, req, cbroker, resp,
                 attempt, closing, history>>

HandleErrorOf(c, p) ==
  /\ cpc[c] = "error" /\ p \in todo[c]
  /\ HandleError(p)
  /\ Handled(c, p)
  /\ UNCHANGED <<stored, life, pom, pclose, fetchVars, broker, cpc, req, cbroker, resp,
                 attempt, closing, cancelled, history>>

\* All partitions handled: pomsLock is released. After a broken connection the
\* coordinator is released too (and its connection closed).
FlushDone(c) ==
  /\ cpc[c] \in Handling /\ todo[c] = {}
  /\ IF cpc[c] = "error" /\ cbroker[c] # NoBroker
     THEN ReleaseCoordinator(cbroker[c]) ELSE UNCHANGED broker
  /\ Goto(c, "release")
  /\ req' = [req EXCEPT ![c] = NoRequest]
  /\ resp' = [resp EXCEPT ![c] = NoRequest]
  /\ cbroker' = [cbroker EXCEPT ![c] = NoBroker]
  /\ UNCHANGED <<stored, pomVars, pclose, fetchVars, todo, attempt, closing, cancelled, history>>

\* Faulty variant: dirty managers are released.
ReleaseDueDirty(p, force) == pom[p].done

\* releasePOMs: managers that are done and clean, or done and forced, leave poms and
\* their errors channels are closed.
ReleaseDue(p, force) == pom[p].done /\ (force \/ ~pom[p].dirty)

\* Faulty variant: the lock is not taken.
ReleasePOMsUnlocked(force) ==
  life' = [p \in Partitions |->
            IF life[p] = "live" /\ ReleaseDue(p, force) THEN "released" ELSE life[p]]

ReleasePOMs(force) ==
  /\ Unlocked
  /\ life' = [p \in Partitions |->
               IF life[p] = "live" /\ ReleaseDue(p, force) THEN "released" ELSE life[p]]

\* Where Close goes after a flush: again, until nothing remains or attempts run out.
AfterRelease(remaining) ==
  IF remaining = {} \/ attempt = RetryMax THEN "force" ELSE "construct"

Release(c) ==
  /\ cpc[c] = "release"
  /\ ReleasePOMs(FALSE)
  /\ IF c = Closer
     THEN /\ Goto(c, AfterRelease({p \in Partitions : life'[p] = "live"}))
          /\ attempt' = attempt + 1
     ELSE Goto(c, "idle") /\ UNCHANGED attempt
  /\ UNCHANGED <<stored, pom, errors, pclose, fetchVars, broker, flushVars,
                 closing, cancelled, history>>

----------------------------------------------------------------------------
(* Close.                                                                  *)

Close ==
  /\ cpc[Closer] = "idle"
  /\ Overlap \/ (/\ \A p \in Partitions : fpc[p] = "idle"
                 /\ \A c \in AppCommitters : cpc[c] = "idle")
  /\ closing' = TRUE
  /\ Goto(Closer, "waitloop")
  /\ UNCHANGED <<stored, pomVars, pclose, fetchVars, broker, flushVars,
                 attempt, cancelled, history>>

MainLoopExits ==
  /\ closing /\ cpc[Ticker] = "idle"
  /\ Goto(Ticker, "exited")
  /\ UNCHANGED <<stored, pomVars, pclose, fetchVars, broker, flushVars,
                 attempt, closing, cancelled, history>>

AsyncClosePOMs ==
  /\ cpc[Closer] = "waitloop" /\ cpc[Ticker] = "exited"
  /\ pom' = [p \in Partitions |->
              IF life[p] = "live" THEN [pom[p] EXCEPT !.done = TRUE] ELSE pom[p]]
  /\ Goto(Closer, IF AutoCommit THEN "construct" ELSE "force")
  /\ UNCHANGED <<stored, life, errors, pclose, fetchVars, broker, flushVars,
                 attempt, closing, cancelled, history>>

ForceRelease ==
  /\ cpc[Closer] = "force"
  /\ ReleasePOMs(TRUE)
  /\ broker' = NoBroker
  /\ Goto(Closer, "closed")
  /\ UNCHANGED <<stored, pom, errors, pclose, fetchVars, flushVars,
                 attempt, closing, cancelled, history>>

----------------------------------------------------------------------------
Application(p) ==
  \/ ManagePartition(p) \/ MarkOffset(p) \/ ResetOffset(p)
  \/ AsyncClosePOM(p) \/ ClosePOM(p)
Managing(p) == FetchCoordinator(p) \/ FetchInitialOffset(p) \/ AddPOM(p)
Flush(c) ==
  \/ ConstructRequest(c) \/ FlushCoordinator(c) \/ CommitOffset(c)
  \/ BeginHandling(c) \/ FlushDone(c)
  \/ \E p \in Partitions : HandleResponse(c, p) \/ HandleErrorOf(c, p)
Closing == MainLoopExits \/ AsyncClosePOMs \/ ForceRelease

Next ==
  \/ \E p \in Partitions :
        Application(p) \/ Managing(p) \/ DrainError(p) \/ ClosePOMReturns(p)
  \/ \E c \in Committers : Commit(c) \/ Flush(c) \/ Release(c)
  \/ Tick \/ Close \/ Closing

Spec == Init /\ [][Next]_vars

\* The scheduler runs every goroutine. The select of mainLoop and the writer's side of
\* pomsLock are not starved. A coordinator that is asked again and again is found,
\* and stores and acknowledges, again and again. The application drains its errors.
CoordinatorFound(c) == FlushCoordinator(c) /\ cpc'[c] = "commit"
CommitAcknowledged(c) ==
  CommitOffset(c) /\ cpc'[c] = "answered" /\ \A p \in DOMAIN req[c] : resp'[c][p] = "ok"

Fairness ==
  /\ \A p \in Partitions : WF_vars(Managing(p)) /\ WF_vars(DrainError(p))
                           /\ WF_vars(ClosePOMReturns(p))
  /\ \A c \in Committers : WF_vars(Flush(c)) /\ SF_vars(Release(c))
                           /\ SF_vars(CoordinatorFound(c)) /\ SF_vars(CommitAcknowledged(c))
  /\ WF_vars(Tick) /\ SF_vars(MainLoopExits) /\ WF_vars(AsyncClosePOMs) /\ SF_vars(ForceRelease)

FairSpec == Spec /\ Fairness

----------------------------------------------------------------------------
(* Properties.                                                             *)

Locations == {"idle", "construct", "coordinator", "commit", "answered", "failed",
              "response", "error", "release",
              "exited", "waitloop", "force", "closed"}
Requested == [value : Position, mark : Nat]

\* The types of all variables.
TypeOK ==
  /\ stored \in [Partitions -> Position]
  /\ life \in [Partitions -> {"none", "live", "released"}]
  /\ pom \in [Partitions -> [offset : -1..MaxOffset, meta : Metas, dirty : BOOLEAN, done : BOOLEAN]]
  /\ errors \in [Partitions -> 0..ErrorsCap]
  /\ pclose \in [Partitions -> {"no", "waiting", "returned"}]
  /\ fpc \in [Partitions -> {"idle", "coordinator", "fetch", "add"}]
  /\ fretries \in [Partitions -> 0..FetchRetryMax]
  /\ fbroker \in [Partitions -> Brokers \cup {NoBroker}]
  /\ fvalue \in [Partitions -> Position]
  /\ manages \in [Partitions -> 0..MaxManage]
  /\ broker \in Brokers \cup {NoBroker}
  /\ cpc \in [Committers -> Locations]
  /\ \A c \in Committers :
        /\ DOMAIN req[c] \subseteq Partitions /\ \A p \in DOMAIN req[c] : req[c][p] \in Requested
        /\ DOMAIN resp[c] \subseteq Partitions /\ \A p \in DOMAIN resp[c] : resp[c][p] \in AnswerKinds
  /\ cbroker \in [Committers -> Brokers \cup {NoBroker}]
  /\ todo \in [Committers -> SUBSET Partitions]
  /\ attempt \in 0..RetryMax + 1
  /\ closing \in BOOLEAN /\ cancelled \in BOOLEAN
  /\ \A p \in Partitions : marks[p] \in Seq(Position) /\ at[p] \in 0..Len(marks[p])

\* A manager that is not dirty has its position in Kafka: updateCommitted clears the flag
\* only for the position that was committed, whatever was marked or reset meanwhile.
CleanMeansCommitted ==
  \A p \in Live : ~pom[p].dirty => stored[p] = Value(p)

\* Errors are only sent on the channels of managers that have not been released: release
\* closes the channel, and needs the lock that a committer holds while it sends.
NoSendOnClosed ==
  \A c \in Committers : cpc[c] \in Handling => todo[c] \subseteq Live

\* With auto-commit, a step that takes a manager with an uncommitted position out of poms
\* is the last one of a Close that has flushed Retry.Max + 1 times.
DropIsDue ==
  \A p \in Partitions :
    life[p] = "live" /\ life'[p] = "released" /\ pom[p].dirty
    => ~AutoCommit \/ (cpc[Closer] = "force" /\ attempt = RetryMax + 1)

\* Kafka moves forward along the positions the application has set, and a partition is
\* given back with its last position stored unless the manager is being closed: this is
\* what the offset manager promises when no two flushes run at the same time.
Contract == INSTANCE OffsetContract
  WITH Positions <- Position, managed <- Live, ending <- closing
\* And a position that was not committed is only dropped after all retries.
KeepsContract == Contract!Spec /\ [][DropIsDue]_vars

\* The partition's Close returns. A partition is managed a bounded number of times: that
\* every call returns is that in the end none waits.
PartitionCloseReturns == <>[](\A p \in Partitions : pclose[p] # "waiting")

\* What is marked is committed, or dropped by Close (marks are bounded).
MarksAreCommitted == <>[](\A p \in Partitions : life[p] = "live" /\ pom[p].dirty => closing)

\* Close returns.
CloseReturns == <>[](closing => cpc[Closer] = "closed")

\* Nothing waits for ever: marks reach Kafka, and both Close calls return.
AllDone == MarksAreCommitted /\ CloseReturns /\ PartitionCloseReturns
=============================================================================
