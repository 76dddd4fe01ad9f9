------------------------ MODULE OffsetManagerProofs ------------------------
(***************************************************************************)
(* The offset manager, for any number of partitions, brokers and           *)
(* committers, any bounds and any failures: an error is never sent on a    *)
(* channel that has been closed; and, when no two flushes overlap, a clean *)
(* manager has its position in Kafka and the contract is kept.             *)
(*                                                                         *)
(* The inductive invariant says what a request in flight is: positions     *)
(* that were set, of partitions that are managed, none older than the one  *)
(* in Kafka; and that nobody but the one committer that flushes can change *)
(* which partitions those are or what Kafka has.                           *)
(***************************************************************************)
EXTENDS OffsetManager, TLAPS

(* Most leaves are first-order; those that need arithmetic cite SMT. *)
USE ZenonT(30)

PomRecord == [offset : -1..MaxOffset, meta : Metas, dirty : BOOLEAN, done : BOOLEAN]

FlowTypeOK ==
  /\ stored \in [Partitions -> Position]
  /\ life \in [Partitions -> {"none", "live", "released"}]
  /\ pom \in [Partitions -> PomRecord]
  /\ fpc \in [Partitions -> {"idle", "coordinator", "fetch", "add"}]
  /\ fvalue \in [Partitions -> Position]
  /\ cpc \in [Committers -> Locations]
  /\ req = [c \in Committers |-> req[c]]
  /\ resp = [c \in Committers |-> resp[c]]
  /\ todo \in [Committers -> SUBSET Partitions]
  /\ closing \in BOOLEAN
  /\ marks \in [Partitions -> Seq(Position)]
  /\ at \in [Partitions -> Nat]

\* What a managed partition's manager, its history and Kafka have to do with each other.
Tracked(p) ==
  /\ at[p] <= Len(marks[p])
  /\ life[p] = "live" =>
       /\ 1 <= at[p] /\ marks[p][Len(marks[p])] = Value(p)
       /\ stored[p] = marks[p][at[p]]
       /\ ~pom[p].dirty => stored[p] = Value(p)

\* A partition that is being taken over is not managed, and its position does not change.
Fetched(p) ==
  /\ fpc[p] # "idle" => life[p] # "live" /\ ~closing
  /\ fpc[p] = "add" => fvalue[p] = stored[p]

\* A request in flight.
Carrying == {"coordinator", "commit", "answered", "failed", "response", "error"}
Carried(c) ==
  cpc[c] \in Carrying => \A p \in DOMAIN req[c] :
    /\ p \in Live /\ req[c][p] \in Requested
    /\ at[p] <= req[c][p].mark /\ req[c][p].mark <= Len(marks[p])
    /\ 1 <= req[c][p].mark /\ marks[p][req[c][p].mark] = req[c][p].value
    /\ cpc[c] \in {"coordinator", "commit"} => pom[p].dirty

\* An answer that is being handled.
Answered(c) ==
  /\ cpc[c] \in {"answered", "response"} =>
       /\ DOMAIN resp[c] = DOMAIN req[c]
       /\ \A p \in DOMAIN req[c] : resp[c][p] = "ok" => stored[p] = req[c][p].value
  /\ cpc[c] = "response" => todo[c] \subseteq DOMAIN req[c]

\* Who may flush.
Turns ==
  /\ \A c, d \in Committers : cpc[c] \in Flushing /\ cpc[d] \in Flushing => c = d
  /\ \A c \in AppCommitters : cpc[c] \in Flushing \cup {"idle"} /\ (closing => cpc[c] = "idle")
  /\ cpc[Ticker] \in Flushing \cup {"idle", "exited"}
  /\ cpc[Closer] \in Flushing \cup {"idle", "waitloop", "force", "closed"}
  /\ cpc[Closer] # "idle" => closing
  /\ cpc[Closer] \in Flushing \cup {"force", "closed"} => cpc[Ticker] = "exited"

\* Close has flushed as often as it may when it drops what is left.
LastResort ==
  cpc[Closer] = "force" /\ AutoCommit => Live = {} \/ attempt = RetryMax + 1

IInv ==
  /\ ~Overlap /\ FlowTypeOK /\ Turns /\ LastResort /\ NoSendOnClosed
  /\ \A p \in Partitions : Tracked(p) /\ Fetched(p)
  /\ \A c \in Committers : Carried(c) /\ Answered(c)

-----------------------------------------------------------------------------
(* Errors channels.                                                        *)

SendInv ==
  /\ life \in [Partitions -> {"none", "live", "released"}]
  /\ cpc \in [Committers -> Locations]
  /\ todo \in [Committers -> SUBSET Partitions]
  /\ NoSendOnClosed

LEMMA InitSendInv == Init => SendInv
  BY SMT DEF Init, SendInv, NoSendOnClosed, Locations, Handling

\* Who is not handling anything may go anywhere else.
LEMMA SendInvGoto ==
  ASSUME SendInv, NEW c \in Committers, NEW l \in Locations \ Handling, Goto(c, l),
         UNCHANGED <<life, todo>>
  PROVE  SendInv'
<1>1. cpc' \in [Committers -> Locations] /\ cpc'[c] = l
      /\ \A d \in Committers \ {c} : cpc'[d] = cpc[d]
  BY DEF Goto, SendInv
<1> QED BY <1>1 DEF SendInv, NoSendOnClosed, Live

LEMMA NextSendInv == SendInv /\ [Next]_vars => SendInv'
<1> SUFFICES ASSUME SendInv, [Next]_vars PROVE SendInv'
  OBVIOUS
<1>1. CASE UNCHANGED <<life, cpc, todo>>
  BY <1>1 DEF SendInv, NoSendOnClosed, Live
<1>2. ASSUME NEW p \in Partitions, Application(p) \/ Managing(p) \/ DrainError(p) \/ ClosePOMReturns(p)
      PROVE  SendInv'
  <2>1. CASE AddPOM(p)
    <3>1. /\ life' = life \/ life' = [life EXCEPT ![p] = "live"]
          /\ UNCHANGED <<cpc, todo>>
      BY <2>1 DEF AddPOM, pomVars, flushVars
    <3>2. life' \in [Partitions -> {"none", "live", "released"}] /\ Live \subseteq Live'
      BY <3>1 DEF SendInv, Live
    <3> QED BY <3>1, <3>2 DEF SendInv, NoSendOnClosed
  <2>2. CASE ~AddPOM(p)
    <3>1. UNCHANGED <<life, cpc, todo>>
      BY <1>2, <2>2
      DEF Application, ManagePartition, MarkOffset, ResetOffset, AsyncClosePOM, ClosePOM,
          Managing, FetchCoordinator, FetchInitialOffset, DrainError, ClosePOMReturns,
          pomVars, flushVars
    <3> QED BY <3>1, <1>1
  <2> QED BY <2>1, <2>2
<1>3. ASSUME NEW c \in Committers, NEW l \in Locations \ Handling, Goto(c, l), UNCHANGED <<life, todo>>
      PROVE  SendInv'
  BY <1>3, SendInvGoto
<1>4. ASSUME NEW c \in Committers, Commit(c) PROVE SendInv'
  BY <1>3, <1>4 DEF Commit, pomVars, flushVars, Locations, Handling
<1>5. ASSUME NEW c \in Committers, ConstructRequest(c) PROVE SendInv'
  <2>1. PICK l \in Locations \ Handling : Goto(c, l)
    BY <1>5 DEF ConstructRequest, Locations, Handling
  <2> QED BY <1>3, <1>5, <2>1 DEF ConstructRequest, pomVars
<1>6. ASSUME NEW c \in Committers, FlushCoordinator(c) PROVE SendInv'
  <2>1. PICK l \in Locations \ Handling : Goto(c, l)
    BY <1>6 DEF FlushCoordinator, Locations, Handling
  <2> QED BY <1>3, <1>6, <2>1 DEF FlushCoordinator, pomVars
<1>7. ASSUME NEW c \in Committers, CommitOffset(c) PROVE SendInv'
  <2>1. PICK l \in Locations \ Handling : Goto(c, l)
    BY <1>7 DEF CommitOffset, CommitAnswered, CommitBroken, Locations, Handling
  <2> QED BY <1>3, <1>7, <2>1 DEF CommitOffset, pomVars
<1>8. ASSUME NEW c \in Committers, BeginHandling(c) PROVE SendInv'
  <2>1. PICK l \in Handling, d \in SUBSET Live :
          Goto(c, l) /\ todo' = [todo EXCEPT ![c] = d] /\ life' = life
    BY <1>8 DEF BeginHandling, Handling, pomVars
  <2>2. d \in SUBSET Partitions /\ l \in Locations
    BY <2>1 DEF Live, Handling, Locations
  <2>3. /\ cpc' \in [Committers -> Locations] /\ todo' \in [Committers -> SUBSET Partitions]
        /\ todo'[c] = d /\ \A e \in Committers \ {c} : cpc'[e] = cpc[e] /\ todo'[e] = todo[e]
    BY <2>1, <2>2 DEF Goto, SendInv
  <2> QED BY <2>1, <2>3 DEF SendInv, NoSendOnClosed, Live
<1>9. ASSUME NEW c \in Committers, NEW p \in Partitions, HandleResponse(c, p) \/ HandleErrorOf(c, p)
      PROVE  SendInv'
  <2>1. todo' = [todo EXCEPT ![c] = todo[c] \ {p}] /\ UNCHANGED <<life, cpc>>
    BY <1>9 DEF HandleResponse, HandleErrorOf, Handled
  <2>2. todo' \in [Committers -> SUBSET Partitions] /\ \A d \in Committers : todo'[d] \subseteq todo[d]
    BY <2>1 DEF SendInv
  <2> QED BY <2>1, <2>2 DEF SendInv, NoSendOnClosed, Live
<1>10. ASSUME NEW c \in Committers, FlushDone(c) PROVE SendInv'
  BY <1>3, <1>10 DEF FlushDone, pomVars, Locations, Handling
<1>11. ASSUME Unlocked, NEW c \in Committers, NEW l \in Locations \ Handling, Goto(c, l),
              NEW force, ReleasePOMs(force), UNCHANGED todo
       PROVE  SendInv'
  <2>1. life' \in [Partitions -> {"none", "live", "released"}]
    BY <1>11 DEF ReleasePOMs, SendInv
  <2>2. cpc' \in [Committers -> Locations] /\ \A d \in Committers : cpc'[d] \notin Handling
    BY <1>11 DEF Unlocked, Goto, SendInv
  <2> QED BY <2>1, <2>2, <1>11 DEF SendInv, NoSendOnClosed
<1>12. ASSUME NEW c \in Committers, Release(c) PROVE SendInv'
  <2>1. PICK l \in Locations \ Handling : Goto(c, l)
    BY <1>12 DEF Release, AfterRelease, Locations, Handling
  <2>2. Unlocked /\ ReleasePOMs(FALSE) /\ UNCHANGED todo
    BY <1>12 DEF Release, ReleasePOMs, flushVars
  <2> QED BY <2>1, <2>2, <1>11
<1>13. CASE Tick
  BY <1>3, <1>13 DEF Tick, pomVars, flushVars, Locations, Handling, Committers
<1>14. CASE Close
  BY <1>3, <1>14 DEF Close, pomVars, flushVars, Locations, Handling, Committers
<1>15. CASE MainLoopExits
  BY <1>3, <1>15 DEF MainLoopExits, pomVars, flushVars, Locations, Handling, Committers
<1>16. CASE AsyncClosePOMs
  <2>1. PICK l \in Locations \ Handling : Goto(Closer, l)
    BY <1>16 DEF AsyncClosePOMs, Locations, Handling
  <2> QED BY <1>3, <1>16, <2>1 DEF AsyncClosePOMs, flushVars, Committers
<1>17. CASE ForceRelease
  <2>1. /\ Unlocked /\ ReleasePOMs(TRUE) /\ UNCHANGED todo /\ Goto(Closer, "closed")
        /\ Closer \in Committers /\ "closed" \in Locations \ Handling
    BY <1>17 DEF ForceRelease, ReleasePOMs, flushVars, Committers, Locations, Handling
  <2> QED BY <2>1, <1>11
<1>18. CASE UNCHANGED vars
  BY <1>1, <1>18 DEF vars, pomVars, flushVars
<1> QED
  BY <1>2, <1>4, <1>5, <1>6, <1>7, <1>8, <1>9, <1>10, <1>12, <1>13, <1>14, <1>15, <1>16, <1>17, <1>18
  DEF Next, Flush, Closing

\* releasePOMs closes the errors channel of a manager only when no committer that handles an
\* answer or a failure can still send on it (offset_manager.go:349-385, 452-465), however many
\* committers there are and however their flushes overlap.
THEOREM NeverSendsOnClosed == Spec => []NoSendOnClosed
<1>1. SendInv => NoSendOnClosed
  BY DEF SendInv
<1> QED BY InitSendInv, NextSendInv, <1>1, PTL DEF Spec

-----------------------------------------------------------------------------
(* The types.                                                              *)

\* What the steps on a manager do to it.
LEMMA PomParts ==
  ASSUME FlowTypeOK, NEW p \in Partitions
  PROVE  /\ pom[p] \in PomRecord
         /\ pom[p].offset \in -1..MaxOffset /\ pom[p].meta \in Metas
         /\ pom[p].dirty \in BOOLEAN /\ pom[p].done \in BOOLEAN
         /\ Value(p) \in Position
<1>1. pom[p] \in PomRecord
  BY DEF FlowTypeOK
<1> QED BY <1>1 DEF PomRecord, Value, Position

LEMMA SetOffsetParts ==
  ASSUME FlowTypeOK, NEW p \in Partitions, NEW off \in 0..MaxOffset, NEW m \in Metas,
         SetOffset(p, off, m)
  PROVE  /\ pom' \in [Partitions -> PomRecord] /\ marks' \in [Partitions -> Seq(Position)]
         /\ pom'[p].dirty = TRUE /\ Value(p)' = [offset |-> off, meta |-> m]
         /\ Value(p)' \in Position
         /\ marks'[p] = Append(marks[p], Value(p)')
         /\ marks' = [marks EXCEPT ![p] = Append(@, Value(p)')]
         /\ \A q \in Partitions \ {p} : pom'[q] = pom[q] /\ marks'[q] = marks[q]
<1> DEFINE new == [pom[p] EXCEPT !.offset = off, !.meta = m, !.dirty = TRUE]
<1>1. off \in -1..MaxOffset
  BY SMT, OffsetConstants
<1>2. pom' = [pom EXCEPT ![p] = new]
  BY DEF SetOffset, FlowTypeOK
<1>3. new \in PomRecord
  BY <1>1, PomParts DEF PomRecord
<1>4. new.offset = off /\ new.meta = m /\ new.dirty = TRUE
  BY PomParts DEF PomRecord
<1>6. pom' \in [Partitions -> PomRecord] /\ pom'[p] = new
      /\ \A q \in Partitions \ {p} : pom'[q] = pom[q]
  BY <1>2, <1>3 DEF FlowTypeOK
<1>7. Value(p)' = [offset |-> off, meta |-> m]
  BY <1>4, <1>6 DEF Value
<1>8. Value(p)' \in Position
  BY SMT, <1>1, <1>7 DEF Position
<1>9. marks' = [marks EXCEPT ![p] = Append(@, Value(p)')]
  BY <1>7 DEF SetOffset
<1> HIDE DEF new
<1>10. /\ marks' \in [Partitions -> Seq(Position)] /\ marks'[p] = Append(marks[p], Value(p)')
       /\ \A q \in Partitions \ {p} : marks'[q] = marks[q]
  BY SMT, <1>8, <1>9 DEF FlowTypeOK
<1> QED BY <1>4, <1>6, <1>7, <1>8, <1>9, <1>10

LEMMA DoneParts ==
  ASSUME FlowTypeOK, NEW p \in Partitions, pom' = [pom EXCEPT ![p].done = TRUE]
  PROVE  /\ pom' \in [Partitions -> PomRecord]
         /\ \A q \in Partitions : Value(q)' = Value(q) /\ pom'[q].dirty = pom[q].dirty
<1>1. [pom[p] EXCEPT !.done = TRUE] \in PomRecord
  BY PomParts DEF PomRecord
<1>2. pom' \in [Partitions -> PomRecord]
  BY <1>1 DEF FlowTypeOK
<1>3. \A q \in Partitions : /\ pom'[q].offset = pom[q].offset /\ pom'[q].meta = pom[q].meta
                            /\ pom'[q].dirty = pom[q].dirty
  BY PomParts DEF PomRecord, FlowTypeOK
<1> QED BY <1>2, <1>3 DEF Value

LEMMA UpdateParts ==
  ASSUME FlowTypeOK, NEW p \in Partitions, NEW x, UpdateCommitted(p, x)
  PROVE  /\ pom' \in [Partitions -> PomRecord]
         /\ \A q \in Partitions : Value(q)' = Value(q)
         /\ \A q \in Partitions \ {p} : pom'[q].dirty = pom[q].dirty
         /\ ~pom'[p].dirty => ~pom[p].dirty \/ Value(p) = x
<1> DEFINE new == [pom[p] EXCEPT !.dirty = pom[p].dirty /\ Value(p) # x]
<1>1. new \in PomRecord
  BY PomParts DEF PomRecord
<1>2. new.offset = pom[p].offset /\ new.meta = pom[p].meta
      /\ new.dirty = (pom[p].dirty /\ Value(p) # x)
  BY PomParts DEF PomRecord
<1>3. pom' = [pom EXCEPT ![p] = new]
  BY DEF UpdateCommitted, FlowTypeOK
<1> HIDE DEF new
<1>4. pom' \in [Partitions -> PomRecord] /\ pom'[p] = new /\ \A q \in Partitions \ {p} : pom'[q] = pom[q]
  BY <1>1, <1>3 DEF FlowTypeOK
<1>5. \A q \in Partitions : pom'[q].offset = pom[q].offset /\ pom'[q].meta = pom[q].meta
  BY <1>2, <1>4
<1> QED BY <1>2, <1>4, <1>5 DEF Value

LEMMA AllDoneParts ==
  ASSUME FlowTypeOK,
         pom' = [p \in Partitions |-> IF life[p] = "live" THEN [pom[p] EXCEPT !.done = TRUE] ELSE pom[p]]
  PROVE  /\ pom' \in [Partitions -> PomRecord]
         /\ \A q \in Partitions : Value(q)' = Value(q) /\ pom'[q].dirty = pom[q].dirty
<1>1. ASSUME NEW p \in Partitions
      PROVE  /\ [pom[p] EXCEPT !.done = TRUE] \in PomRecord
             /\ [pom[p] EXCEPT !.done = TRUE].offset = pom[p].offset
             /\ [pom[p] EXCEPT !.done = TRUE].meta = pom[p].meta
             /\ [pom[p] EXCEPT !.done = TRUE].dirty = pom[p].dirty
  BY PomParts DEF PomRecord
<1>2. pom' \in [Partitions -> PomRecord]
  BY <1>1, PomParts
<1>3. \A q \in Partitions : /\ pom'[q].offset = pom[q].offset /\ pom'[q].meta = pom[q].meta
                            /\ pom'[q].dirty = pom[q].dirty
  BY <1>1
<1> QED BY <1>2, <1>3 DEF Value

LEMMA AddParts ==
  ASSUME FlowTypeOK, NEW p \in Partitions, AddPOM(p), life[p] # "live"
  PROVE  /\ life' = [life EXCEPT ![p] = "live"]
         /\ pom' \in [Partitions -> PomRecord]
         /\ Value(p)' = fvalue[p] /\ fvalue[p] \in Position
         /\ \A q \in Partitions \ {p} : pom'[q] = pom[q]
         /\ marks' = [marks EXCEPT ![p] = <<fvalue[p]>>]
         /\ at' = [at EXCEPT ![p] = IF stored[p] = fvalue[p] THEN 1 ELSE 0]
<1> DEFINE new == [offset |-> fvalue[p].offset, meta |-> fvalue[p].meta, dirty |-> FALSE, done |-> FALSE]
<1>1. fvalue[p] \in Position
  BY DEF FlowTypeOK
<1>2. fvalue[p].offset \in -1..MaxOffset /\ fvalue[p].meta \in Metas
      /\ fvalue[p] = [offset |-> fvalue[p].offset, meta |-> fvalue[p].meta]
  BY <1>1 DEF Position
<1>3. new \in PomRecord
  BY <1>2 DEF PomRecord
<1>4. pom' = [pom EXCEPT ![p] = new]
  BY DEF AddPOM
<1>5. pom' \in [Partitions -> PomRecord] /\ pom'[p] = new /\ \A q \in Partitions \ {p} : pom'[q] = pom[q]
  BY <1>3, <1>4 DEF FlowTypeOK
<1>6. Value(p)' = fvalue[p]
  BY SMT, <1>2, <1>5 DEF Value
<1> QED BY <1>1, <1>5, <1>6 DEF AddPOM

LEMMA CommittersKnown == Ticker \in Committers /\ Closer \in Committers /\ Ticker # Closer
                         /\ AppCommitters \subseteq Committers
  BY DEF Committers, Ticker, Closer

LEMMA GotoParts ==
  ASSUME FlowTypeOK, NEW c \in Committers, NEW l, Goto(c, l)
  PROVE  cpc'[c] = l /\ \A d \in Committers \ {c} : cpc'[d] = cpc[d]
  BY DEF FlowTypeOK, Goto

LEMMA StepTypes ==
  ASSUME IInv, Next PROVE FlowTypeOK'
<1> USE DEF IInv
<1>0. SendInv'
  BY NextSendInv DEF SendInv, FlowTypeOK
<1>1. /\ life' \in [Partitions -> {"none", "live", "released"}]
      /\ cpc' \in [Committers -> Locations]
      /\ todo' \in [Committers -> SUBSET Partitions]
  BY <1>0 DEF SendInv
<1>2. ASSUME UNCHANGED <<stored, pom, fpc, fvalue, req, resp, marks, at>>, closing' \in BOOLEAN
      PROVE  FlowTypeOK'
  BY <1>1, <1>2 DEF FlowTypeOK
<1>3. ASSUME NEW p \in Partitions, Application(p) \/ Managing(p) \/ DrainError(p) \/ ClosePOMReturns(p)
      PROVE  FlowTypeOK'
  <2>1. CASE ManagePartition(p) \/ FetchCoordinator(p) \/ FetchInitialOffset(p)
    <3>1. UNCHANGED <<stored, pom, req, resp, marks, at, closing>>
      BY <2>1 DEF ManagePartition, FetchCoordinator, FetchInitialOffset, pomVars, flushVars, history
    <3>2. fpc' \in [Partitions -> {"idle", "coordinator", "fetch", "add"}]
      BY <2>1 DEF ManagePartition, FetchCoordinator, FetchInitialOffset, FetchOk, FetchMoved,
                  FetchLoading, FetchFails, FetchAgain, FlowTypeOK
    <3>3. fvalue' \in [Partitions -> Position]
      BY <2>1 DEF ManagePartition, FetchCoordinator, FetchInitialOffset, FetchOk, FetchMoved,
                  FetchLoading, FetchFails, FlowTypeOK
    <3> QED BY <1>1, <3>1, <3>2, <3>3 DEF FlowTypeOK
  <2>2. CASE AddPOM(p)
    <3>1. fpc' = [fpc EXCEPT ![p] = "idle"] /\ UNCHANGED <<stored, fvalue, req, resp, closing>>
      BY <2>2 DEF AddPOM, flushVars
    <3>2. CASE life[p] = "live"
      <4>1. UNCHANGED <<pom, marks, at>>
        BY <2>2, <3>2 DEF AddPOM, pomVars, history
      <4> QED BY <1>1, <3>1, <4>1 DEF FlowTypeOK
    <3>3. CASE life[p] # "live"
      <4>1. /\ pom' \in [Partitions -> PomRecord] /\ fvalue[p] \in Position
            /\ marks' = [marks EXCEPT ![p] = <<fvalue[p]>>]
            /\ at' = [at EXCEPT ![p] = IF stored[p] = fvalue[p] THEN 1 ELSE 0]
        BY <2>2, <3>3, AddParts
      <4>2. marks' \in [Partitions -> Seq(Position)] /\ at' \in [Partitions -> Nat]
        BY SMT, <4>1 DEF FlowTypeOK
      <4> QED BY <1>1, <3>1, <4>1, <4>2 DEF FlowTypeOK
    <3> QED BY <3>2, <3>3
  <2>3. CASE MarkOffset(p) \/ ResetOffset(p)
    <3>1. UNCHANGED <<stored, fpc, fvalue, req, resp, closing, at>>
      BY <2>3 DEF MarkOffset, ResetOffset, fetchVars, flushVars
    <3>2. \E off \in 0..MaxOffset, m \in Metas : SetOffset(p, off, m)
      BY <2>3 DEF MarkOffset, ResetOffset
    <3>3. pom' \in [Partitions -> PomRecord] /\ marks' \in [Partitions -> Seq(Position)]
      BY <3>2, SetOffsetParts
    <3> QED BY <1>1, <3>1, <3>3 DEF FlowTypeOK
  <2>4. CASE AsyncClosePOM(p) \/ ClosePOM(p)
    <3>1. UNCHANGED <<stored, fpc, fvalue, req, resp, closing, marks, at>>
      BY <2>4 DEF AsyncClosePOM, ClosePOM, fetchVars, flushVars, history
    <3>2. pom' \in [Partitions -> PomRecord]
      BY <2>4, DoneParts DEF AsyncClosePOM, ClosePOM
    <3> QED BY <1>1, <3>1, <3>2 DEF FlowTypeOK
  <2>5. CASE DrainError(p) \/ ClosePOMReturns(p)
    BY <1>2, <2>5 DEF DrainError, ClosePOMReturns, pomVars, fetchVars, flushVars, history, FlowTypeOK
  <2> QED BY <1>3, <2>1, <2>2, <2>3, <2>4, <2>5 DEF Application, Managing
<1>4. ASSUME NEW c \in Committers, Commit(c) \/ FlushCoordinator(c) \/ BeginHandling(c) \/ Release(c)
      PROVE  FlowTypeOK'
  BY <1>2, <1>4 DEF Commit, FlushCoordinator, BeginHandling, Release, pomVars, fetchVars, flushVars,
                    history, FlowTypeOK
<1>5. ASSUME NEW c \in Committers, ConstructRequest(c) \/ FlushDone(c) PROVE FlowTypeOK'
  <2>1. UNCHANGED <<stored, pom, fpc, fvalue, marks, at, closing>>
    BY <1>5 DEF ConstructRequest, FlushDone, pomVars, fetchVars, history
  <2>2. req' = [d \in Committers |-> req'[d]] /\ resp' = [d \in Committers |-> resp'[d]]
    BY <1>5 DEF ConstructRequest, FlushDone, FlowTypeOK
  <2> QED BY <1>1, <2>1, <2>2 DEF FlowTypeOK
<1>6. ASSUME NEW c \in Committers, CommitOffset(c) PROVE FlowTypeOK'
  <2>1. cpc[c] = "commit" /\ UNCHANGED <<pom, fpc, fvalue, marks, closing, req>>
    BY <1>6 DEF CommitOffset, pomVars, fetchVars
  <2>2. \A p \in DOMAIN req[c] : req[c][p].value \in Position /\ req[c][p].mark \in Nat
    <3>1. \A p \in DOMAIN req[c] : req[c][p] \in Requested
      BY <2>1 DEF Carried, Carrying
    <3> QED BY <3>1 DEF Requested
  <2>3. \/ UNCHANGED <<stored, at>>
        \/ \E ps \in SUBSET DOMAIN req[c] : StoreAt(c, ps)
    BY <1>6 DEF CommitOffset, CommitAnswered, CommitBroken
  <2>4. stored' \in [Partitions -> Position] /\ at' \in [Partitions -> Nat]
    <3>1. CASE UNCHANGED <<stored, at>>
      BY <3>1 DEF FlowTypeOK
    <3>2. ASSUME NEW ps \in SUBSET DOMAIN req[c], StoreAt(c, ps)
          PROVE  stored' \in [Partitions -> Position] /\ at' \in [Partitions -> Nat]
      <4>1. \A p \in ps : req[c][p].value \in Position /\ req[c][p].mark \in Nat
        BY <2>2
      <4>2. \A p \in Partitions : stored[p] \in Position /\ at[p] \in Nat
        BY DEF FlowTypeOK
      <4> QED BY <3>2, <4>1, <4>2 DEF StoreAt
    <3> QED BY <2>3, <3>1, <3>2
  <2>5. resp' = [d \in Committers |-> resp'[d]]
    BY <1>6 DEF CommitOffset, CommitAnswered, CommitBroken, FlowTypeOK
  <2> QED BY <1>1, <2>1, <2>4, <2>5 DEF FlowTypeOK
<1>7. ASSUME NEW c \in Committers, NEW p \in Partitions, HandleResponse(c, p) \/ HandleErrorOf(c, p)
      PROVE  FlowTypeOK'
  <2>1. UNCHANGED <<stored, fpc, fvalue, marks, at, closing, req, resp>>
    BY <1>7 DEF HandleResponse, HandleErrorOf, fetchVars, history
  <2>2. pom' = pom \/ UpdateCommitted(p, req[c][p].value)
    BY <1>7 DEF HandleResponse, HandleErrorOf
  <2>3. pom' \in [Partitions -> PomRecord]
    BY <2>2, UpdateParts DEF FlowTypeOK
  <2> QED BY <1>1, <2>1, <2>3 DEF FlowTypeOK
<1>8. CASE Tick \/ Close \/ MainLoopExits \/ ForceRelease
  BY <1>2, <1>8 DEF Tick, Close, MainLoopExits, ForceRelease, pomVars, fetchVars, flushVars, history,
                    FlowTypeOK
<1>9. CASE AsyncClosePOMs
  <2>1. UNCHANGED <<stored, fpc, fvalue, marks, at, closing, req, resp>>
    BY <1>9 DEF AsyncClosePOMs, fetchVars, flushVars, history
  <2>2. pom' \in [Partitions -> PomRecord]
    BY <1>9, AllDoneParts DEF AsyncClosePOMs
  <2> QED BY <1>1, <2>1, <2>2 DEF FlowTypeOK
<1> QED
  BY <1>3, <1>4, <1>5, <1>6, <1>7, <1>8, <1>9 DEF Next, Flush, Closing

-----------------------------------------------------------------------------
(* Who may flush, and when Close drops what is left.                       *)

LEMMA StepTurns ==
  ASSUME IInv, Next PROVE Turns'
<1> USE CommittersKnown DEF IInv
<1>1. CASE UNCHANGED <<cpc, closing>>
  BY <1>1 DEF Turns
\* The flush goes on.
<1>2. ASSUME NEW c \in Committers, NEW l \in Flushing, cpc[c] \in Flushing, Goto(c, l), UNCHANGED closing
      PROVE  Turns'
  <2>1. cpc'[c] = l /\ \A d \in Committers \ {c} : cpc'[d] = cpc[d]
    BY <1>2, GotoParts
  <2>2. "idle" \notin Flushing /\ "exited" \notin Flushing /\ "closed" \notin Flushing
        /\ "force" \notin Flushing /\ "waitloop" \notin Flushing
    BY DEF Flushing
  <2> HIDE DEF IInv
  <2>3. Turns
    BY DEF IInv
  <2> QED BY SMT, <1>2, <2>1, <2>2, <2>3 DEF Turns
\* Somebody begins a flush or goes on, and nobody else flushes.
<1>3. CASE Tick
  <2>1. /\ cpc'[Ticker] = "construct" /\ \A d \in Committers \ {Ticker} : cpc'[d] = cpc[d]
        /\ \A d \in Committers \ {Ticker} : cpc[d] \notin Flushing
        /\ cpc[Ticker] = "idle" /\ closing' = closing
    BY <1>3, GotoParts DEF Tick, Alone
  <2> QED BY <2>1, OffsetConstants DEF Turns, Flushing
<1>4. ASSUME NEW c \in Committers, Commit(c) PROVE Turns'
  <2>1. /\ c \in AppCommitters /\ c # Ticker /\ c # Closer
        /\ cpc'[c] = "construct" /\ \A d \in Committers \ {c} : cpc'[d] = cpc[d]
        /\ \A d \in Committers \ {c} : cpc[d] \notin Flushing
        /\ ~closing /\ closing' = closing
    BY <1>4, GotoParts, OffsetConstants DEF Commit, Alone
  <2> QED BY <2>1 DEF Turns, Flushing
<1>5. ASSUME NEW c \in Committers, Release(c) PROVE Turns'
  <2>1. /\ cpc[c] = "release" /\ closing' = closing
        /\ \A d \in Committers \ {c} : cpc'[d] = cpc[d] /\ cpc[d] \notin Flushing
        /\ cpc'[c] = "idle" \/ (c = Closer /\ cpc'[c] \in {"force", "construct"})
        /\ c = Closer => cpc'[c] \in {"force", "construct"}
    BY <1>5, GotoParts DEF Release, AfterRelease, Turns, Flushing
  <2> QED BY <2>1 DEF Turns, Flushing
<1>6. CASE Close
  <2>1. /\ cpc'[Closer] = "waitloop" /\ \A d \in Committers \ {Closer} : cpc'[d] = cpc[d]
        /\ \A d \in AppCommitters : cpc[d] = "idle" /\ d # Closer
        /\ closing' = TRUE
    BY <1>6, GotoParts, OffsetConstants DEF Close
  <2> QED BY <2>1 DEF Turns, Flushing
<1>7. CASE MainLoopExits
  <2>1. /\ cpc'[Ticker] = "exited" /\ \A d \in Committers \ {Ticker} : cpc'[d] = cpc[d]
        /\ \A d \in AppCommitters : d # Ticker
        /\ closing' = closing
    BY <1>7, GotoParts, OffsetConstants DEF MainLoopExits
  <2> QED BY <2>1 DEF Turns, Flushing
<1>8. CASE AsyncClosePOMs
  <2>1. /\ cpc'[Closer] \in {"construct", "force"} /\ \A d \in Committers \ {Closer} : cpc'[d] = cpc[d]
        /\ cpc[Closer] = "waitloop" /\ cpc[Ticker] = "exited"
        /\ \A d \in AppCommitters : d # Closer
        /\ closing' = closing
    BY <1>8, GotoParts, OffsetConstants DEF AsyncClosePOMs
  <2>2. closing /\ \A d \in Committers \ {Closer} : cpc[d] \notin Flushing
    BY <2>1 DEF Turns, Flushing, Committers
  <2> QED BY <2>1, <2>2 DEF Turns, Flushing
<1>9. CASE ForceRelease
  <2>1. /\ cpc'[Closer] = "closed" /\ \A d \in Committers \ {Closer} : cpc'[d] = cpc[d]
        /\ cpc[Closer] = "force" /\ \A d \in AppCommitters : d # Closer
        /\ closing' = closing
    BY <1>9, GotoParts, OffsetConstants DEF ForceRelease
  <2> QED BY <2>1 DEF Turns, Flushing
<1>10. ASSUME NEW c \in Committers, ConstructRequest(c) \/ FlushCoordinator(c) \/ CommitOffset(c)
                                    \/ BeginHandling(c) \/ FlushDone(c)
       PROVE  Turns'
  <2>1. cpc[c] \in Flushing /\ UNCHANGED closing
    BY <1>10 DEF ConstructRequest, FlushCoordinator, CommitOffset, BeginHandling, FlushDone,
                 Flushing, Handling
  <2>2. \E l \in Flushing : Goto(c, l)
    BY <1>10 DEF ConstructRequest, FlushCoordinator, CommitOffset, CommitAnswered, CommitBroken,
                 BeginHandling, FlushDone, Flushing
  <2> QED BY <2>1, <2>2, <1>2
<1>11. ASSUME NEW c \in Committers, NEW p \in Partitions, HandleResponse(c, p) \/ HandleErrorOf(c, p)
       PROVE  Turns'
  BY <1>1, <1>11 DEF HandleResponse, HandleErrorOf
<1>12. ASSUME NEW p \in Partitions, Application(p) \/ Managing(p) \/ DrainError(p) \/ ClosePOMReturns(p)
       PROVE  Turns'
  BY <1>1, <1>12
  DEF Application, ManagePartition, MarkOffset, ResetOffset, AsyncClosePOM, ClosePOM,
      Managing, FetchCoordinator, FetchInitialOffset, AddPOM, DrainError, ClosePOMReturns
<1> QED
  BY <1>3, <1>4, <1>5, <1>6, <1>7, <1>8, <1>9, <1>10, <1>11, <1>12 DEF Next, Flush, Closing

\* Whoever releases managers flushes alone: no request is in flight.
LEMMA NothingCarried ==
  ASSUME IInv, NEW c \in Committers, cpc[c] = "release" \/ (c = Closer /\ cpc[c] = "force")
  PROVE  \A d \in Committers : cpc[d] \notin Carrying
<1>1. CASE cpc[c] = "release"
  BY <1>1 DEF IInv, Turns, Flushing, Carrying
<1>2. CASE c = Closer /\ cpc[c] = "force"
  <2>1. cpc[Ticker] = "exited" /\ \A d \in AppCommitters : cpc[d] = "idle"
    BY <1>2, CommittersKnown DEF IInv, Turns
  <2> QED BY <1>2, <2>1 DEF Committers, Carrying
<1> QED BY <1>1, <1>2

LEMMA StepLastResort ==
  ASSUME IInv, Next PROVE LastResort'
<1> USE CommittersKnown DEF IInv
<1>1. ASSUME UNCHANGED <<life, attempt>>, cpc'[Closer] = "force" => cpc[Closer] = "force" \/ ~AutoCommit
      PROVE  LastResort'
  BY <1>1 DEF LastResort, Live
<1>2. ASSUME NEW c \in Committers, NEW l, l # "force", Goto(c, l), UNCHANGED <<life, attempt>>
      PROVE  LastResort'
  <2>1. cpc'[Closer] = "force" => cpc[Closer] = "force"
    BY <1>2, GotoParts
  <2> QED BY <1>1, <1>2, <2>1
<1>3. ASSUME NEW p \in Partitions, Application(p) \/ Managing(p) \/ DrainError(p) \/ ClosePOMReturns(p)
      PROVE  LastResort'
  <2>1. CASE AddPOM(p)
    <3>1. ~closing /\ cpc' = cpc
      BY <2>1 DEF AddPOM, Fetched
    <3>2. cpc[Closer] = "idle"
      BY <3>1 DEF Turns
    <3> QED BY <3>1, <3>2 DEF LastResort
  <2>2. CASE ~AddPOM(p)
    <3>1. UNCHANGED <<life, cpc, attempt>>
      BY <1>3, <2>2
      DEF Application, ManagePartition, MarkOffset, ResetOffset, AsyncClosePOM, ClosePOM,
          Managing, FetchCoordinator, FetchInitialOffset, DrainError, ClosePOMReturns, pomVars
    <3> QED BY <3>1, <1>1
  <2> QED BY <2>1, <2>2
<1>4. ASSUME NEW c \in Committers, Commit(c) \/ ConstructRequest(c) \/ FlushCoordinator(c)
                                   \/ CommitOffset(c) \/ BeginHandling(c) \/ FlushDone(c)
      PROVE  LastResort'
  <2>1. UNCHANGED <<life, attempt>>
    BY <1>4 DEF Commit, ConstructRequest, FlushCoordinator, CommitOffset, BeginHandling, FlushDone, pomVars
  <2>2. \E l \in Flushing : Goto(c, l)
    BY <1>4 DEF Commit, ConstructRequest, FlushCoordinator, CommitOffset, CommitAnswered,
                CommitBroken, BeginHandling, FlushDone, Flushing
  <2> QED BY <1>2, <2>1, <2>2 DEF Flushing
<1>5. ASSUME NEW c \in Committers, NEW p \in Partitions, HandleResponse(c, p) \/ HandleErrorOf(c, p)
      PROVE  LastResort'
  BY <1>1, <1>5 DEF HandleResponse, HandleErrorOf
<1>6. ASSUME NEW c \in Committers, Release(c) PROVE LastResort'
  <2>1. CASE c = Closer
    <3>1. /\ cpc'[Closer] = AfterRelease({p \in Partitions : life'[p] = "live"})
          /\ attempt' = attempt + 1
      BY <1>6, <2>1, GotoParts DEF Release
    <3>2. cpc'[Closer] = "force" => {p \in Partitions : life'[p] = "live"} = {} \/ attempt = RetryMax
      BY <3>1 DEF AfterRelease
    <3> QED BY <3>1, <3>2 DEF LastResort, Live
  <2>2. CASE c # Closer
    <3>1. cpc'[Closer] = cpc[Closer] /\ cpc[c] = "release"
      BY <1>6, <2>2, GotoParts DEF Release
    <3>2. cpc[Closer] # "force"
      BY <2>2, <3>1 DEF Turns, Committers, Flushing
    <3> QED BY <3>1, <3>2 DEF LastResort
  <2> QED BY <2>1, <2>2
<1>7. CASE Tick \/ Close \/ MainLoopExits
  BY <1>2, <1>7 DEF Tick, Close, MainLoopExits, pomVars
<1>8. CASE AsyncClosePOMs
  <2>1. UNCHANGED <<life, attempt>> /\ (cpc'[Closer] = "force" => ~AutoCommit)
    BY SMT, <1>8, GotoParts DEF AsyncClosePOMs
  <2> QED BY <1>1, <2>1
<1>9. CASE ForceRelease
  <2>1. cpc'[Closer] = "closed"
    BY <1>9, GotoParts DEF ForceRelease
  <2> QED BY <2>1 DEF LastResort
<1> QED
  BY <1>3, <1>4, <1>5, <1>6, <1>7, <1>8, <1>9 DEF Next, Flush, Closing

-----------------------------------------------------------------------------
(* The partitions.                                                         *)

\* A step that gives no manager a position, cleans none and stores nothing.
LEMMA TrackedKept ==
  ASSUME IInv, UNCHANGED <<stored, marks, at>>, NEW p \in Partitions, life'[p] = "live" => life[p] = "live",
         life'[p] = "live" => Value(p)' = Value(p) /\ (~pom'[p].dirty => stored[p] = Value(p))
  PROVE  Tracked(p)'
  BY DEF IInv, Tracked

LEMMA StepPartitions ==
  ASSUME IInv, Next, NEW q \in Partitions PROVE Tracked(q)' /\ Fetched(q)'
<1> USE CommittersKnown DEF IInv
<1>0. Tracked(q) /\ Fetched(q)
  OBVIOUS
<1>1. ASSUME UNCHANGED <<stored, life, pom, marks, at>> PROVE Tracked(q)'
  BY <1>0, <1>1 DEF Tracked, Value
<1>2. ASSUME fpc'[q] = fpc[q], fvalue'[q] = fvalue[q], stored'[q] = stored[q] \/ fpc[q] = "idle",
             closing' => closing \/ fpc[q] = "idle",
             life'[q] = "live" => life[q] = "live" \/ fpc[q] = "idle"
      PROVE  Fetched(q)'
  BY <1>0, <1>2 DEF Fetched
<1>3. ASSUME UNCHANGED <<stored, life, pom, marks, at, fpc, fvalue, closing>> PROVE Tracked(q)' /\ Fetched(q)'
  BY <1>1, <1>2, <1>3
<1>4. ASSUME NEW p \in Partitions, Application(p) \/ Managing(p) \/ DrainError(p) \/ ClosePOMReturns(p)
      PROVE  Tracked(q)' /\ Fetched(q)'
  <2>1. CASE ManagePartition(p) \/ FetchCoordinator(p) \/ FetchInitialOffset(p)
    <3>1. UNCHANGED <<stored, life, pom, marks, at, closing>>
      BY <2>1 DEF ManagePartition, FetchCoordinator, FetchInitialOffset, pomVars, history
    <3>2. CASE p = q
      <4>1. CASE ManagePartition(p)
        <5>1. fpc'[p] = "coordinator" /\ life[p] # "live" /\ ~closing
          BY <4>1 DEF ManagePartition, FlowTypeOK
        <5> QED BY <1>1, <3>1, <3>2, <5>1 DEF Fetched
      <4>2. CASE FetchCoordinator(p) \/ FetchInitialOffset(p)
        <5>1. fpc[p] # "idle"
          BY <4>2 DEF FetchCoordinator, FetchInitialOffset
        <5>2. fpc'[p] = "add" => fvalue'[p] = stored[p]
          BY <4>2 DEF FetchCoordinator, FetchInitialOffset, FetchOk, FetchMoved, FetchLoading, FetchFails,
                      FetchAgain, FlowTypeOK
        <5> QED BY <1>0, <1>1, <3>1, <3>2, <5>1, <5>2 DEF Fetched
      <4> QED BY <2>1, <4>1, <4>2
    <3>3. CASE p # q
      <4>1. fpc'[q] = fpc[q]
        BY <2>1, <3>3 DEF ManagePartition, FetchCoordinator, FetchInitialOffset, FetchOk, FetchMoved,
                          FetchLoading, FetchFails, FetchAgain, FlowTypeOK
      <4>2. fvalue'[q] = fvalue[q]
        BY <2>1, <3>3 DEF ManagePartition, FetchCoordinator, FetchInitialOffset, FetchOk, FetchMoved,
                          FetchLoading, FetchFails, FlowTypeOK
      <4> QED BY <1>1, <1>2, <3>1, <4>1, <4>2
    <3> QED BY <3>2, <3>3
  <2>2. CASE AddPOM(p)
    <3>1. fpc[p] = "add" /\ life[p] # "live" /\ fvalue[p] = stored[p]
      BY <2>2 DEF AddPOM, Fetched
    <3>2. /\ life' = [life EXCEPT ![p] = "live"] /\ Value(p)' = fvalue[p]
          /\ \A r \in Partitions \ {p} : pom'[r] = pom[r]
          /\ marks' = [marks EXCEPT ![p] = <<fvalue[p]>>] /\ at' = [at EXCEPT ![p] = 1]
      BY <2>2, <3>1, AddParts
    <3>3. /\ UNCHANGED <<stored, fvalue, closing>> /\ fpc' = [fpc EXCEPT ![p] = "idle"]
      BY <2>2 DEF AddPOM
    <3>4. CASE p = q
      <4>1. marks'[q] = <<fvalue[q]>> /\ at'[q] = 1 /\ fpc'[q] = "idle"
        BY <3>2, <3>3, <3>4 DEF FlowTypeOK
      <4>2. Len(marks'[q]) = 1 /\ marks'[q][1] = fvalue[q]
        BY SMT, <4>1
      <4> QED BY SMT, <3>1, <3>2, <3>3, <3>4, <4>1, <4>2 DEF Tracked, Fetched
    <3>5. CASE p # q
      <4>1. /\ life'[q] = life[q] /\ pom'[q] = pom[q] /\ marks'[q] = marks[q] /\ at'[q] = at[q]
            /\ fpc'[q] = fpc[q]
        BY <3>2, <3>3, <3>5 DEF FlowTypeOK
      <4>2. Value(q)' = Value(q)
        BY <4>1 DEF Value
      <4> QED BY <1>0, <3>3, <4>1, <4>2 DEF Tracked, Fetched
    <3> QED BY <3>4, <3>5
  <2>3. CASE MarkOffset(p) \/ ResetOffset(p)
    <3>1. UNCHANGED <<stored, life, fpc, fvalue, closing, at>> /\ life[p] = "live"
      BY <2>3 DEF MarkOffset, ResetOffset, fetchVars
    <3>2. PICK off \in 0..MaxOffset, m \in Metas : SetOffset(p, off, m)
      BY <2>3 DEF MarkOffset, ResetOffset
    <3>3. /\ pom'[p].dirty = TRUE /\ Value(p)' \in Position /\ marks'[p] = Append(marks[p], Value(p)')
          /\ \A r \in Partitions \ {p} : pom'[r] = pom[r] /\ marks'[r] = marks[r]
      BY <3>2, SetOffsetParts
    <3>4. CASE p = q
      <4>1. marks[q] \in Seq(Position) /\ at[q] \in Nat /\ Len(marks[q]) \in Nat
        BY SMT DEF FlowTypeOK
      <4>2. /\ Len(marks'[q]) = Len(marks[q]) + 1 /\ marks'[q][Len(marks[q]) + 1] = Value(q)'
            /\ \A k \in 1..Len(marks[q]) : marks'[q][k] = marks[q][k]
        BY SMT, <3>3, <3>4, <4>1
      <4>3. at[q] \in 1..Len(marks[q])
        BY SMT, <1>0, <3>1, <3>4, <4>1 DEF Tracked
      <4>4. Tracked(q)'
        BY SMT, <1>0, <3>1, <3>3, <3>4, <4>1, <4>2, <4>3 DEF Tracked
      <4> QED BY <1>2, <3>1, <4>4
    <3>5. CASE p # q
      <4>1. Value(q)' = Value(q)
        BY <3>3, <3>5 DEF Value
      <4>2. Tracked(q)'
        BY <1>0, <3>1, <3>3, <3>5, <4>1 DEF Tracked
      <4> QED BY <1>2, <3>1, <4>2
    <3> QED BY <3>4, <3>5
  <2>4. CASE AsyncClosePOM(p) \/ ClosePOM(p)
    <3>1. UNCHANGED <<stored, life, fpc, fvalue, closing, marks, at>>
      BY <2>4 DEF AsyncClosePOM, ClosePOM, fetchVars, history
    <3>2. Value(q)' = Value(q) /\ pom'[q].dirty = pom[q].dirty
      BY <2>4, DoneParts DEF AsyncClosePOM, ClosePOM
    <3>3. Tracked(q)'
      BY <1>0, <3>1, <3>2 DEF Tracked
    <3> QED BY <1>2, <3>1, <3>3
  <2>5. CASE DrainError(p) \/ ClosePOMReturns(p)
    BY <1>3, <2>5 DEF DrainError, ClosePOMReturns, pomVars, fetchVars, history
  <2> QED BY <1>4, <2>1, <2>2, <2>3, <2>4, <2>5 DEF Application, Managing
<1>5. ASSUME NEW c \in Committers, Commit(c) \/ ConstructRequest(c) \/ FlushCoordinator(c)
                                   \/ BeginHandling(c) \/ FlushDone(c)
      PROVE  Tracked(q)' /\ Fetched(q)'
  BY <1>3, <1>5 DEF Commit, ConstructRequest, FlushCoordinator, BeginHandling, FlushDone,
                    pomVars, fetchVars, history
\* What is stored belongs to a manager, and is one of its positions.
<1>6. ASSUME NEW c \in Committers, CommitOffset(c) PROVE Tracked(q)' /\ Fetched(q)'
  <2>1. cpc[c] = "commit" /\ UNCHANGED <<life, pom, fpc, fvalue, marks, closing>>
    BY <1>6 DEF CommitOffset, pomVars, fetchVars
  <2>2. \/ UNCHANGED <<stored, at>>
        \/ \E ps \in SUBSET DOMAIN req[c] : StoreAt(c, ps)
    BY <1>6 DEF CommitOffset, CommitAnswered, CommitBroken
  <2>3. CASE UNCHANGED <<stored, at>>
    BY <1>3, <2>1, <2>3
  <2>4. ASSUME NEW ps \in SUBSET DOMAIN req[c], StoreAt(c, ps)
        PROVE  Tracked(q)' /\ Fetched(q)'
    <3>1. CASE q \in ps
      <4>1. /\ stored'[q] = req[c][q].value /\ at'[q] = req[c][q].mark
        BY <2>4, <3>1 DEF StoreAt
      <4>2. /\ life[q] = "live" /\ pom[q].dirty
            /\ req[c][q].mark <= Len(marks[q]) /\ 1 <= req[c][q].mark
            /\ marks[q][req[c][q].mark] = req[c][q].value
        BY <2>1, <3>1 DEF Carried, Carrying, Live
      <4>3. Value(q)' = Value(q)
        BY <2>1 DEF Value
      <4>4. Tracked(q)'
        BY <1>0, <2>1, <4>1, <4>2, <4>3 DEF Tracked
      <4>5. fpc[q] = "idle"
        BY <1>0, <4>2 DEF Fetched
      <4> QED BY <1>2, <2>1, <4>4, <4>5
    <3>2. CASE q \notin ps
      <4>1. stored'[q] = stored[q] /\ at'[q] = at[q]
        BY <2>4, <3>2 DEF StoreAt
      <4>2. Value(q)' = Value(q)
        BY <2>1 DEF Value
      <4>3. Tracked(q)'
        BY <1>0, <2>1, <4>1, <4>2 DEF Tracked
      <4> QED BY <1>2, <2>1, <4>1, <4>3
    <3> QED BY <3>1, <3>2
  <2> QED BY <2>2, <2>3, <2>4
\* A manager becomes clean only when its position is the one that was stored.
<1>7. ASSUME NEW c \in Committers, NEW p \in Partitions, HandleResponse(c, p) \/ HandleErrorOf(c, p)
      PROVE  Tracked(q)' /\ Fetched(q)'
  <2>1. UNCHANGED <<stored, life, fpc, fvalue, marks, at, closing>>
    BY <1>7 DEF HandleResponse, HandleErrorOf, fetchVars, history
  <2>2. CASE pom' = pom
    BY <1>3, <2>1, <2>2
  <2>3. CASE pom' # pom
    <3>1. /\ UpdateCommitted(p, req[c][p].value) /\ resp[c][p] = "ok"
          /\ cpc[c] = "response" /\ p \in todo[c]
      BY <1>7, <2>3 DEF HandleResponse, HandleErrorOf, AnswerFor
    <3>2. stored[p] = req[c][p].value
      BY <3>1 DEF Answered
    <3>3. /\ Value(q)' = Value(q) /\ (q # p => pom'[q].dirty = pom[q].dirty)
          /\ ~pom'[p].dirty => ~pom[p].dirty \/ Value(p) = req[c][p].value
      BY <3>1, UpdateParts
    <3>4. Tracked(q)'
      BY <1>0, <2>1, <3>2, <3>3 DEF Tracked
    <3> QED BY <1>2, <2>1, <3>4
  <2> QED BY <2>2, <2>3
<1>8. ASSUME NEW force, ReleasePOMs(force), UNCHANGED <<stored, pom, fpc, fvalue, marks, at, closing>>
      PROVE  Tracked(q)' /\ Fetched(q)'
  <2>1. life'[q] = "live" => life[q] = "live"
    BY <1>8 DEF ReleasePOMs
  <2>2. Value(q)' = Value(q)
    BY <1>8 DEF Value
  <2>3. Tracked(q)'
    BY <1>0, <1>8, <2>1, <2>2 DEF Tracked
  <2> QED BY <1>2, <1>8, <2>1, <2>3
<1>9. ASSUME NEW c \in Committers, Release(c) PROVE Tracked(q)' /\ Fetched(q)'
  BY <1>8, <1>9 DEF Release, fetchVars, history
<1>10. CASE Tick \/ MainLoopExits
  BY <1>3, <1>10 DEF Tick, MainLoopExits, pomVars, fetchVars, history
<1>11. CASE Close
  <2>1. fpc[q] = "idle" /\ UNCHANGED <<stored, life, pom, fpc, fvalue, marks, at>>
    BY <1>11 DEF Close, pomVars, fetchVars, history
  <2> QED BY <1>1, <1>2, <2>1
<1>12. CASE AsyncClosePOMs
  <2>1. UNCHANGED <<stored, life, fpc, fvalue, marks, at, closing>>
    BY <1>12 DEF AsyncClosePOMs, fetchVars, history
  <2>2. Value(q)' = Value(q) /\ pom'[q].dirty = pom[q].dirty
    BY <1>12, AllDoneParts DEF AsyncClosePOMs
  <2>3. Tracked(q)'
    BY <1>0, <2>1, <2>2 DEF Tracked
  <2> QED BY <1>2, <2>1, <2>3
<1>13. CASE ForceRelease
  BY <1>8, <1>13 DEF ForceRelease, fetchVars, history
<1> QED
  BY <1>4, <1>5, <1>6, <1>7, <1>9, <1>10, <1>11, <1>12, <1>13 DEF Next, Flush, Closing

-----------------------------------------------------------------------------
(* The requests in flight.                                                 *)

\* The application's steps leave a request in flight as it is.
LEMMA RequestKept ==
  ASSUME IInv, NEW d \in Committers, UNCHANGED <<stored, cpc, req, resp, todo>>,
         \A p \in Partitions : life[p] = "live" =>
           /\ life'[p] = "live" /\ at'[p] = at[p] /\ (pom[p].dirty => pom'[p].dirty)
           /\ Len(marks[p]) <= Len(marks'[p])
           /\ \A k \in 1..Len(marks[p]) : marks'[p][k] = marks[p][k]
  PROVE  Carried(d)' /\ Answered(d)'
<1>1. Answered(d)'
  BY DEF IInv, Answered
<1>2. SUFFICES ASSUME cpc[d] \in Carrying, NEW p \in DOMAIN req[d]
               PROVE  /\ p \in Live' /\ req[d][p] \in Requested
                      /\ at'[p] <= req[d][p].mark /\ req[d][p].mark <= Len(marks'[p])
                      /\ 1 <= req[d][p].mark /\ marks'[p][req[d][p].mark] = req[d][p].value
                      /\ cpc[d] \in {"coordinator", "commit"} => pom'[p].dirty
  BY <1>1 DEF Carried
<1>3. /\ p \in Live /\ req[d][p] \in Requested
      /\ at[p] <= req[d][p].mark /\ req[d][p].mark <= Len(marks[p])
      /\ 1 <= req[d][p].mark /\ marks[p][req[d][p].mark] = req[d][p].value
      /\ cpc[d] \in {"coordinator", "commit"} => pom[p].dirty
  BY <1>2 DEF IInv, Carried
<1>4. req[d][p].mark \in Nat /\ p \in Partitions /\ life[p] = "live"
  BY <1>3 DEF Requested, Live
<1>5. Len(marks[p]) \in Nat
  BY SMT, <1>4 DEF IInv, FlowTypeOK
<1>6. req[d][p].mark \in 1..Len(marks[p])
  BY SMT, <1>3, <1>4, <1>5
<1>7. marks'[p][req[d][p].mark] = req[d][p].value
  BY <1>3, <1>4, <1>6
<1>8. /\ life'[p] = "live" /\ at'[p] = at[p] /\ (pom[p].dirty => pom'[p].dirty)
      /\ Len(marks[p]) <= Len(marks'[p])
  BY <1>4
<1>9. req[d][p].mark <= Len(marks'[p])
  <2> DEFINE n == Len(marks'[p])
  <2>1. Len(marks[p]) <= n
    BY <1>8
  <2> QED BY SMT, <1>3, <1>4, <1>5, <2>1
<1> QED BY <1>3, <1>4, <1>7, <1>8, <1>9 DEF Live

\* Somebody who carries no request.
LEMMA NoRequestHeld ==
  ASSUME NEW d \in Committers, cpc'[d] \notin Carrying PROVE Carried(d)' /\ Answered(d)'
  BY DEF Carried, Answered, Carrying

\* While one flushes, the others carry nothing.
LEMMA OthersIdle ==
  ASSUME IInv, NEW c \in Committers, cpc[c] \in Flushing, NEW d \in Committers \ {c}
  PROVE  cpc[d] \notin Carrying
  BY DEF IInv, Turns, Flushing, Carrying

LEMMA ConstructCarries ==
  ASSUME IInv, NEW c \in Committers, ConstructRequest(c) PROVE Carried(c)'
<1>1. req'[c] = [p \in DirtyPOMs |-> [value |-> Value(p), mark |-> Len(marks[p])]]
  BY DEF ConstructRequest, IInv, FlowTypeOK
<1>2. UNCHANGED <<life, pom, marks, at>>
  BY DEF ConstructRequest, pomVars, history
<1>3. SUFFICES ASSUME NEW p \in DirtyPOMs
               PROVE  /\ p \in Live' /\ req'[c][p] \in Requested
                      /\ at'[p] <= req'[c][p].mark /\ req'[c][p].mark <= Len(marks'[p])
                      /\ 1 <= req'[c][p].mark /\ marks'[p][req'[c][p].mark] = req'[c][p].value
                      /\ pom'[p].dirty
  BY <1>1 DEF Carried
<1>4. p \in Live /\ p \in Partitions /\ pom[p].dirty /\ life[p] = "live"
  BY DEF DirtyPOMs, Live
<1>5. req'[c][p] = [value |-> Value(p), mark |-> Len(marks[p])]
  BY <1>1
<1>6. Value(p) \in Position /\ Len(marks[p]) \in Nat /\ at[p] \in Nat
  BY SMT, <1>4, PomParts DEF IInv, FlowTypeOK
<1>7. req'[c][p] \in Requested /\ req'[c][p].value = Value(p) /\ req'[c][p].mark = Len(marks[p])
  BY SMT, <1>5, <1>6 DEF Requested
<1>8. at[p] <= Len(marks[p]) /\ 1 <= at[p] /\ marks[p][Len(marks[p])] = Value(p)
  BY <1>4 DEF IInv, Tracked
<1> QED BY SMT, <1>2, <1>4, <1>6, <1>7, <1>8 DEF Live

LEMMA CommitCarries ==
  ASSUME IInv, NEW c \in Committers, CommitOffset(c) PROVE Carried(c)' /\ Answered(c)'
<1>1. /\ cpc[c] = "commit" /\ UNCHANGED <<life, pom, marks, req, todo>>
      /\ cpc'[c] \in {"answered", "failed"}
  BY GotoParts DEF CommitOffset, CommitAnswered, CommitBroken, pomVars, IInv
<1>2. \A p \in DOMAIN req[c] : p \in Live /\ p \in Partitions
  BY <1>1 DEF IInv, Carried, Carrying, Live
<1>3. \A p \in DOMAIN req[c] : at'[p] = at[p] \/ at'[p] = req[c][p].mark
  BY <1>2 DEF CommitOffset, CommitAnswered, CommitBroken, StoreAt
<1>4. Carried(c)'
  <2>1. SUFFICES ASSUME NEW p \in DOMAIN req[c]
                 PROVE  /\ p \in Live' /\ req'[c][p] \in Requested
                        /\ at'[p] <= req'[c][p].mark /\ req'[c][p].mark <= Len(marks'[p])
                        /\ 1 <= req'[c][p].mark /\ marks'[p][req'[c][p].mark] = req'[c][p].value
    BY <1>1 DEF Carried
  <2>2. /\ p \in Live /\ req[c][p] \in Requested
        /\ at[p] <= req[c][p].mark /\ req[c][p].mark <= Len(marks[p])
        /\ 1 <= req[c][p].mark /\ marks[p][req[c][p].mark] = req[c][p].value
    BY <1>1 DEF IInv, Carried, Carrying
  <2>3. req[c][p].mark \in Nat
    BY <2>2 DEF Requested
  <2> QED BY SMT, <1>1, <1>3, <2>2, <2>3 DEF Live
<1>5. Answered(c)'
  <2>1. CASE cpc'[c] = "failed"
    BY <2>1 DEF Answered
  <2>2. CASE cpc'[c] = "answered"
    <3>1. CommitAnswered(c)
      BY SMT, <2>2, GotoParts DEF CommitOffset, CommitBroken, IInv
    <3>2. PICK r \in [DOMAIN req[c] -> Answers] :
            /\ StoreAt(c, {p \in DOMAIN r : r[p] = "ok"})
            /\ resp' = [resp EXCEPT ![c] = r]
      BY <3>1 DEF CommitAnswered
    <3>3. resp'[c] = r
      BY <3>2 DEF IInv, FlowTypeOK
    <3>4. \A p \in DOMAIN req[c] : r[p] = "ok" => stored'[p] = req[c][p].value
      BY <1>2, <3>2 DEF StoreAt
    <3> QED BY <1>1, <2>2, <3>2, <3>3, <3>4 DEF Answered
  <2> QED BY <1>1, <2>1, <2>2
<1> QED BY <1>4, <1>5

LEMMA StepFlushes ==
  ASSUME IInv, Next, NEW d \in Committers PROVE Carried(d)' /\ Answered(d)'
<1> USE CommittersKnown DEF IInv
<1>1. ASSUME UNCHANGED <<stored, life, marks, at, pom, cpc, req, resp, todo>>
      PROVE  Carried(d)' /\ Answered(d)'
  BY <1>1 DEF Carried, Answered, Live
<1>2. ASSUME NEW p \in Partitions, Application(p) \/ Managing(p) \/ DrainError(p) \/ ClosePOMReturns(p)
      PROVE  Carried(d)' /\ Answered(d)'
  <2>1. UNCHANGED <<stored, cpc, req, resp, todo>>
    BY <1>2
    DEF Application, ManagePartition, MarkOffset, ResetOffset, AsyncClosePOM, ClosePOM,
        Managing, FetchCoordinator, FetchInitialOffset, AddPOM, DrainError, ClosePOMReturns, flushVars
  <2>2. CASE AddPOM(p)
    <3>1. life[p] # "live"
      BY <2>2 DEF AddPOM, Fetched
    <3>2. /\ life' = [life EXCEPT ![p] = "live"]
          /\ \A r \in Partitions \ {p} : pom'[r] = pom[r]
          /\ marks' = [marks EXCEPT ![p] = <<fvalue[p]>>]
          /\ at' = [at EXCEPT ![p] = IF stored[p] = fvalue[p] THEN 1 ELSE 0]
      BY <2>2, <3>1, AddParts
    <3>3. \A r \in Partitions : life[r] = "live" =>
            life'[r] = "live" /\ at'[r] = at[r] /\ marks'[r] = marks[r] /\ pom'[r] = pom[r]
      BY <3>1, <3>2 DEF FlowTypeOK
    <3>4. \A r \in Partitions : Len(marks[r]) \in Nat
      BY SMT DEF FlowTypeOK
    <3>5. \A r \in Partitions : life[r] = "live" => Len(marks[r]) <= Len(marks'[r])
      BY SMT, <3>3, <3>4
    <3> QED BY <2>1, <3>3, <3>5, RequestKept
  <2>3. CASE MarkOffset(p) \/ ResetOffset(p)
    <3>1. UNCHANGED <<life, at>>
      BY <2>3 DEF MarkOffset, ResetOffset
    <3>2. PICK off \in 0..MaxOffset, m \in Metas : SetOffset(p, off, m)
      BY <2>3 DEF MarkOffset, ResetOffset
    <3>3. /\ pom'[p].dirty = TRUE /\ Value(p)' \in Position /\ marks'[p] = Append(marks[p], Value(p)')
          /\ \A r \in Partitions \ {p} : pom'[r] = pom[r] /\ marks'[r] = marks[r]
      BY <3>2, SetOffsetParts
    <3>4. ASSUME NEW r \in Partitions
          PROVE  /\ Len(marks[r]) <= Len(marks'[r])
                 /\ \A k \in 1..Len(marks[r]) : marks'[r][k] = marks[r][k]
      <4>1. marks[r] \in Seq(Position) /\ Len(marks[r]) \in Nat
        BY SMT DEF FlowTypeOK
      <4>2. CASE r = p
        BY SMT, <3>3, <4>1, <4>2
      <4>3. CASE r # p
        BY SMT, <3>3, <4>1, <4>3
      <4> QED BY <4>2, <4>3
    <3>5. \A r \in Partitions : pom[r].dirty => pom'[r].dirty
      BY <3>3
    <3> QED BY <2>1, <3>1, <3>4, <3>5, RequestKept
  <2>4. CASE AsyncClosePOM(p) \/ ClosePOM(p)
    <3>1. UNCHANGED <<life, marks, at>>
      BY <2>4 DEF AsyncClosePOM, ClosePOM, history
    <3>2. \A r \in Partitions : pom'[r].dirty = pom[r].dirty
      BY <2>4, DoneParts DEF AsyncClosePOM, ClosePOM
    <3>3. \A r \in Partitions : Len(marks[r]) \in Nat
      BY SMT DEF FlowTypeOK
    <3> QED BY SMT, <2>1, <3>1, <3>2, <3>3, RequestKept
  <2>5. CASE ~(AddPOM(p) \/ MarkOffset(p) \/ ResetOffset(p) \/ AsyncClosePOM(p) \/ ClosePOM(p))
    <3>1. UNCHANGED <<life, marks, at, pom>>
      BY <1>2, <2>5 DEF Application, ManagePartition, Managing, FetchCoordinator, FetchInitialOffset,
                        DrainError, ClosePOMReturns, pomVars, history
    <3> QED BY <1>1, <2>1, <3>1
  <2> QED BY <2>2, <2>3, <2>4, <2>5
\* The one that flushes.
<1>3. ASSUME NEW c \in Committers, ConstructRequest(c) \/ FlushCoordinator(c) \/ CommitOffset(c)
                                   \/ BeginHandling(c) \/ FlushDone(c)
      PROVE  Carried(d)' /\ Answered(d)'
  <2>1. cpc[c] \in Flushing
    BY <1>3 DEF ConstructRequest, FlushCoordinator, CommitOffset, BeginHandling, FlushDone,
                Flushing, Handling
  <2>2. PICK l \in Flushing : Goto(c, l)
    BY <1>3 DEF ConstructRequest, FlushCoordinator, CommitOffset, CommitAnswered, CommitBroken,
                BeginHandling, FlushDone, Flushing
  <2>3. CASE d # c
    <3>1. cpc'[d] = cpc[d]
      BY <2>2, <2>3, GotoParts
    <3> QED BY <2>1, <2>3, <3>1, OthersIdle, NoRequestHeld
  <2>4. CASE d = c /\ ConstructRequest(c)
    <3>1. cpc'[c] \in {"release", "coordinator"}
      BY <2>4, GotoParts DEF ConstructRequest
    <3> QED BY <2>4, <3>1, ConstructCarries DEF Answered
  <2>5. CASE d = c /\ FlushCoordinator(c)
    <3>1. /\ cpc[c] = "coordinator" /\ cpc'[c] \in {"failed", "commit"}
          /\ UNCHANGED <<life, pom, marks, at, req>>
      BY <2>5, GotoParts DEF FlushCoordinator, pomVars, history
    <3> QED BY <2>5, <3>1 DEF Carried, Answered, Carrying, Live
  <2>6. CASE d = c /\ CommitOffset(c)
    BY <2>6, CommitCarries
  <2>7. CASE d = c /\ BeginHandling(c)
    <3>1. /\ UNCHANGED <<stored, life, pom, marks, at, req, resp>>
          /\ \/ cpc[c] = "answered" /\ cpc'[c] = "response" /\ todo'[c] = DOMAIN req[c] \cap Live
             \/ cpc[c] = "failed" /\ cpc'[c] = "error"
      BY <2>7, GotoParts DEF BeginHandling, FlowTypeOK, pomVars, history
    <3>2. Carried(d)'
      BY <2>7, <3>1 DEF Carried, Carrying, Live
    <3>3. Answered(d)'
      BY <2>7, <3>1 DEF Answered
    <3> QED BY <3>2, <3>3
  <2>8. CASE d = c /\ FlushDone(c)
    <3>1. cpc'[c] = "release"
      BY <2>8, GotoParts DEF FlushDone
    <3> QED BY <2>8, <3>1, NoRequestHeld DEF Carrying
  <2> QED BY <1>3, <2>3, <2>4, <2>5, <2>6, <2>7, <2>8
<1>4. ASSUME NEW c \in Committers, NEW p \in Partitions, HandleResponse(c, p) \/ HandleErrorOf(c, p)
      PROVE  Carried(d)' /\ Answered(d)'
  <2>1. /\ cpc[c] \in {"response", "error"} /\ UNCHANGED <<stored, life, marks, at, cpc, req, resp>>
        /\ todo' = [todo EXCEPT ![c] = todo[c] \ {p}]
    BY <1>4 DEF HandleResponse, HandleErrorOf, Handled, history
  <2>2. CASE d # c
    BY <2>1, <2>2, OthersIdle, NoRequestHeld DEF Flushing
  <2>3. CASE d = c
    <3>1. todo'[d] \subseteq todo[d]
      BY <2>1, <2>3 DEF FlowTypeOK
    <3>2. Answered(d)'
      BY <2>1, <3>1 DEF Answered
    <3>3. Carried(d)'
      BY <2>1, <2>3 DEF Carried, Live
    <3> QED BY <3>2, <3>3
  <2> QED BY <2>2, <2>3
<1>5. ASSUME NEW c \in Committers, NEW l, l \notin Carrying, Goto(c, l),
             \A e \in Committers \ {c} : cpc[e] \notin Carrying
      PROVE  Carried(d)' /\ Answered(d)'
  <2>1. cpc'[d] \notin Carrying
    BY <1>5, GotoParts
  <2> QED BY <2>1, NoRequestHeld
<1>6. ASSUME NEW c \in Committers, Release(c) PROVE Carried(d)' /\ Answered(d)'
  <2>1. \A e \in Committers : cpc[e] \notin Carrying
    BY <1>6, NothingCarried DEF Release
  <2>2. \E l : l \notin Carrying /\ Goto(c, l)
    BY <1>6 DEF Release, AfterRelease, Carrying
  <2> QED BY <1>5, <2>1, <2>2
<1>7. CASE ForceRelease
  <2>1. \A e \in Committers : cpc[e] \notin Carrying
    BY <1>7, NothingCarried DEF ForceRelease
  <2> QED BY <1>5, <1>7, <2>1 DEF ForceRelease, Carrying
<1>8. ASSUME NEW c \in Committers, Commit(c) PROVE Carried(d)' /\ Answered(d)'
  BY <1>5, <1>8 DEF Commit, Alone, Flushing, Carrying
<1>9. CASE Tick
  BY <1>5, <1>9 DEF Tick, Alone, Flushing, Carrying
<1>10. CASE Close \/ MainLoopExits
  <2>1. UNCHANGED <<stored, life, marks, at, pom, req, resp, todo>>
    BY <1>10 DEF Close, MainLoopExits, pomVars, flushVars, history
  <2>2. cpc'[d] = cpc[d] \/ cpc'[d] \in {"waitloop", "exited"}
    BY <1>10, GotoParts DEF Close, MainLoopExits
  <2>3. CASE cpc'[d] = cpc[d]
    BY <2>1, <2>3 DEF Carried, Answered, Live
  <2>4. CASE cpc'[d] \in {"waitloop", "exited"}
    BY <2>4, NoRequestHeld DEF Carrying
  <2> QED BY <2>2, <2>3, <2>4
<1>11. CASE AsyncClosePOMs
  <2>1. cpc[Closer] = "waitloop" /\ cpc[Ticker] = "exited"
    BY <1>11 DEF AsyncClosePOMs
  <2>2. \A e \in Committers \ {Closer} : cpc[e] \notin Carrying
    BY <2>1 DEF Turns, Committers, Carrying
  <2>3. \E l : l \notin Carrying /\ Goto(Closer, l)
    BY <1>11 DEF AsyncClosePOMs, Carrying
  <2> QED BY <1>5, <2>2, <2>3
<1> QED
  BY <1>2, <1>3, <1>4, <1>6, <1>7, <1>8, <1>9, <1>10, <1>11 DEF Next, Flush, Closing

LEMMA InitIInv == Init /\ ~Overlap => IInv
<1> SUFFICES ASSUME Init, ~Overlap PROVE IInv
  OBVIOUS
<1>1. NoMeta \in Metas
  BY OffsetConstants DEF NoMeta
<1>2. NotStored \in Position
  BY SMT, <1>1, OffsetConstants DEF NotStored, Position
<1>3. [offset |-> -1, meta |-> NoMeta, dirty |-> FALSE, done |-> FALSE] \in PomRecord
  BY SMT, <1>1, OffsetConstants DEF PomRecord
<1>4. FlowTypeOK
  <2>1. pom \in [Partitions -> PomRecord] /\ stored \in [Partitions -> Position] /\ fvalue \in [Partitions -> Position]
    BY <1>2, <1>3 DEF Init
  <2>2. cpc \in [Committers -> Locations]
    BY DEF Init, Locations
  <2>3. marks \in [Partitions -> Seq(Position)]
    BY SMT DEF Init
  <2> QED BY <2>1, <2>2, <2>3 DEF Init, FlowTypeOK
<1>5. Turns /\ LastResort
  BY CommittersKnown, OffsetConstants DEF Init, Turns, LastResort, Flushing
<1>6. NoSendOnClosed
  BY DEF Init, NoSendOnClosed, Handling
<1>7. \A p \in Partitions : Tracked(p) /\ Fetched(p)
  BY SMT DEF Init, Tracked, Fetched
<1>8. \A c \in Committers : Carried(c) /\ Answered(c)
  BY DEF Init, Carried, Answered, Carrying
<1> QED BY <1>4, <1>5, <1>6, <1>7, <1>8 DEF IInv

LEMMA NextIInv == IInv /\ [Next]_vars => IInv'
<1> SUFFICES ASSUME IInv, [Next]_vars PROVE IInv'
  OBVIOUS
<1>1. CASE Next
  <2>1. NoSendOnClosed'
    BY NextSendInv DEF IInv, SendInv, FlowTypeOK
  <2> QED BY <1>1, <2>1, StepTypes, StepTurns, StepLastResort, StepPartitions, StepFlushes DEF IInv
<1>2. CASE UNCHANGED vars
  <2>1. UNCHANGED <<stored, life, pom, fpc, fvalue, cpc, req, resp, todo, attempt, closing, marks, at>>
    BY <1>2 DEF vars, pomVars, fetchVars, flushVars, history
  <2>2. FlowTypeOK'
    BY <2>1 DEF IInv, FlowTypeOK
  <2>3. Turns' /\ LastResort'
    BY <2>1 DEF IInv, Turns, LastResort, Live
  <2>4. NoSendOnClosed'
    BY <2>1 DEF IInv, NoSendOnClosed, Live
  <2>5. \A p \in Partitions : Tracked(p)' /\ Fetched(p)'
    BY <2>1 DEF IInv, Tracked, Fetched, Value
  <2>6. \A c \in Committers : Carried(c)' /\ Answered(c)'
    BY SMT, <2>1 DEF IInv, Carried, Answered, Live
  <2> QED BY <2>2, <2>3, <2>4, <2>5, <2>6 DEF IInv
<1> QED BY <1>1, <1>2

LEMMA IInvHolds == ~Overlap /\ Spec => []IInv
  BY InitIInv, NextIInv, PTL DEF Spec

-----------------------------------------------------------------------------
(* What follows from the invariant.                                        *)

\* When no two flushes overlap, a manager that is not dirty has its position in Kafka,
\* however marks, resets, refused commits and lost answers come together: updateCommitted
\* clears the flag only for the position that was committed.
THEOREM OffsetsClean == ~Overlap /\ Spec => []CleanMeansCommitted
<1>1. IInv => CleanMeansCommitted
  BY DEF IInv, Tracked, CleanMeansCommitted, Live
<1> QED BY <1>1, IInvHolds, PTL

LEMMA ContractInit == Init => Contract!Init
  BY DEF Init, Contract!Init, Live

\* The step of the contract that each step of the manager is.
LEMMA AddIsManage ==
  ASSUME IInv, NEW p \in Partitions, AddPOM(p) PROVE Contract!Manage(p)
<1>1. life[p] # "live" /\ fvalue[p] = stored[p] /\ fvalue[p] \in Position
  BY DEF AddPOM, IInv, Fetched, FlowTypeOK
<1>2. /\ life' = [life EXCEPT ![p] = "live"]
      /\ marks' = [marks EXCEPT ![p] = <<fvalue[p]>>]
      /\ at' = [at EXCEPT ![p] = 1]
  BY <1>1 DEF AddPOM
<1>3. Live' = Live \cup {p} /\ p \notin Live
  BY <1>1, <1>2 DEF Live, IInv, FlowTypeOK
<1>4. closing' = closing
  BY DEF AddPOM
<1> QED BY <1>1, <1>2, <1>3, <1>4 DEF Contract!Manage

LEMMA SetIsMark ==
  ASSUME IInv, NEW p \in Partitions, MarkOffset(p) \/ ResetOffset(p) PROVE Contract!Mark(p)
<1>1. PICK off \in 0..MaxOffset, m \in Metas : SetOffset(p, off, m)
  BY DEF MarkOffset, ResetOffset
<1>2. [offset |-> off, meta |-> m] \in Position
  BY SMT, OffsetConstants DEF Position
<1>3. marks' = [marks EXCEPT ![p] = Append(@, [offset |-> off, meta |-> m])]
  BY <1>1 DEF SetOffset
<1>4. UNCHANGED <<life, at, closing>> /\ p \in Live
  BY DEF MarkOffset, ResetOffset, Live
<1>5. Live' = Live
  BY <1>4 DEF Live
<1> QED BY <1>2, <1>3, <1>4, <1>5 DEF Contract!Mark

LEMMA CommitIsStore ==
  ASSUME IInv, NEW c \in Committers, CommitOffset(c) PROVE Contract!Store
<1>1. cpc[c] = "commit" /\ UNCHANGED <<life, marks, closing>>
  BY DEF CommitOffset, pomVars
<1>2. Live' = Live
  BY <1>1 DEF Live
<1>3. \A p \in DOMAIN req[c] : p \in Partitions
  BY <1>1 DEF IInv, Carried, Carrying, Live
<1>4. DOMAIN at' = Partitions /\ \A p \in Partitions :
        at'[p] = at[p] \/ (p \in DOMAIN req[c] /\ at'[p] = req[c][p].mark)
  BY <1>3 DEF CommitOffset, CommitAnswered, CommitBroken, StoreAt, IInv, FlowTypeOK
<1>5. ASSUME NEW p \in Partitions PROVE at'[p] \in at[p]..Len(marks[p])
  <2>1. at[p] \in Nat /\ Len(marks[p]) \in Nat /\ at[p] <= Len(marks[p])
    BY SMT DEF IInv, FlowTypeOK, Tracked
  <2>2. CASE at'[p] = at[p]
    BY SMT, <2>1, <2>2
  <2>3. CASE p \in DOMAIN req[c] /\ at'[p] = req[c][p].mark
    <3>1. /\ req[c][p] \in Requested
          /\ at[p] <= req[c][p].mark /\ req[c][p].mark <= Len(marks[p])
      BY <1>1, <2>3 DEF IInv, Carried, Carrying
    <3>2. req[c][p].mark \in Nat
      BY <3>1 DEF Requested
    <3> QED BY SMT, <2>1, <2>3, <3>1, <3>2
  <2> QED BY <1>4, <2>2, <2>3
<1> QED BY <1>1, <1>2, <1>4, <1>5 DEF Contract!Store

LEMMA ReleaseIsGiveBack ==
  ASSUME IInv, NEW c \in Committers, Release(c) PROVE Contract!GiveBack
<1>1. UNCHANGED <<marks, at, closing>> /\ ReleasePOMs(FALSE)
  BY DEF Release, history
<1>2. \A p \in Partitions :
        life'[p] = life[p] \/ (life[p] = "live" /\ ~pom[p].dirty /\ life'[p] = "released")
  BY <1>1 DEF ReleasePOMs, ReleaseDue
<1>3. Live' \subseteq Live
  BY <1>2 DEF Live
<1>4. ASSUME NEW p \in Live \ Live' PROVE marks[p][at[p]] = marks[p][Len(marks[p])]
  <2>1. p \in Partitions /\ life[p] = "live" /\ ~pom[p].dirty
    BY <1>2, <1>4 DEF Live
  <2> QED BY <2>1 DEF IInv, Tracked
<1> QED BY <1>1, <1>3, <1>4 DEF Contract!GiveBack

LEMMA ForceIsDrop ==
  ASSUME IInv, ForceRelease PROVE Contract!Drop
<1>1. UNCHANGED <<marks, at, closing>> /\ closing /\ ReleasePOMs(TRUE)
  BY DEF ForceRelease, history, IInv, Turns
<1>2. Live' \subseteq Live
  BY <1>1 DEF ReleasePOMs, Live
<1> QED BY <1>1, <1>2 DEF Contract!Drop

LEMMA StepKeepsContract == IInv /\ [Next]_vars => Contract!Step
<1> SUFFICES ASSUME IInv, [Next]_vars PROVE Contract!Step
  OBVIOUS
<1>1. ASSUME UNCHANGED <<marks, at, life, closing>> PROVE Contract!Step
  <2>1. Live' = Live
    BY <1>1 DEF Live
  <2> QED BY <1>1, <2>1 DEF Contract!Step, Contract!vars
<1>2. ASSUME NEW p \in Partitions, Application(p) \/ Managing(p) \/ DrainError(p) \/ ClosePOMReturns(p)
      PROVE  Contract!Step
  <2>1. CASE AddPOM(p)
    BY <2>1, AddIsManage DEF Contract!Step, Contract!Next
  <2>2. CASE MarkOffset(p) \/ ResetOffset(p)
    BY <2>2, SetIsMark DEF Contract!Step, Contract!Next
  <2>3. CASE ~(AddPOM(p) \/ MarkOffset(p) \/ ResetOffset(p))
    <3>1. UNCHANGED <<marks, at, life, closing>>
      BY <1>2, <2>3 DEF Application, ManagePartition, AsyncClosePOM, ClosePOM, Managing,
                        FetchCoordinator, FetchInitialOffset, DrainError, ClosePOMReturns,
                        pomVars, history
    <3> QED BY <1>1, <3>1
  <2> QED BY <2>1, <2>2, <2>3
<1>3. ASSUME NEW c \in Committers, CommitOffset(c) PROVE Contract!Step
  BY <1>3, CommitIsStore DEF Contract!Step, Contract!Next
<1>4. ASSUME NEW c \in Committers, Release(c) PROVE Contract!Step
  BY <1>4, ReleaseIsGiveBack DEF Contract!Step, Contract!Next
<1>5. CASE ForceRelease
  BY <1>5, ForceIsDrop DEF Contract!Step, Contract!Next
<1>6. CASE Close
  <2>1. closing' = TRUE /\ UNCHANGED <<marks, at, life>>
    BY <1>6 DEF Close, pomVars, history
  <2>2. Live' = Live
    BY <2>1 DEF Live
  <2> QED BY <2>1, <2>2 DEF Contract!Step, Contract!Next, Contract!End
<1>7. ASSUME NEW c \in Committers, Commit(c) \/ ConstructRequest(c) \/ FlushCoordinator(c)
                                   \/ BeginHandling(c) \/ FlushDone(c)
      PROVE  Contract!Step
  BY <1>1, <1>7 DEF Commit, ConstructRequest, FlushCoordinator, BeginHandling, FlushDone,
                    pomVars, history
<1>8. ASSUME NEW c \in Committers, NEW p \in Partitions, HandleResponse(c, p) \/ HandleErrorOf(c, p)
      PROVE  Contract!Step
  BY <1>1, <1>8 DEF HandleResponse, HandleErrorOf, history
<1>9. CASE Tick \/ MainLoopExits \/ AsyncClosePOMs
  BY <1>1, <1>9 DEF Tick, MainLoopExits, AsyncClosePOMs, pomVars, history
<1>10. CASE UNCHANGED vars
  BY <1>1, <1>10 DEF vars, pomVars, history
<1> QED
  BY <1>2, <1>3, <1>4, <1>5, <1>6, <1>7, <1>8, <1>9, <1>10 DEF Next, Flush, Closing

LEMMA StepDropIsDue == IInv /\ [Next]_vars => DropIsDue
<1> SUFFICES ASSUME IInv, [Next]_vars, NEW p \in Partitions,
                    life[p] = "live", life'[p] = "released", pom[p].dirty, AutoCommit
             PROVE  cpc[Closer] = "force" /\ attempt = RetryMax + 1
  BY DEF DropIsDue
<1>1. ~UNCHANGED life
  OBVIOUS
<1>2. ~\E q \in Partitions : Application(q) \/ Managing(q) \/ DrainError(q) \/ ClosePOMReturns(q)
  <2> SUFFICES ASSUME NEW q \in Partitions,
                      Application(q) \/ Managing(q) \/ DrainError(q) \/ ClosePOMReturns(q)
               PROVE  FALSE
    OBVIOUS
  <2>1. CASE AddPOM(q)
    BY <2>1 DEF AddPOM, pomVars, IInv, FlowTypeOK
  <2>2. CASE ~AddPOM(q)
    BY <1>1, <2>2 DEF Application, ManagePartition, MarkOffset, ResetOffset, AsyncClosePOM, ClosePOM,
                      Managing, FetchCoordinator, FetchInitialOffset, DrainError, ClosePOMReturns, pomVars
  <2> QED BY <2>1, <2>2
<1>3. ~\E c \in Committers : Commit(c) \/ Flush(c)
  BY <1>1 DEF Commit, Flush, ConstructRequest, FlushCoordinator, CommitOffset, BeginHandling,
              FlushDone, HandleResponse, HandleErrorOf, pomVars
<1>4. ~\E c \in Committers : Release(c)
  BY DEF Release, ReleasePOMs, ReleaseDue
<1>5. ~(Tick \/ Close \/ MainLoopExits \/ AsyncClosePOMs \/ UNCHANGED vars)
  BY <1>1 DEF Tick, Close, MainLoopExits, AsyncClosePOMs, vars, pomVars
<1>6. ForceRelease
  BY <1>2, <1>3, <1>4, <1>5 DEF Next, Closing
<1> QED BY <1>6 DEF ForceRelease, IInv, LastResort, Live

\* When no two flushes overlap, the manager implements its contract: Kafka moves forward
\* along the positions the application has set, a partition is given back with its last
\* position stored unless the manager is being closed, and Close drops an uncommitted
\* position only after Retry.Max + 1 flushes.
THEOREM OffsetsKeepContract == ~Overlap /\ Spec => KeepsContract
<1>1. IInv /\ [Next]_vars => [Contract!Step]_(Contract!vars)
  BY StepKeepsContract
<1>2. IInv /\ [Next]_vars => [DropIsDue]_vars
  BY StepDropIsDue
<1> QED BY <1>1, <1>2, IInvHolds, ContractInit, PTL DEF Spec, KeepsContract, Contract!Spec
=============================================================================
