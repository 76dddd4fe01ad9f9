------------------------- MODULE TransactionManager -------------------------
(***************************************************************************)
(* The transaction manager of a transactional producer                     *)
(* (transaction_manager.go) with the parts of async_producer.go that drive *)
(* it. The status is the set of flags that are on. The application calls   *)
(* BeginTxn, AddOffsetsToTxn, CommitTxn and AbortTxn and sends messages; a *)
(* message goes to its partition producer (which registers the partition), *)
(* to a broker producer (which publishes the registered partitions to the  *)
(* coordinator and then produces) and back. Ending a transaction waits for *)
(* the messages in flight. Sequence numbers are left out here.             *)
(***************************************************************************)
EXTENDS Integers

CONSTANTS
  Msgs, Partitions, PartitionOf,  \* messages, and the partition of each
  Groups,         \* consumer groups whose offsets may be added
  Supports,       \* Version >= 2.5: coordinatorSupportsBumpingEpoch
  TxnRetryMax,    \* Producer.Transaction.Retry.Max
  RetryMax,       \* Producer.Retry.Max
  MaxTxns,        \* bound on transactions begun
  MaxEnds,        \* bound on calls of CommitTxn and AbortTxn
  Faults,         \* what may go wrong
  Overlap,        \* messages are sent also while a transaction is being ended
  AbortInFlight   \* AbortTxn is called also while messages are in flight

FaultKinds == {"net", "lostanswer", "retriable", "denied", "groupdenied",
               "mapping", "fatal", "timeout", "produce", "init"}

ASSUME TxnConstants ==
  /\ PartitionOf \in [Msgs -> Partitions]
  /\ Supports \in BOOLEAN /\ Overlap \in BOOLEAN /\ AbortInFlight \in BOOLEAN
  /\ TxnRetryMax \in Nat /\ RetryMax \in Nat /\ MaxTxns \in Nat /\ MaxEnds \in Nat
  /\ Faults \subseteq FaultKinds

VARIABLES
  status, lastError, bump,   \* status, lastError and epochBumpRequired
  epoch,                     \* producerEpoch
  pending, inTxn, offsets,   \* partitions registered, partitions and groups in the transaction
  stage, retries, txnOf,     \* where a message is, its retries, its transaction
  merr,                      \* the error its batch failed with
  ptries,                    \* attemptsRemaining of the holder of partitionInTxnLock
  pc, op, tries, bump0, group,  \* the call of CommitTxn or AbortTxn
  txn, ends, result,         \* transactions begun, calls made, what they returned
  cepoch, cstate, cparts, cgroups,  \* the coordinator
  fate, gfate                \* what became of each record and of each group's offsets

flow == <<status, lastError, bump>>
mgr == <<flow, epoch, pending, inTxn, offsets>>
pipe == <<stage, retries, txnOf, merr, ptries>>
call == <<pc, op, tries, bump0, group>>
hist == <<txn, ends, result>>
coord == <<cepoch, cstate, cparts, cgroups, fate, gfate>>
vars == <<mgr, pipe, call, hist, coord>>

ErrorKinds == {"abortable", "mapping", "unknown", "fatal", "notready"}
LostProducerID == {"mapping", "unknown"}  \* ErrInvalidProducerIDMapping, ErrUnknownProducerID
NoError == "none"
NoEpoch == -1
NoGroup == "nogroup"

Initializing == {"Initializing"}
Ready == {"Ready"}
InTransaction == {"InTransaction"}
Committing == {"EndTransaction", "Committing"}
Aborting == {"EndTransaction", "Aborting"}
Abortable == {"InError", "AbortableError"}
Fatal == {"InError", "FatalError"}

(* The allowed transitions, one row per flag. *)
Allowed ==
  [f \in {"Uninitialized", "Initializing", "Ready", "InTransaction",
          "EndTransaction", "AbortableError", "FatalError"} |->
     CASE f = "Uninitialized" -> {"Ready", "InError"}
       [] f = "Initializing" -> {"Initializing", "Ready", "InError"}
       [] f = "Ready" -> {"InTransaction"}
       [] f = "InTransaction" -> {"EndTransaction", "InError"}
       [] f = "EndTransaction" -> {"Initializing", "Ready", "InError"}
       [] f = "AbortableError" -> {"Aborting", "InError"}
       [] f = "FatalError" -> {"FatalError"}]

(* Faulty variant: a flag without a row of its own allows everything. *)
IsTransitionValidByRow(target) ==
  \E f \in status : f \in DOMAIN Allowed => Allowed[f] \cap target # {}

(* Some flag that is on has some flag of the target among those it allows. *)
IsTransitionValid(target) ==
  \E f \in status \cap DOMAIN Allowed : Allowed[f] \cap target # {}

TransitionTo(target, err) ==
  IF IsTransitionValid(target)
  THEN /\ status' = target
       /\ lastError' = IF "InError" \in target THEN err ELSE NoError
  ELSE UNCHANGED <<status, lastError>>

(* initProducerId has succeeded once: otherwise there is no producer. *)
Init ==
  /\ status = Ready /\ lastError = NoError /\ bump = FALSE /\ epoch = 0
  /\ pending = {} /\ inTxn = {} /\ offsets = {}
  /\ stage = [m \in Msgs |-> "none"] /\ retries = [m \in Msgs |-> 0]
  /\ txnOf = [m \in Msgs |-> 0] /\ merr = [m \in Msgs |-> NoError] /\ ptries = 0
  /\ pc = "idle" /\ op = "none" /\ tries = 0 /\ bump0 = FALSE /\ group = NoGroup
  /\ txn = 0 /\ ends = 0 /\ result = [n \in 1..MaxTxns |-> "none"]
  /\ cepoch = 0 /\ cstate = "empty" /\ cparts = {} /\ cgroups = {}
  /\ fate = [m \in Msgs |-> "none"] /\ gfate = [g \in Groups |-> "none"]

-----------------------------------------------------------------------------
(* The application *)

InFlight == {m \in Msgs : stage[m] \notin {"none", "ok", "err"}}

BeginTxn ==
  /\ pc = "idle" /\ txn < MaxTxns
  /\ IsTransitionValid(InTransaction)
  /\ TransitionTo(InTransaction, NoError)
  /\ txn' = txn + 1 /\ op' = "none"
  /\ gfate' = [g \in Groups |-> "none"]
  /\ UNCHANGED <<bump, epoch, pending, inTxn, offsets, pipe, pc, tries, bump0, group, ends, result,
                 cepoch, cstate, cparts, cgroups, fate>>

AddOffsetsToTxn(g) ==
  /\ pc = "idle" /\ "InTransaction" \in status
  /\ offsets' = offsets \cup {g}
  /\ gfate' = [gfate EXCEPT ![g] = "added"]
  /\ UNCHANGED <<status, lastError, bump, epoch, pending, inTxn, pipe, call, hist,
                 cepoch, cstate, cparts, cgroups, fate>>

(* CommitTxn or AbortTxn hands its control message to the dispatcher. The  *)
(* application calls again when the last call returned an error, but does  *)
(* not try to commit what it wanted to abort.                              *)
CallEnd(o) ==
  /\ pc = "idle" /\ ends < MaxEnds /\ txn > 0 /\ result[txn] = "none"
  /\ o = "commit" => op # "abort"
  /\ o = "commit" \/ AbortInFlight \/ InFlight = {}
  /\ pc' = "control" /\ op' = o /\ ends' = ends + 1
  /\ UNCHANGED <<mgr, pipe, tries, bump0, group, txn, result, coord>>

-----------------------------------------------------------------------------
(* Messages *)

(* maybeTransitionToErrorState *)
ErrorState(err) ==
  IF err = "fatal"
  THEN TransitionTo(Fatal, err) /\ UNCHANGED bump
  ELSE /\ bump' = (bump \/ (Supports /\ "EndTransaction" \notin status))
       /\ TransitionTo(Abortable, err)

ReturnError(m, err) ==
  /\ stage' = [stage EXCEPT ![m] = "err"]
  /\ ErrorState(err)

MaySend == pc = "idle" \/ (Overlap /\ (op = "commit" \/ AbortInFlight))

(* The dispatcher takes a new message only inside a transaction. *)
Dispatch(m) ==
  /\ stage[m] = "none" /\ MaySend
  /\ txnOf' = [txnOf EXCEPT ![m] = txn]
  /\ IF "InTransaction" \in status
     THEN stage' = [stage EXCEPT ![m] = "leader"] /\ UNCHANGED flow
     ELSE ReturnError(m, "notready")
  /\ UNCHANGED <<epoch, pending, inTxn, offsets, retries, merr, ptries, call, hist, coord>>

Unlocked == \A m \in Msgs : stage[m] # "publishing"

(* The partition producer: maybeAddPartitionToCurrentTxn reads the status,  *)
(* and then waits for the lock; the message goes to the buffer.            *)
MaybeAddPartition(m) ==
  /\ \/ /\ stage[m] = "leader" /\ UNCHANGED pending
        /\ stage' = [stage EXCEPT ![m] = IF "InError" \in status THEN "buffered" ELSE "adding"]
     \/ /\ stage[m] = "adding" /\ Unlocked
        /\ pending' = pending \cup ({PartitionOf[m]} \ inTxn)
        /\ stage' = [stage EXCEPT ![m] = "buffered"]
  /\ UNCHANGED <<flow, epoch, inTxn, offsets, retries, txnOf, merr, ptries, call, hist, coord>>

(* The batch fails; the broker producer hears of it. *)
Fail(m, err) ==
  /\ stage' = [stage EXCEPT ![m] = "failing"]
  /\ merr' = [merr EXCEPT ![m] = err]

(* publishTxnPartitions: under the lock, up to the first request. *)
BeginPublish(m) ==
  /\ stage[m] = "buffered" /\ Unlocked
  /\ \/ "InError" \in status /\ Fail(m, lastError) /\ UNCHANGED ptries
     \/ /\ "InError" \notin status
        /\ stage' = [stage EXCEPT ![m] = IF pending = {} THEN "sending" ELSE "publishing"]
        /\ ptries' = TxnRetryMax /\ UNCHANGED merr
  /\ UNCHANGED <<mgr, retries, txnOf, call, hist, coord>>

PublishAgain(m) ==
  /\ \/ ptries > 0 /\ ptries' = ptries - 1 /\ UNCHANGED <<stage, merr>>
     \/ ptries = 0 /\ Fail(m, "abortable") /\ UNCHANGED ptries
  /\ UNCHANGED flow

(* An answer that is an error: the pending partitions are given up. The    *)
(* batch fails with it, or with ErrTransitionNotAllowed.                   *)
PublishRefused(m, target, err) ==
  /\ pending' = {}
  /\ TransitionTo(target, err)
  /\ bump' = (bump \/ (err \in LostProducerID /\ Supports))
  /\ Fail(m, IF IsTransitionValid(target) THEN err ELSE "abortable")
  /\ UNCHANGED <<inTxn, ptries, coord>>

(* What the coordinator answers to a request that carries epoch. *)
Verdict ==
  CASE epoch = NoEpoch -> "mapping"
    [] epoch # NoEpoch /\ epoch # cepoch -> "fatal"
    [] OTHER -> "ok"

(* The coordinator puts partitions into the transaction. *)
JoinTxn(ps) ==
  /\ cstate' = "ongoing"
  /\ cparts' = ps \cup (IF cstate = "ongoing" THEN cparts ELSE {})
  /\ cgroups' = IF cstate = "ongoing" THEN cgroups ELSE {}
  /\ UNCHANGED <<cepoch, fate, gfate>>

(* The answer says which partitions are in; the others are asked for again. *)
PublishAnswered(m, ps) ==
  /\ Verdict = "ok"
  /\ ps = pending \/ "retriable" \in Faults
  /\ IF ps = {} THEN UNCHANGED coord ELSE JoinTxn(ps)
  /\ inTxn' = inTxn \cup ps /\ pending' = pending \ ps
  /\ IF ps # pending THEN PublishAgain(m)
     ELSE stage' = [stage EXCEPT ![m] = "sending"] /\ UNCHANGED <<flow, merr, ptries>>

(* Faulty variant: the partitions count as in the transaction when the     *)
(* request has failed.                                                     *)
PublishUnansweredTrusting(m) ==
  /\ "net" \in Faults
  /\ stage' = [stage EXCEPT ![m] = "sending"]
  /\ inTxn' = inTxn \cup pending /\ pending' = {}
  /\ UNCHANGED <<flow, merr, ptries, coord>>

PublishUnanswered(m) ==
  /\ \/ "net" \in Faults /\ UNCHANGED coord
     \/ "lostanswer" \in Faults /\ Verdict = "ok" /\ JoinTxn(pending)
  /\ PublishAgain(m)
  /\ UNCHANGED <<pending, inTxn>>

Publish(m) ==
  /\ stage[m] = "publishing"
  /\ \/ \E ps \in SUBSET pending : PublishAnswered(m, ps)
     \/ PublishUnanswered(m)
     \/ "denied" \in Faults /\ PublishRefused(m, Abortable, "abortable")
     \/ \E err \in LostProducerID :
          /\ "mapping" \in Faults \/ Verdict = err
          /\ PublishRefused(m, IF Supports THEN Abortable ELSE Fatal, err)
     \/ ("fatal" \in Faults \/ Verdict = "fatal") /\ PublishRefused(m, Fatal, "fatal")
  /\ UNCHANGED <<epoch, offsets, retries, txnOf, call, hist>>

(* The produce request: the leader appends a record once. *)
Appended(m) == fate' = [fate EXCEPT ![m] = IF @ = "none" THEN "appended" ELSE @]

Produce(m) ==
  /\ stage[m] = "sending"
  /\ \/ /\ epoch = cepoch /\ Appended(m)
        /\ stage' = [stage EXCEPT ![m] = "ok"] /\ UNCHANGED <<flow, merr>>
     \/ "net" \in Faults /\ Fail(m, "abortable") /\ UNCHANGED <<flow, fate>>
     \/ "lostanswer" \in Faults /\ epoch = cepoch /\ Appended(m) /\ Fail(m, "abortable") /\ UNCHANGED flow
     \/ /\ "produce" \in Faults \/ epoch # cepoch
        /\ ReturnError(m, "abortable") /\ UNCHANGED <<merr, fate>>
  /\ UNCHANGED <<epoch, pending, inTxn, offsets, retries, txnOf, ptries, call, hist,
                 cepoch, cstate, cparts, cgroups, gfate>>

(* handleError: the message is sent again, or given up. *)
RetryMessage(m) ==
  /\ stage[m] = "failing"
  /\ \/ retries[m] >= RetryMax /\ ReturnError(m, merr[m]) /\ UNCHANGED retries
     \/ /\ retries[m] < RetryMax
        /\ retries' = [retries EXCEPT ![m] = @ + 1]
        /\ stage' = [stage EXCEPT ![m] = "leader"] /\ UNCHANGED flow
  /\ UNCHANGED <<epoch, pending, inTxn, offsets, txnOf, merr, ptries, call, hist, coord>>

-----------------------------------------------------------------------------
(* CommitTxn and AbortTxn *)

(* The dispatcher takes the control message; a refused transition is only logged. *)
Control ==
  /\ pc = "control"
  /\ TransitionTo(IF op = "commit" THEN Committing ELSE Aborting, NoError)
  /\ pc' = "waiting"
  /\ UNCHANGED <<bump, epoch, pending, inTxn, offsets, pipe, op, tries, bump0, group, hist, coord>>

Return(r) ==
  /\ pc' = "idle"
  /\ result' = IF r = "error" THEN result ELSE [result EXCEPT ![txn] = r]

(* completeTransaction, with what the call returns. *)
Complete(target) ==
  /\ TransitionTo(target, NoError)
  /\ IF IsTransitionValid(target)
     THEN bump' = FALSE /\ inTxn' = {} /\ pending' = {} /\ offsets' = {}
     ELSE UNCHANGED <<bump, inTxn, pending, offsets>>

CompletionTarget == IF bump THEN Initializing ELSE Ready

(* Once nothing is in flight: finishTransaction, up to its first request. *)
BeginFinish ==
  /\ pc = "waiting" /\ InFlight = {}
  /\ bump0' = bump
  /\ \/ /\ IF op = "commit" THEN "InError" \in status ELSE "FatalError" \in status
        /\ Return("error") /\ UNCHANGED mgr
     \/ /\ IF op = "commit" THEN "InError" \notin status ELSE "FatalError" \notin status
        /\ inTxn = {}
        /\ Complete(CompletionTarget) /\ UNCHANGED epoch
        /\ Return(IF IsTransitionValid(CompletionTarget) THEN op ELSE "error")
     \/ /\ IF op = "commit" THEN "InError" \notin status ELSE "FatalError" \notin status
        /\ inTxn # {}
        /\ pc' = "offsets" /\ UNCHANGED <<mgr, result>>
  /\ UNCHANGED <<pipe, op, tries, group, txn, ends, coord>>

(* initializeTransactions, up to the first request; a refusal forgets the producer ID. *)
BeginInit ==
  IF Supports /\ epoch # NoEpoch
  THEN /\ TransitionTo(Initializing, NoError)
       /\ IF IsTransitionValid(Initializing)
          THEN pc' = "init" /\ tries' = TxnRetryMax /\ UNCHANGED <<epoch, result>>
          ELSE Return("error") /\ epoch' = NoEpoch /\ UNCHANGED tries
  ELSE pc' = "init" /\ tries' = TxnRetryMax /\ UNCHANGED <<status, lastError, epoch, result>>

(* The next group whose offsets go into the transaction, or on to EndTxn. *)
NextGroup ==
  /\ pc = "offsets"
  /\ \/ \E g \in offsets :
          /\ op = "commit"
          /\ group' = g /\ pc' = "addoffsets" /\ tries' = TxnRetryMax
          /\ UNCHANGED <<flow, epoch, result>>
     \/ /\ op = "abort" \/ offsets = {}
        /\ UNCHANGED <<bump, group>>
        /\ IF "FatalError" \in status
           THEN Return("error") /\ UNCHANGED <<status, lastError, epoch, tries>>
           ELSE IF lastError = "mapping"
           THEN BeginInit
           ELSE pc' = "endtxn" /\ tries' = TxnRetryMax /\ UNCHANGED <<status, lastError, epoch, result>>
  /\ UNCHANGED <<pending, inTxn, offsets, pipe, op, bump0, txn, ends, coord>>

(* Faulty variant: the attempts start anew when they are used up. *)
AgainForever ==
  /\ tries' = IF tries = 0 THEN TxnRetryMax ELSE tries - 1
  /\ UNCHANGED <<pc, result>>

(* A request of the call fails in a way that is retried. *)
Again ==
  \/ tries > 0 /\ tries' = tries - 1 /\ UNCHANGED <<pc, result>>
  \/ tries = 0 /\ Return("error") /\ UNCHANGED tries

Refused(target, err) ==
  /\ TransitionTo(target, err)
  /\ bump' = (bump \/ (err \in LostProducerID /\ Supports))
  /\ Return("error") /\ UNCHANGED tries

(* The answers that AddOffsetsToTxn, TxnOffsetCommit and EndTxn treat alike. *)
CallRefused ==
  \/ ("fatal" \in Faults \/ Verdict = "fatal") /\ Refused(Fatal, "fatal")
  \/ \E err \in LostProducerID :
       /\ "mapping" \in Faults \/ Verdict = err
       /\ Refused(IF Supports /\ pc # "txnoffsets" THEN Abortable ELSE Fatal,
                  IF pc = "txnoffsets" THEN "fatal" ELSE err)

AddOffsets ==
  /\ pc = "addoffsets"
  /\ \/ /\ Verdict = "ok"
        /\ cstate' = "ongoing"
        /\ cparts' = IF cstate = "ongoing" THEN cparts ELSE {}
        /\ cgroups' = {group} \cup (IF cstate = "ongoing" THEN cgroups ELSE {})
        /\ \/ pc' = "txnoffsets" /\ tries' = TxnRetryMax /\ UNCHANGED <<flow, result>>
           \/ "lostanswer" \in Faults /\ Again /\ UNCHANGED flow
     \/ {"net", "retriable"} \cap Faults # {} /\ Again /\ UNCHANGED <<flow, cstate, cparts, cgroups>>
     \/ "groupdenied" \in Faults /\ Refused(Abortable, "abortable") /\ UNCHANGED <<cstate, cparts, cgroups>>
     \/ CallRefused /\ UNCHANGED <<cstate, cparts, cgroups>>
  /\ UNCHANGED <<epoch, pending, inTxn, offsets, pipe, op, bump0, group, txn, ends, cepoch, fate, gfate>>

(* Faulty variant: the group is done also when its commit has failed. *)
TxnOffsetCommitForgetful ==
  /\ pc = "txnoffsets"
  /\ \/ Verdict = "ok" /\ gfate' = [gfate EXCEPT ![group] = "sent"]
     \/ "net" \in Faults /\ UNCHANGED gfate
  /\ pc' = "offsets" /\ offsets' = offsets \ {group}
  /\ UNCHANGED <<flow, epoch, pending, inTxn, pipe, op, tries, bump0, group, hist,
                 cepoch, cstate, cparts, cgroups, fate>>

TxnOffsetCommit ==
  /\ pc = "txnoffsets"
  /\ \/ /\ Verdict = "ok"
        /\ gfate' = [gfate EXCEPT ![group] = "sent"]
        /\ \/ pc' = "offsets" /\ offsets' = offsets \ {group} /\ UNCHANGED <<flow, tries, result>>
           \/ "lostanswer" \in Faults /\ Again /\ UNCHANGED <<flow, offsets>>
     \/ {"net", "retriable"} \cap Faults # {} /\ Again /\ UNCHANGED <<flow, offsets, gfate>>
     \/ "groupdenied" \in Faults /\ Refused(Abortable, "abortable") /\ UNCHANGED <<offsets, gfate>>
     \/ CallRefused /\ UNCHANGED <<offsets, gfate>>
  /\ UNCHANGED <<epoch, pending, inTxn, pipe, op, bump0, group, txn, ends,
                 cepoch, cstate, cparts, cgroups, fate>>

(* The coordinator ends the transaction: markers in all its partitions. *)
Decide(how) ==
  /\ cstate' = how
  /\ fate' = [m \in Msgs |-> IF fate[m] = "appended" /\ PartitionOf[m] \in cparts
                             THEN how ELSE fate[m]]
  /\ gfate' = [g \in Groups |-> IF gfate[g] = "sent" /\ g \in cgroups THEN how ELSE gfate[g]]

Outcome == IF op = "commit" THEN "committed" ELSE "aborted"

(* What the coordinator does with EndTxn: end the ongoing transaction, or  *)
(* agree when it has ended that way before.                                *)
EndAccepted ==
  /\ Verdict = "ok" /\ cstate \in {"ongoing", Outcome}
  /\ IF cstate = "ongoing" THEN Decide(Outcome) ELSE UNCHANGED <<cstate, fate, gfate>>

EndTxn ==
  /\ pc = "endtxn"
  /\ \/ /\ EndAccepted
        /\ \/ /\ Complete(CompletionTarget) /\ UNCHANGED tries
              /\ IF ~IsTransitionValid(CompletionTarget) THEN Return("error")
                 ELSE IF bump0 THEN pc' = "begininit" /\ UNCHANGED result
                 ELSE Return(op)
           \/ "lostanswer" \in Faults /\ Again /\ UNCHANGED <<flow, pending, inTxn, offsets>>
     \/ /\ {"net", "retriable"} \cap Faults # {} /\ Again
        /\ UNCHANGED <<flow, pending, inTxn, offsets, cstate, fate, gfate>>
     \/ /\ CallRefused \/ (Verdict = "ok" /\ cstate \notin {"ongoing", Outcome} /\ Refused(Fatal, "fatal"))
        /\ UNCHANGED <<pending, inTxn, offsets, cstate, fate, gfate>>
  /\ UNCHANGED <<epoch, pipe, op, bump0, group, txn, ends, cepoch, cparts, cgroups>>

InitializeTransactions ==
  /\ pc = "begininit" /\ BeginInit
  /\ UNCHANGED <<bump, pending, inTxn, offsets, pipe, op, bump0, group, txn, ends, coord>>

(* InitProducerID: the coordinator aborts what is open and bumps the epoch. *)
NewEpoch ==
  /\ cepoch' = cepoch + 1 /\ cparts' = {} /\ cgroups' = {}
  /\ IF cstate = "ongoing" THEN Decide("aborted") ELSE UNCHANGED <<cstate, fate, gfate>>

InitFails == epoch' = NoEpoch

InitProducerID ==
  /\ pc = "init"
  /\ \/ /\ Verdict # "fatal" \/ ~Supports
        /\ NewEpoch /\ TransitionTo(Ready, NoError)
        /\ IF IsTransitionValid(Ready)
           THEN epoch' = cepoch + 1 /\ Return(op) /\ UNCHANGED tries
           ELSE Again /\ (IF tries = 0 THEN InitFails ELSE UNCHANGED epoch)
     \/ /\ "init" \in Faults /\ Again /\ UNCHANGED <<status, lastError, coord>>
        /\ IF tries = 0 THEN InitFails ELSE UNCHANGED epoch
     \/ /\ "fatal" \in Faults \/ (Verdict = "fatal" /\ Supports)
        /\ TransitionTo(Fatal, "fatal") /\ Return("error") /\ InitFails /\ UNCHANGED <<tries, coord>>
  /\ UNCHANGED <<bump, pending, inTxn, offsets, pipe, op, bump0, group, txn, ends>>

(* The coordinator ends a transaction that has taken too long. *)
TransactionTimeout ==
  /\ "timeout" \in Faults /\ cstate = "ongoing"
  /\ NewEpoch
  /\ UNCHANGED <<mgr, pipe, call, hist>>

-----------------------------------------------------------------------------
Application ==
  \/ BeginTxn
  \/ \E g \in Groups : AddOffsetsToTxn(g)
  \/ \E o \in {"commit", "abort"} : CallEnd(o)
  \/ \E m \in Msgs : Dispatch(m)

Message(m) ==
  \/ MaybeAddPartition(m)
  \/ BeginPublish(m)
  \/ Publish(m)
  \/ Produce(m)
  \/ RetryMessage(m)

Finishing ==
  \/ Control
  \/ BeginFinish
  \/ NextGroup
  \/ AddOffsets
  \/ TxnOffsetCommit
  \/ EndTxn
  \/ InitializeTransactions
  \/ InitProducerID

Next == Application \/ (\E m \in Msgs : Message(m)) \/ Finishing \/ TransactionTimeout

Spec == Init /\ [][Next]_vars

(* Goroutines run, and every request is answered or fails in time. *)
FairSpec == Spec /\ WF_vars(Finishing) /\ \A m \in Msgs : WF_vars(Message(m))

-----------------------------------------------------------------------------
TypeOK ==
  /\ status \in {Initializing, Ready, InTransaction, Committing, Aborting, Abortable, Fatal}
  /\ lastError \in ErrorKinds \cup {NoError} /\ bump \in BOOLEAN
  /\ (lastError # NoError) = ("InError" \in status)
  /\ epoch \in NoEpoch..cepoch
  /\ pending \subseteq Partitions /\ inTxn \subseteq Partitions /\ offsets \subseteq Groups
  /\ stage \in [Msgs -> {"none", "leader", "adding", "buffered", "publishing", "sending", "failing", "ok", "err"}]
  /\ \A m, n \in Msgs : stage[m] = "publishing" /\ stage[n] = "publishing" => m = n
  /\ retries \in [Msgs -> 0..RetryMax] /\ txnOf \in [Msgs -> 0..MaxTxns]
  /\ merr \in [Msgs -> ErrorKinds \cup {NoError}] /\ ptries \in 0..TxnRetryMax
  /\ pc \in {"idle", "control", "waiting", "offsets", "addoffsets", "txnoffsets",
             "endtxn", "begininit", "init"}
  /\ op \in {"none", "commit", "abort"} /\ tries \in 0..TxnRetryMax /\ bump0 \in BOOLEAN
  /\ group \in Groups \cup {NoGroup}
  /\ txn \in 0..MaxTxns /\ ends \in 0..MaxEnds
  /\ result \in [1..MaxTxns -> {"none", "commit", "abort"}]
  /\ cepoch \in Nat /\ cstate \in {"empty", "ongoing", "committed", "aborted"}
  /\ cparts \subseteq Partitions /\ cgroups \subseteq Groups
  /\ fate \in [Msgs -> {"none", "appended", "committed", "aborted"}]
  /\ gfate \in [Groups -> {"none", "added", "sent", "committed", "aborted"}]

(* A record the coordinator has not decided lies in a partition that both  *)
(* the coordinator and the manager count to the open transaction, so that  *)
(* ending it decides the record (publishTxnPartitions before the request). *)
RecordsInTxn ==
  \A m \in Msgs : fate[m] = "appended" =>
    cstate = "ongoing" /\ PartitionOf[m] \in cparts \cap inTxn

(* The variables have their types, one goroutine at a time publishes, and  *)
(* every record that is not decided is counted to the open transaction     *)
(* (partitionInTxnLock, publishTxnPartitions).                             *)
RecordsCounted == TypeOK /\ RecordsInTxn

(* CommitTxn returns nil only when the records of its transaction are      *)
(* committed, and no record of a transaction for which AbortTxn returned   *)
(* nil is ever committed, not even by a later transaction.                 *)
OutcomeAgrees ==
  \A m \in Msgs : txnOf[m] > 0 /\ fate[m] # "none" =>
    /\ result[txnOf[m]] = "commit" => fate[m] = "committed"
    /\ result[txnOf[m]] = "abort" => fate[m] # "committed"

(* When CommitTxn returns nil for a transaction with records, the offsets  *)
(* added to it are committed too (finishTransaction publishes every group  *)
(* and keeps a group whose publication failed).                            *)
OffsetsFollowRecords ==
  txn > 0 /\ result[txn] = "commit" /\ (\E m \in Msgs : txnOf[m] = txn /\ fate[m] # "none")
    => \A g \in Groups : gfate[g] \in {"none", "committed"}

(* What CommitTxn and AbortTxn return is what the coordinator did, to the  *)
(* records and to the offsets, for as long as the producer has its ID:     *)
(* finishTransaction reports a failed initializeTransactions as its own    *)
(* failure although EndTxn has been accepted, and drops the ID with it.    *)
OutcomeAgreesInitialized == OffsetsFollowRecords /\ (epoch # NoEpoch => OutcomeAgrees)

(* Only a call of AbortTxn takes the manager out of an error, and nothing  *)
(* takes it out of a fatal one, whichever goroutine reports what when      *)
(* (isTransitionValid on composite flags).                                 *)
ErrorsLeaveByAbort ==
  [][/\ "InError" \in status /\ "InError" \notin status' => status' = Aborting /\ op = "abort"
     /\ "FatalError" \in status => "FatalError" \in status']_vars

(* CommitTxn and AbortTxn return: messages in flight and every request are *)
(* retried a bounded number of times.                                      *)
FinishReturns == pc # "idle" ~> pc = "idle"
=============================================================================
