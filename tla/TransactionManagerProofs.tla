---------------------- MODULE TransactionManagerProofs ----------------------
(***************************************************************************)
(* Proofs about TransactionManager, for any messages, partitions, groups,  *)
(* faults and retry limits: its types, the moves of its status, where      *)
(* records stand to the open transaction, and that what CommitTxn and      *)
(* AbortTxn return is what became of it. The inductive invariant has four  *)
(* layers, each proved from those before it:                               *)
(*   TypeInv     types, and what a call or a failed batch carries;         *)
(*   FlowInv     where messages in flight, the two sets of partitions and  *)
(*               the coordinator's transaction stand to each other (this   *)
(*               needs ~AbortInFlight);                                    *)
(*   RecordInv   what has become of the records of the running transaction;*)
(*   OffsetInv   the same for the offsets added to it.                     *)
(***************************************************************************)
EXTENDS TransactionManager, TLAPS

(* Most leaves are first-order; those that need arithmetic or the flags of *)
(* a status cite SMT.                                                      *)
USE ZenonT(30)

TypeInv ==
  /\ TypeOK
  /\ \A m \in Msgs : stage[m] = "failing" => merr[m] # NoError
  /\ pc \in {"addoffsets", "txnoffsets"} => group \in offsets
  /\ pc # "idle" => op # "none"

-----------------------------------------------------------------------------
(* With messages in flight a call has not passed its wait, and it commits. *)
Carrying ==
  InFlight # {} =>
    /\ pc \in {"idle", "control", "waiting"}
    /\ status \in {InTransaction, Committing, Abortable, Fatal}
    /\ pc # "idle" => op = "commit"

(* The control message ends InTransaction; after that of AbortTxn there is *)
(* no error left that could be aborted, or that could skip EndTxn.         *)
Called ==
  /\ status = InTransaction => pc \in {"idle", "control"}
  /\ pc = "waiting" /\ op = "abort" => status # Abortable
  /\ pc \in {"offsets", "addoffsets", "txnoffsets"} => lastError # "mapping"

(* A message's partition is registered before its batch is published, and  *)
(* in the transaction before it is sent.                                   *)
Registered ==
  \A m \in Msgs :
    /\ stage[m] = "buffered" => PartitionOf[m] \in pending \cup inTxn \/ "InError" \in status
    /\ stage[m] = "publishing" => PartitionOf[m] \in pending \cup inTxn
    /\ stage[m] = "sending" => PartitionOf[m] \in inTxn

Emptied == status = Ready \/ pc \in {"begininit", "init"} => inTxn = {}

(* As long as records can be sent, the coordinator's transaction holds the *)
(* partitions that the manager believes are in it.                         *)
Joined ==
  (status = InTransaction \/ InFlight # {}) /\ epoch = cepoch /\ inTxn # {} =>
    cstate = "ongoing" /\ inTxn \subseteq cparts

FlowInv == Carrying /\ Called /\ Registered /\ Emptied /\ Joined /\ RecordsInTxn

-----------------------------------------------------------------------------
(* The flags that are on. *)

Statuses == {Initializing, Ready, InTransaction, Committing, Aborting, Abortable, Fatal}

(* Which status a flag belongs to: the statuses of the manager are told    *)
(* apart by their flags.                                                   *)
LEMMA Flags ==
  ASSUME NEW s \in Statuses
  PROVE  /\ "InError" \in s <=> s = Abortable \/ s = Fatal
         /\ "FatalError" \in s <=> s = Fatal
         /\ "InTransaction" \in s <=> s = InTransaction
         /\ "EndTransaction" \in s <=> s = Committing \/ s = Aborting
  BY DEF Statuses, Initializing, Ready, InTransaction, Committing, Aborting, Abortable, Fatal

(* The statuses differ. *)
LEMMA Apart ==
  /\ Initializing # Ready /\ Initializing # InTransaction /\ Initializing # Committing
  /\ Initializing # Aborting /\ Initializing # Abortable /\ Initializing # Fatal
  /\ Ready # InTransaction /\ Ready # Committing /\ Ready # Aborting /\ Ready # Abortable
  /\ Ready # Fatal /\ InTransaction # Committing /\ InTransaction # Aborting
  /\ InTransaction # Abortable /\ InTransaction # Fatal /\ Committing # Aborting
  /\ Committing # Abortable /\ Committing # Fatal /\ Aborting # Abortable /\ Aborting # Fatal
  /\ Abortable # Fatal
  BY SMT DEF Initializing, Ready, InTransaction, Committing, Aborting, Abortable, Fatal

(* The transitions that isTransitionValid lets through, from the rows of   *)
(* Allowed.                                                                *)
LEMMA Valid ==
  ASSUME status \in Statuses
  PROVE  /\ IsTransitionValid(Initializing) <=> status \in {Initializing, Committing, Aborting}
         /\ IsTransitionValid(Ready) <=> status \in {Initializing, Committing, Aborting}
         /\ IsTransitionValid(InTransaction) <=> status = Ready
         /\ IsTransitionValid(Committing) <=> status = InTransaction
         /\ IsTransitionValid(Aborting) <=> status \in {InTransaction, Abortable}
         /\ IsTransitionValid(Abortable) <=> status \notin {Ready, Fatal}
         /\ IsTransitionValid(Fatal) <=> status # Ready
<1>1. CASE status = Initializing
  BY <1>1 DEF IsTransitionValid, Allowed, Initializing, Ready, InTransaction, Committing, Aborting, Abortable, Fatal
<1>2. CASE status = Ready
  BY <1>2 DEF IsTransitionValid, Allowed, Initializing, Ready, InTransaction, Committing, Aborting, Abortable, Fatal
<1>3. CASE status = InTransaction
  BY <1>3 DEF IsTransitionValid, Allowed, Initializing, Ready, InTransaction, Committing, Aborting, Abortable, Fatal
<1>4. CASE status = Committing
  BY <1>4 DEF IsTransitionValid, Allowed, Initializing, Ready, InTransaction, Committing, Aborting, Abortable, Fatal
<1>5. CASE status = Aborting
  BY <1>5 DEF IsTransitionValid, Allowed, Initializing, Ready, InTransaction, Committing, Aborting, Abortable, Fatal
<1>6. CASE status = Abortable
  BY <1>6 DEF IsTransitionValid, Allowed, Initializing, Ready, InTransaction, Committing, Aborting, Abortable, Fatal
<1>7. CASE status = Fatal
  BY <1>7 DEF IsTransitionValid, Allowed, Initializing, Ready, InTransaction, Committing, Aborting, Abortable, Fatal
<1> QED BY <1>1, <1>2, <1>3, <1>4, <1>5, <1>6, <1>7 DEF Statuses

-----------------------------------------------------------------------------
(* Types. *)

StatusOK ==
  /\ status \in Statuses /\ lastError \in ErrorKinds \cup {NoError}
  /\ (lastError # NoError) = ("InError" \in status)

(* A transition keeps the status and its error together. *)
LEMMA Moved ==
  ASSUME StatusOK, NEW target \in Statuses, NEW err \in ErrorKinds \cup {NoError},
         "InError" \in target => err # NoError, TransitionTo(target, err)
  PROVE  StatusOK'
  BY SMT DEF StatusOK, TransitionTo

(* So does an error that is reported for a message. *)
LEMMA MovedByError ==
  ASSUME StatusOK, bump \in BOOLEAN, NEW err \in ErrorKinds, ErrorState(err)
  PROVE  StatusOK' /\ bump' \in BOOLEAN
<1>1. err \in ErrorKinds \cup {NoError} /\ err # NoError /\ Abortable \in Statuses /\ Fatal \in Statuses
  BY DEF ErrorKinds, NoError, Statuses
<1> QED BY <1>1, Moved, TxnConstants DEF ErrorState, StatusOK

Switches == bump \in BOOLEAN /\ bump0 \in BOOLEAN

TypeRest ==
  /\ epoch \in NoEpoch..cepoch
  /\ pending \subseteq Partitions /\ inTxn \subseteq Partitions /\ offsets \subseteq Groups
  /\ stage \in [Msgs -> {"none", "leader", "adding", "buffered", "publishing", "sending", "failing", "ok", "err"}]
  /\ \A m, n \in Msgs : stage[m] = "publishing" /\ stage[n] = "publishing" => m = n
  /\ retries \in [Msgs -> 0..RetryMax] /\ txnOf \in [Msgs -> 0..MaxTxns]
  /\ merr \in [Msgs -> ErrorKinds \cup {NoError}] /\ ptries \in 0..TxnRetryMax
  /\ pc \in {"idle", "control", "waiting", "offsets", "addoffsets", "txnoffsets",
             "endtxn", "begininit", "init"}
  /\ op \in {"none", "commit", "abort"} /\ tries \in 0..TxnRetryMax
  /\ group \in Groups \cup {NoGroup}
  /\ txn \in 0..MaxTxns /\ ends \in 0..MaxEnds
  /\ result \in [1..MaxTxns -> {"none", "commit", "abort"}]
  /\ cepoch \in Nat /\ cstate \in {"empty", "ongoing", "committed", "aborted"}
  /\ cparts \subseteq Partitions /\ cgroups \subseteq Groups
  /\ fate \in [Msgs -> {"none", "appended", "committed", "aborted"}]
  /\ gfate \in [Groups -> {"none", "added", "sent", "committed", "aborted"}]
  /\ \A m \in Msgs : stage[m] = "failing" => merr[m] # NoError
  /\ pc \in {"addoffsets", "txnoffsets"} => group \in offsets
  /\ pc # "idle" => op # "none"

LEMMA TypeSplit == TypeInv <=> StatusOK /\ Switches /\ TypeRest
  BY Zenon DEF TypeInv, TypeOK, StatusOK, Statuses, Switches, TypeRest

LEMMA TypeSplitPrime == TypeInv' <=> StatusOK' /\ Switches' /\ TypeRest'
  BY Zenon DEF TypeInv, TypeOK, StatusOK, Statuses, Switches, TypeRest

LEMMA TypeInit == Init => TypeInv
<1> SUFFICES ASSUME Init PROVE TypeInv OBVIOUS
<1>1. StatusOK
  BY SMT, Flags, Apart DEF Init, StatusOK, Statuses
<1>2. TypeRest
  BY SMT, TxnConstants DEF Init, TypeRest, NoEpoch, NoError
<1>3. Switches
  BY DEF Init, Switches
<1> QED BY <1>1, <1>2, <1>3, TypeSplit

Stages == {"none", "leader", "adding", "buffered", "publishing", "sending", "failing", "ok", "err"}

StageOK ==
  /\ stage \in [Msgs -> Stages]
  /\ \A m, n \in Msgs : stage[m] = "publishing" /\ stage[n] = "publishing" => m = n
  /\ merr \in [Msgs -> ErrorKinds \cup {NoError}]
  /\ \A m \in Msgs : stage[m] = "failing" => merr[m] # NoError

(* Moving one message changes the stage of no other. *)
LEMMA StageMoved ==
  ASSUME TypeRest, NEW m \in Msgs, NEW s \in Stages, stage' = [stage EXCEPT ![m] = s]
  PROVE  \A n \in Msgs : stage'[n] = IF n = m THEN s ELSE stage[n]
  BY DEF TypeRest, Stages

LEMMA StageKeptOK ==
  ASSUME TypeRest, NEW m \in Msgs, NEW s \in Stages \ {"failing"}, stage' = [stage EXCEPT ![m] = s],
         s = "publishing" => \A n \in Msgs : stage[n] # "publishing", merr' = merr
  PROVE  StageOK'
<1>1. \A n \in Msgs : stage'[n] = IF n = m THEN s ELSE stage[n]
  BY StageMoved
<1>2. \A n, o \in Msgs : stage'[n] = "publishing" /\ stage'[o] = "publishing" => n = o
  BY <1>1 DEF TypeRest
<1>3. stage' \in [Msgs -> Stages]
  BY DEF TypeRest, Stages
<1>4. \A n \in Msgs : stage'[n] = "failing" => merr'[n] # NoError
  BY <1>1 DEF TypeRest
<1> QED BY <1>2, <1>3, <1>4 DEF StageOK, TypeRest

LEMMA FailOK ==
  ASSUME TypeRest, NEW m \in Msgs, NEW err \in ErrorKinds, Fail(m, err)
  PROVE  StageOK'
<1>1. \A n \in Msgs : stage'[n] = IF n = m THEN "failing" ELSE stage[n]
  BY StageMoved DEF Fail, Stages
<1>2. \A n, o \in Msgs : stage'[n] = "publishing" /\ stage'[o] = "publishing" => n = o
  BY <1>1 DEF TypeRest
<1>3. stage' \in [Msgs -> Stages] /\ merr' \in [Msgs -> ErrorKinds \cup {NoError}]
  BY DEF TypeRest, Stages, Fail
<1>4. \A n \in Msgs : merr'[n] = IF n = m THEN err ELSE merr[n]
  BY DEF TypeRest, Fail
<1>5. \A n \in Msgs : stage'[n] = "failing" => merr'[n] # NoError
  BY <1>1, <1>4 DEF TypeRest, ErrorKinds, NoError
<1> QED BY <1>2, <1>3, <1>5 DEF StageOK

(* The application's steps. *)
LEMMA TypeApplication == TypeInv /\ Application => TypeInv'
<1> SUFFICES ASSUME TypeInv, Application PROVE TypeInv' OBVIOUS
<1>0. StatusOK /\ Switches /\ TypeRest BY TypeSplit
<1>1. CASE BeginTxn
  <2>1. StatusOK'
    BY <1>0, <1>1, Moved DEF BeginTxn, Statuses, InTransaction
  <2>2. TypeRest'
    BY SMT, <1>0, <1>1, TxnConstants DEF TypeRest, BeginTxn, pipe
  <2>3. Switches'
    BY <1>0, <1>1 DEF Switches, BeginTxn
  <2> QED BY <2>1, <2>2, <2>3, TypeSplitPrime
<1>2. ASSUME NEW g \in Groups, AddOffsetsToTxn(g) PROVE TypeInv'
  <2>1. StatusOK' /\ Switches'
    BY <1>0, <1>2 DEF StatusOK, Switches, AddOffsetsToTxn, call
  <2>2. TypeRest'
    BY <1>0, <1>2 DEF TypeRest, AddOffsetsToTxn, pipe, call, hist
  <2> QED BY <2>1, <2>2, TypeSplitPrime
<1>3. ASSUME NEW o \in {"commit", "abort"}, CallEnd(o) PROVE TypeInv'
  <2>1. StatusOK' /\ Switches'
    BY <1>0, <1>3 DEF StatusOK, Switches, CallEnd, mgr, flow
  <2>2. TypeRest'
    BY SMT, <1>0, <1>3, TxnConstants DEF TypeRest, CallEnd, mgr, flow, pipe, coord
  <2> QED BY <2>1, <2>2, TypeSplitPrime
<1>4. ASSUME NEW m \in Msgs, Dispatch(m) PROVE TypeInv'
  <2>1. StatusOK' /\ bump' \in BOOLEAN
    <3>1. CASE "InTransaction" \in status
      BY <1>0, <1>4, <3>1 DEF Dispatch, flow, StatusOK, Switches
    <3>2. CASE "InTransaction" \notin status
      BY <1>0, <1>4, <3>2, MovedByError DEF Dispatch, ReturnError, ErrorKinds, Switches
    <3> QED BY <3>1, <3>2
  <2>2. PICK s \in {"leader", "err"} : stage' = [stage EXCEPT ![m] = s]
    BY <1>4 DEF Dispatch, ReturnError
  <2>5. StageOK'
    BY <1>0, <1>4, <2>2, StageKeptOK DEF Stages, Dispatch
  <2>3. TypeRest'
    BY <1>0, <1>4, <2>5 DEF TypeRest, StageOK, Stages, Dispatch, call, hist, coord
  <2>4. Switches'
    BY <1>0, <1>4, <2>1 DEF Switches, Dispatch, call
  <2> QED BY <2>1, <2>3, <2>4, TypeSplitPrime
<1> QED BY <1>1, <1>2, <1>3, <1>4 DEF Application

(* The messages' steps. *)
LEMMA TypeMessage ==
  ASSUME TypeInv, NEW m \in Msgs, Message(m)
  PROVE  TypeInv'
<1>0. StatusOK /\ Switches /\ TypeRest BY TypeSplit
<1>1. CASE MaybeAddPartition(m)
  <2>1. PICK s \in {"adding", "buffered"} : stage' = [stage EXCEPT ![m] = s]
    BY <1>1 DEF MaybeAddPartition
  <2>2. StageOK'
    BY <1>0, <1>1, <2>1, StageKeptOK DEF Stages, MaybeAddPartition
  <2>3. pending' \subseteq Partitions
    BY SMT, <1>0, <1>1, TxnConstants DEF MaybeAddPartition, TypeRest
  <2>4. TypeRest'
    BY <1>0, <1>1, <2>2, <2>3 DEF TypeRest, StageOK, Stages, MaybeAddPartition, call, hist, coord
  <2>5. StatusOK' /\ Switches'
    BY <1>0, <1>1 DEF StatusOK, Switches, MaybeAddPartition, flow, call
  <2> QED BY <2>4, <2>5, TypeSplitPrime
<1>2. CASE BeginPublish(m)
  <2>1. StageOK'
    <3>1. CASE "InError" \in status
      <4>1. lastError \in ErrorKinds /\ Fail(m, lastError)
        BY <1>0, <1>2, <3>1 DEF BeginPublish, StatusOK
      <4> QED BY <1>0, <4>1, FailOK
    <3>2. CASE "InError" \notin status
      <4>1. PICK s \in {"sending", "publishing"} : stage' = [stage EXCEPT ![m] = s]
        BY <1>2, <3>2 DEF BeginPublish
      <4> QED BY <1>0, <1>2, <3>2, <4>1, StageKeptOK DEF Stages, BeginPublish, Unlocked
    <3> QED BY <3>1, <3>2
  <2>2. TypeRest'
    BY SMT, <1>0, <1>2, <2>1, TxnConstants
    DEF TypeRest, StageOK, Stages, BeginPublish, mgr, flow, call, hist, coord
  <2>3. StatusOK' /\ Switches'
    BY <1>0, <1>2 DEF StatusOK, Switches, BeginPublish, mgr, flow, call
  <2> QED BY <2>2, <2>3, TypeSplitPrime
<1>3. CASE Publish(m)
  <2> DEFINE Rest == /\ ptries' \in 0..TxnRetryMax /\ pending' \subseteq Partitions /\ inTxn' \subseteq Partitions
                     /\ StageOK' /\ cepoch' = cepoch /\ fate' = fate /\ gfate' = gfate
                     /\ cstate' \in {"empty", "ongoing", "committed", "aborted"}
                     /\ cparts' \subseteq Partitions /\ cgroups' \subseteq Groups
                     /\ StatusOK' /\ bump' \in BOOLEAN
  <2>1. ASSUME PublishAgain(m) PROVE StageOK' /\ ptries' \in 0..TxnRetryMax /\ StatusOK' /\ bump' \in BOOLEAN
    <3>1. StatusOK' /\ bump' \in BOOLEAN
      BY <1>0, <2>1 DEF PublishAgain, flow, StatusOK, Switches
    <3>2. StageOK' /\ ptries' \in 0..TxnRetryMax
      <4>1. CASE ptries > 0
        <5>1. stage' = stage /\ merr' = merr /\ ptries' = ptries - 1
          BY SMT, <2>1, <4>1 DEF PublishAgain, TypeRest
        <5>2. ptries' \in 0..TxnRetryMax
          BY SMT, <1>0, <4>1, <5>1, TxnConstants DEF TypeRest
        <5> QED BY <1>0, <5>1, <5>2 DEF TypeRest, StageOK, Stages
      <4>2. CASE ~(ptries > 0)
        <5>1. Fail(m, "abortable") /\ ptries' = ptries
          BY <2>1, <4>2 DEF PublishAgain
        <5> QED BY <1>0, <5>1, FailOK DEF ErrorKinds, TypeRest
      <4> QED BY <4>1, <4>2
    <3> QED BY <3>1, <3>2
  <2>2. ASSUME NEW ps \in SUBSET pending, PublishAnswered(m, ps) PROVE Rest
    <3>1. /\ pending' \subseteq Partitions /\ inTxn' \subseteq Partitions
          /\ cepoch' = cepoch /\ fate' = fate /\ gfate' = gfate
          /\ cstate' \in {"empty", "ongoing", "committed", "aborted"}
          /\ cparts' \subseteq Partitions /\ cgroups' \subseteq Groups
      BY <1>0, <2>2 DEF TypeRest, PublishAnswered, JoinTxn, coord
    <3>2. StageOK' /\ ptries' \in 0..TxnRetryMax /\ StatusOK' /\ bump' \in BOOLEAN
      <4>1. CASE ps # pending
        BY <2>1, <2>2, <4>1 DEF PublishAnswered
      <4>2. CASE ps = pending
        <5>1. StageOK'
          BY <1>0, <2>2, <4>2, StageKeptOK DEF PublishAnswered, Stages
        <5> QED BY <1>0, <2>2, <4>2, <5>1 DEF PublishAnswered, flow, StatusOK, Switches, TypeRest
      <4> QED BY <4>1, <4>2
    <3> QED BY <3>1, <3>2
  <2>3. ASSUME PublishUnanswered(m) PROVE Rest
    <3>1. /\ pending' \subseteq Partitions /\ inTxn' \subseteq Partitions
          /\ cepoch' = cepoch /\ fate' = fate /\ gfate' = gfate
          /\ cstate' \in {"empty", "ongoing", "committed", "aborted"}
          /\ cparts' \subseteq Partitions /\ cgroups' \subseteq Groups
      BY <1>0, <2>3 DEF TypeRest, PublishUnanswered, JoinTxn, coord
    <3> QED BY <2>1, <2>3, <3>1 DEF PublishUnanswered
  <2>4. ASSUME NEW target \in {Abortable, Fatal}, NEW err \in ErrorKinds, PublishRefused(m, target, err) PROVE Rest
    <3>1. StageOK'
      <4>1. PICK e \in ErrorKinds : Fail(m, e)
        BY <2>4 DEF PublishRefused, ErrorKinds
      <4> QED BY <1>0, <4>1, FailOK
    <3>2. StatusOK'
      BY <1>0, <2>4, Moved DEF PublishRefused, Statuses, ErrorKinds, NoError
    <3>3. bump' \in BOOLEAN
      BY <1>0, <2>4 DEF PublishRefused, Switches
    <3> QED BY <1>0, <2>4, <3>1, <3>2, <3>3 DEF PublishRefused, coord, TypeRest
  <2>5. Rest
    BY <1>3, <2>2, <2>3, <2>4 DEF Publish, ErrorKinds, LostProducerID
  <2>6. TypeRest'
    BY <1>0, <1>3, <2>5 DEF TypeRest, StageOK, Stages, Publish, call, hist
  <2>7. Switches'
    BY <1>0, <1>3, <2>5 DEF Switches, Publish, call
  <2> QED BY <2>5, <2>6, <2>7, TypeSplitPrime
<1>4. CASE Produce(m)
  <2>1. fate' \in [Msgs -> {"none", "appended", "committed", "aborted"}]
    BY <1>0, <1>4 DEF Produce, Appended, TypeRest
  <2>2. StageOK'
    <3>1. CASE stage' = [stage EXCEPT ![m] = "ok"] /\ merr' = merr
      BY <1>0, <3>1, StageKeptOK DEF Stages
    <3>2. CASE Fail(m, "abortable")
      BY <1>0, <3>2, FailOK DEF ErrorKinds
    <3>3. CASE stage' = [stage EXCEPT ![m] = "err"] /\ merr' = merr
      BY <1>0, <3>3, StageKeptOK DEF Stages
    <3> QED BY <1>4, <3>1, <3>2, <3>3 DEF Produce, ReturnError
  <2>3. StatusOK' /\ bump' \in BOOLEAN
    <3>1. CASE UNCHANGED flow
      BY <1>0, <3>1 DEF flow, StatusOK, Switches
    <3>2. CASE ErrorState("abortable")
      BY <1>0, <3>2, MovedByError DEF ErrorKinds, Switches
    <3> QED BY <1>4, <3>1, <3>2 DEF Produce, ReturnError
  <2>4. TypeRest'
    BY <1>0, <1>4, <2>1, <2>2 DEF TypeRest, StageOK, Stages, Produce, call, hist
  <2>5. Switches'
    BY <1>0, <1>4, <2>3 DEF Switches, Produce, call
  <2> QED BY <2>3, <2>4, <2>5, TypeSplitPrime
<1>5. CASE RetryMessage(m)
  <2>1. StageOK'
    <3>1. PICK s \in {"leader", "err"} : stage' = [stage EXCEPT ![m] = s]
      BY <1>5 DEF RetryMessage, ReturnError
    <3> QED BY <1>0, <1>5, <3>1, StageKeptOK DEF Stages, RetryMessage
  <2>2. StatusOK' /\ bump' \in BOOLEAN
    <3>1. CASE UNCHANGED flow
      BY <1>0, <3>1 DEF flow, StatusOK, Switches
    <3>2. CASE ErrorState(merr[m])
      <4>1. merr[m] \in ErrorKinds
        BY <1>0, <1>5 DEF RetryMessage, TypeRest
      <4> QED BY <1>0, <3>2, <4>1, MovedByError DEF Switches
    <3> QED BY <1>5, <3>1, <3>2 DEF RetryMessage, ReturnError
  <2>3. retries' \in [Msgs -> 0..RetryMax]
    <3>1. retries' = retries \/ (retries[m] < RetryMax /\ retries' = [retries EXCEPT ![m] = retries[m] + 1])
      BY <1>5 DEF RetryMessage
    <3>2. retries \in [Msgs -> 0..RetryMax]
      BY <1>0 DEF TypeRest
    <3>3. retries[m] < RetryMax => retries[m] + 1 \in 0..RetryMax
      BY SMT, <3>2, TxnConstants
    <3> QED BY <3>1, <3>2, <3>3
  <2>4. TypeRest'
    BY <1>0, <1>5, <2>1, <2>3 DEF TypeRest, StageOK, Stages, RetryMessage, call, hist, coord
  <2>5. Switches'
    BY <1>0, <1>5, <2>2 DEF Switches, RetryMessage, call
  <2> QED BY <2>2, <2>4, <2>5, TypeSplitPrime
<1> QED BY <1>1, <1>2, <1>3, <1>4, <1>5 DEF Message

(* The pieces that the steps of a call are made of. *)

LEMMA ReturnOK ==
  ASSUME TypeRest, NEW r \in {"error", "commit", "abort"}, Return(r)
  PROVE  pc' = "idle" /\ result' \in [1..MaxTxns -> {"none", "commit", "abort"}]
  BY DEF TypeRest, Return

LEMMA AgainOK ==
  ASSUME TypeRest, Again
  PROVE  /\ pc' \in {pc, "idle"} /\ result' = result /\ tries' \in 0..TxnRetryMax
         /\ tries = 0 => pc' = "idle"
<1>1. CASE tries > 0
  BY SMT, <1>1, TxnConstants DEF TypeRest, Again, Return
<1>2. CASE ~(tries > 0)
  BY <1>2, TxnConstants DEF TypeRest, Again, Return
<1> QED BY <1>1, <1>2

LEMMA RefusedOK ==
  ASSUME StatusOK, Switches, NEW target \in {Abortable, Fatal}, NEW err \in ErrorKinds, Refused(target, err)
  PROVE  StatusOK' /\ bump' \in BOOLEAN /\ pc' = "idle" /\ result' = result /\ tries' = tries
<1>1. StatusOK'
  BY Moved DEF Refused, Statuses, ErrorKinds, NoError
<1>2. bump' \in BOOLEAN
  BY DEF Refused, Switches
<1> QED BY <1>1, <1>2 DEF Refused, Return

LEMMA CallRefusedOK ==
  ASSUME StatusOK, Switches, CallRefused
  PROVE  StatusOK' /\ bump' \in BOOLEAN /\ pc' = "idle" /\ result' = result /\ tries' = tries
<1>1. PICK target \in {Abortable, Fatal}, err \in ErrorKinds : Refused(target, err)
  BY DEF CallRefused, ErrorKinds, LostProducerID
<1> QED BY <1>1, RefusedOK

LEMMA CompleteOK ==
  ASSUME StatusOK, Switches, TypeRest, NEW target \in {Initializing, Ready}, Complete(target)
  PROVE  /\ StatusOK' /\ bump' \in BOOLEAN
         /\ pending' \subseteq Partitions /\ inTxn' \subseteq Partitions /\ offsets' \subseteq Groups
<1>1. StatusOK'
  <2>1. "InError" \notin target /\ target \in Statuses
    BY Flags, Apart DEF Statuses
  <2> QED BY <2>1, Moved DEF Complete, ErrorKinds
<1>2. bump' \in BOOLEAN
  BY DEF Complete, Switches
<1> QED BY <1>1, <1>2 DEF Complete, TypeRest

LEMMA BeginInitOK ==
  ASSUME StatusOK, TypeRest, BeginInit
  PROVE  /\ StatusOK' /\ pc' \in {"init", "idle"} /\ result' = result
         /\ tries' \in 0..TxnRetryMax /\ epoch' \in {epoch, NoEpoch}
<1>1. StatusOK'
  <2>1. "InError" \notin Initializing /\ Initializing \in Statuses
    BY Flags, Apart DEF Statuses
  <2> QED BY <2>1, Moved DEF BeginInit, ErrorKinds, StatusOK
<1> QED BY SMT, <1>1, TxnConstants DEF BeginInit, TypeRest, Return

LEMMA DecideOK ==
  ASSUME TypeRest, NEW how \in {"committed", "aborted"}, Decide(how)
  PROVE  /\ cstate' = how /\ fate' \in [Msgs -> {"none", "appended", "committed", "aborted"}]
         /\ gfate' \in [Groups -> {"none", "added", "sent", "committed", "aborted"}]
  BY DEF TypeRest, Decide

LEMMA EndAcceptedOK ==
  ASSUME TypeRest, EndAccepted
  PROVE  /\ cstate' \in {"committed", "aborted"} /\ fate' \in [Msgs -> {"none", "appended", "committed", "aborted"}]
         /\ gfate' \in [Groups -> {"none", "added", "sent", "committed", "aborted"}]
  BY DecideOK DEF TypeRest, EndAccepted, Outcome

LEMMA NewEpochOK ==
  ASSUME TypeRest, NewEpoch
  PROVE  /\ cepoch' = cepoch + 1 /\ cparts' = {} /\ cgroups' = {}
         /\ cstate' \in {"empty", "ongoing", "committed", "aborted"}
         /\ fate' \in [Msgs -> {"none", "appended", "committed", "aborted"}]
         /\ gfate' \in [Groups -> {"none", "added", "sent", "committed", "aborted"}]
  BY DecideOK DEF TypeRest, NewEpoch

(* The steps of a call. *)
LEMMA TypeFinishing ==
  ASSUME TypeInv, Finishing
  PROVE  TypeInv'
<1>0. StatusOK /\ Switches /\ TypeRest BY TypeSplit
<1>1. CASE Control
  <2>1. StatusOK'
    <3>1. PICK target \in {Committing, Aborting} : TransitionTo(target, NoError)
      BY <1>1 DEF Control
    <3>2. "InError" \notin target /\ target \in Statuses
      BY Flags, Apart DEF Statuses
    <3> QED BY <1>0, <3>1, <3>2, Moved DEF ErrorKinds
  <2>2. TypeRest'
    BY <1>0, <1>1 DEF TypeRest, Control, pipe, hist, coord
  <2>3. Switches'
    BY <1>0, <1>1 DEF Switches, Control
  <2> QED BY <2>1, <2>2, <2>3, TypeSplitPrime
<1>2. CASE BeginFinish
  <2> DEFINE Rest == /\ StatusOK' /\ bump' \in BOOLEAN /\ epoch' = epoch
                     /\ pending' \subseteq Partitions /\ inTxn' \subseteq Partitions /\ offsets' \subseteq Groups
                     /\ pc' \in {"idle", "offsets"} /\ result' \in [1..MaxTxns -> {"none", "commit", "abort"}]
  <2>1. op \in {"commit", "abort"}
    BY <1>0, <1>2 DEF BeginFinish, TypeRest
  <2>2. Rest
    <3>1. CASE Return("error") /\ UNCHANGED mgr
      BY <1>0, <3>1, ReturnOK DEF mgr, flow, StatusOK, Switches, TypeRest
    <3>2. CASE Complete(CompletionTarget) /\ UNCHANGED epoch
               /\ Return(IF IsTransitionValid(CompletionTarget) THEN op ELSE "error")
      BY <1>0, <2>1, <3>2, CompleteOK, ReturnOK DEF CompletionTarget
    <3>3. CASE pc' = "offsets" /\ UNCHANGED <<mgr, result>>
      BY <1>0, <3>3 DEF mgr, flow, StatusOK, Switches, TypeRest
    <3> QED BY <1>2, <3>1, <3>2, <3>3 DEF BeginFinish
  <2>3. TypeRest'
    BY <1>0, <1>2, <2>1, <2>2 DEF TypeRest, BeginFinish, pipe, coord
  <2>4. Switches'
    BY <1>0, <1>2, <2>2 DEF Switches, BeginFinish
  <2> QED BY <2>2, <2>3, <2>4, TypeSplitPrime
<1>3. CASE NextGroup
  <2> DEFINE Rest == /\ StatusOK' /\ bump' = bump /\ epoch' \in {epoch, NoEpoch}
                     /\ pc' \in {"idle", "addoffsets", "endtxn", "init"} /\ result' = result
                     /\ tries' \in 0..TxnRetryMax /\ group' \in Groups \cup {NoGroup}
                     /\ pc' = "addoffsets" => group' \in offsets
  <2>1. Rest
    <3>1. ASSUME NEW g \in offsets, group' = g, pc' = "addoffsets", tries' = TxnRetryMax, UNCHANGED <<flow, epoch, result>>
          PROVE  Rest
      BY SMT, <1>0, <3>1, TxnConstants DEF flow, StatusOK, TypeRest
    <3>2. CASE UNCHANGED <<bump, group>> /\ BeginInit
      BY <1>0, <3>2, BeginInitOK DEF TypeRest
    <3>3. CASE UNCHANGED <<bump, group, status, lastError, epoch, tries>> /\ Return("error")
      BY <1>0, <3>3 DEF StatusOK, TypeRest, Return
    <3>4. CASE UNCHANGED <<bump, group, status, lastError, epoch, result>> /\ pc' = "endtxn" /\ tries' = TxnRetryMax
      BY SMT, <1>0, <3>4, TxnConstants DEF StatusOK, TypeRest
    <3> QED BY <1>3, <3>1, <3>2, <3>3, <3>4 DEF NextGroup
  <2>2. TypeRest'
    BY SMT, <1>0, <1>3, <2>1 DEF TypeRest, NextGroup, pipe, coord, NoEpoch
  <2>3. Switches'
    BY <1>0, <1>3, <2>1 DEF Switches, NextGroup
  <2> QED BY <2>1, <2>2, <2>3, TypeSplitPrime
<1>4. CASE AddOffsets
  <2> DEFINE Rest == /\ StatusOK' /\ bump' \in BOOLEAN /\ result' = result /\ tries' \in 0..TxnRetryMax
                     /\ pc' \in {"idle", "addoffsets", "txnoffsets"}
  <2>1. cstate' \in {"empty", "ongoing", "committed", "aborted"} /\ cparts' \subseteq Partitions /\ cgroups' \subseteq Groups
    BY <1>0, <1>4 DEF TypeRest, AddOffsets
  <2>2. Rest
    <3>1. CASE pc' = "txnoffsets" /\ tries' = TxnRetryMax /\ UNCHANGED <<flow, result>>
      BY SMT, <1>0, <3>1, TxnConstants DEF flow, StatusOK, Switches
    <3>2. CASE Again /\ UNCHANGED flow
      BY <1>0, <1>4, <3>2, AgainOK DEF AddOffsets, flow, StatusOK, Switches
    <3>3. CASE Refused(Abortable, "abortable")
      BY <1>0, <3>3, RefusedOK DEF ErrorKinds, TypeRest
    <3>4. CASE CallRefused
      BY <1>0, <3>4, CallRefusedOK DEF TypeRest
    <3> QED BY <1>4, <3>1, <3>2, <3>3, <3>4 DEF AddOffsets
  <2>3. TypeRest'
    BY <1>0, <1>4, <2>1, <2>2 DEF TypeRest, AddOffsets, pipe
  <2>4. Switches'
    BY <1>0, <1>4, <2>2 DEF Switches, AddOffsets
  <2> QED BY <2>2, <2>3, <2>4, TypeSplitPrime
<1>5. CASE TxnOffsetCommit
  <2> DEFINE Rest == /\ StatusOK' /\ bump' \in BOOLEAN /\ result' = result /\ tries' \in 0..TxnRetryMax
                     /\ pc' \in {"idle", "offsets", "txnoffsets"} /\ offsets' \subseteq Groups
                     /\ pc' = "txnoffsets" => offsets' = offsets
  <2>1. gfate' \in [Groups -> {"none", "added", "sent", "committed", "aborted"}]
    BY <1>0, <1>5 DEF TypeRest, TxnOffsetCommit
  <2>2. Rest
    <3>1. CASE pc' = "offsets" /\ offsets' = offsets \ {group} /\ UNCHANGED <<flow, tries, result>>
      BY <1>0, <3>1 DEF flow, StatusOK, Switches, TypeRest
    <3>2. CASE Again /\ UNCHANGED <<flow, offsets>>
      BY <1>0, <1>5, <3>2, AgainOK DEF TxnOffsetCommit, flow, StatusOK, Switches, TypeRest
    <3>3. CASE Refused(Abortable, "abortable") /\ UNCHANGED offsets
      BY <1>0, <3>3, RefusedOK DEF ErrorKinds, TypeRest
    <3>4. CASE CallRefused /\ UNCHANGED offsets
      BY <1>0, <3>4, CallRefusedOK DEF TypeRest
    <3> QED BY <1>5, <3>1, <3>2, <3>3, <3>4 DEF TxnOffsetCommit
  <2>3. TypeRest'
    BY <1>0, <1>5, <2>1, <2>2 DEF TypeRest, TxnOffsetCommit, pipe
  <2>4. Switches'
    BY <1>0, <1>5, <2>2 DEF Switches, TxnOffsetCommit
  <2> QED BY <2>2, <2>3, <2>4, TypeSplitPrime
<1>6. CASE EndTxn
  <2> DEFINE Rest == /\ StatusOK' /\ bump' \in BOOLEAN /\ tries' \in 0..TxnRetryMax
                     /\ pc' \in {"idle", "endtxn", "begininit"} /\ result' \in [1..MaxTxns -> {"none", "commit", "abort"}]
                     /\ pending' \subseteq Partitions /\ inTxn' \subseteq Partitions /\ offsets' \subseteq Groups
  <2>0. op \in {"commit", "abort"}
    BY <1>0, <1>6 DEF EndTxn, TypeRest
  <2>1. /\ cstate' \in {"empty", "ongoing", "committed", "aborted"} /\ fate' \in [Msgs -> {"none", "appended", "committed", "aborted"}]
        /\ gfate' \in [Groups -> {"none", "added", "sent", "committed", "aborted"}]
    BY <1>0, <1>6, EndAcceptedOK DEF TypeRest, EndTxn
  <2>2. Rest
    <3>1. CASE /\ Complete(CompletionTarget) /\ UNCHANGED tries
               /\ IF ~IsTransitionValid(CompletionTarget) THEN Return("error")
                  ELSE IF bump0 THEN pc' = "begininit" /\ UNCHANGED result ELSE Return(op)
      <4>1. pc' \in {"idle", "endtxn", "begininit"} /\ result' \in [1..MaxTxns -> {"none", "commit", "abort"}]
        BY <1>0, <2>0, <3>1, ReturnOK DEF TypeRest
      <4> QED BY <1>0, <3>1, <4>1, CompleteOK DEF CompletionTarget, TypeRest
    <3>2. CASE Again /\ UNCHANGED <<flow, pending, inTxn, offsets>>
      BY <1>0, <1>6, <3>2, AgainOK DEF EndTxn, flow, StatusOK, Switches, TypeRest
    <3>3. CASE CallRefused /\ UNCHANGED <<pending, inTxn, offsets>>
      BY <1>0, <3>3, CallRefusedOK DEF TypeRest
    <3>4. CASE Refused(Fatal, "fatal") /\ UNCHANGED <<pending, inTxn, offsets>>
      BY <1>0, <3>4, RefusedOK DEF ErrorKinds, TypeRest
    <3> QED BY <1>6, <3>1, <3>2, <3>3, <3>4 DEF EndTxn
  <2>3. TypeRest'
    BY <1>0, <1>6, <2>0, <2>1, <2>2 DEF TypeRest, EndTxn, pipe
  <2>4. Switches'
    BY <1>0, <1>6, <2>2 DEF Switches, EndTxn
  <2> QED BY <2>2, <2>3, <2>4, TypeSplitPrime
<1>7. CASE InitializeTransactions
  <2>1. StatusOK' /\ pc' \in {"init", "idle"} /\ result' = result /\ tries' \in 0..TxnRetryMax /\ epoch' \in {epoch, NoEpoch}
    BY <1>0, <1>7, BeginInitOK DEF InitializeTransactions
  <2>2. TypeRest'
    BY SMT, <1>0, <1>7, <2>1 DEF TypeRest, InitializeTransactions, pipe, coord, NoEpoch
  <2>3. Switches'
    BY <1>0, <1>7 DEF Switches, InitializeTransactions
  <2> QED BY <2>1, <2>2, <2>3, TypeSplitPrime
<1>8. CASE InitProducerID
  <2> DEFINE Rest == /\ StatusOK' /\ tries' \in 0..TxnRetryMax /\ epoch' \in NoEpoch..cepoch'
                     /\ pc' \in {"idle", "init"} /\ result' \in [1..MaxTxns -> {"none", "commit", "abort"}]
                     /\ cepoch' \in Nat /\ cstate' \in {"empty", "ongoing", "committed", "aborted"}
                     /\ cparts' \subseteq Partitions /\ cgroups' \subseteq Groups
                     /\ fate' \in [Msgs -> {"none", "appended", "committed", "aborted"}]
                     /\ gfate' \in [Groups -> {"none", "added", "sent", "committed", "aborted"}]
  <2>0. op \in {"commit", "abort"} /\ "InError" \notin Ready /\ Ready \in Statuses /\ Fatal \in Statuses
    BY <1>0, <1>8, Flags, Apart DEF InitProducerID, TypeRest, Statuses
  <2>1. Rest
    <3>1. CASE /\ NewEpoch /\ TransitionTo(Ready, NoError)
               /\ IF IsTransitionValid(Ready)
                  THEN epoch' = cepoch + 1 /\ Return(op) /\ UNCHANGED tries
                  ELSE Again /\ (IF tries = 0 THEN InitFails ELSE UNCHANGED epoch)
      <4>1. StatusOK'
        BY <1>0, <2>0, <3>1, Moved DEF ErrorKinds
      <4>2. epoch' \in {epoch, NoEpoch, cepoch + 1}
        BY <3>1 DEF InitFails
      <4>3. pc' \in {"idle", "init"} /\ result' \in [1..MaxTxns -> {"none", "commit", "abort"}] /\ tries' \in 0..TxnRetryMax
        BY <1>0, <1>8, <2>0, <3>1, ReturnOK, AgainOK DEF InitProducerID, TypeRest
      <4>4. epoch' \in NoEpoch..cepoch' /\ cepoch' \in Nat
        BY SMT, <1>0, <3>1, <4>2, NewEpochOK DEF TypeRest, NoEpoch
      <4> QED BY <1>0, <3>1, <4>1, <4>3, <4>4, NewEpochOK DEF TypeRest
    <3>2. CASE /\ Again /\ UNCHANGED <<status, lastError, coord>>
               /\ IF tries = 0 THEN InitFails ELSE UNCHANGED epoch
      <4>1. StatusOK'
        BY <1>0, <3>2 DEF StatusOK
      <4>2. epoch' \in NoEpoch..cepoch'
        BY SMT, <1>0, <3>2 DEF TypeRest, InitFails, NoEpoch, coord
      <4> QED BY <1>0, <1>8, <3>2, <4>1, <4>2, AgainOK DEF InitProducerID, TypeRest, coord
    <3>3. CASE TransitionTo(Fatal, "fatal") /\ Return("error") /\ InitFails /\ UNCHANGED <<tries, coord>>
      <4>1. StatusOK'
        BY <1>0, <2>0, <3>3, Moved DEF ErrorKinds, NoError
      <4>2. epoch' \in NoEpoch..cepoch'
        BY SMT, <1>0, <3>3 DEF TypeRest, InitFails, NoEpoch, coord
      <4> QED BY <1>0, <3>3, <4>1, <4>2 DEF Return, TypeRest, coord
    <3> QED BY <1>8, <3>1, <3>2, <3>3 DEF InitProducerID
  <2>2. TypeRest'
    BY <1>0, <1>8, <2>0, <2>1 DEF TypeRest, InitProducerID, pipe
  <2>3. Switches'
    BY <1>0, <1>8 DEF Switches, InitProducerID
  <2> QED BY <2>1, <2>2, <2>3, TypeSplitPrime
<1> QED BY <1>1, <1>2, <1>3, <1>4, <1>5, <1>6, <1>7, <1>8 DEF Finishing

LEMMA TypeTimeout ==
  ASSUME TypeInv, TransactionTimeout
  PROVE  TypeInv'
<1>0. StatusOK /\ Switches /\ TypeRest BY TypeSplit
<1>1. TypeRest'
  BY SMT, <1>0, NewEpochOK DEF TypeRest, TransactionTimeout, mgr, flow, pipe, call, hist, NoEpoch
<1>2. StatusOK' /\ Switches'
  BY <1>0 DEF TransactionTimeout, StatusOK, Switches, mgr, flow, call
<1> QED BY <1>1, <1>2, TypeSplitPrime

LEMMA TypeNext == TypeInv /\ [Next]_vars => TypeInv'
<1> SUFFICES ASSUME TypeInv, [Next]_vars PROVE TypeInv' OBVIOUS
<1>0. StatusOK /\ Switches /\ TypeRest BY TypeSplit
<1>1. CASE UNCHANGED vars
  <2>1. TypeRest'
    BY <1>0, <1>1 DEF TypeRest, vars, mgr, flow, pipe, call, hist, coord
  <2>2. StatusOK' /\ Switches'
    BY <1>0, <1>1 DEF StatusOK, Switches, vars, mgr, flow, call
  <2> QED BY <2>1, <2>2, TypeSplitPrime
<1> QED BY <1>1, TypeApplication, TypeMessage, TypeFinishing, TypeTimeout DEF Next

(* Every variable of the manager, of the messages and of the coordinator   *)
(* has its type at all times, and one goroutine at a time publishes.       *)
THEOREM TransactionTypes == Spec => []TypeOK
<1>1. TypeInv => TypeOK BY DEF TypeInv
<1> QED BY <1>1, TypeInit, TypeNext, PTL DEF Spec

-----------------------------------------------------------------------------
(* Errors. *)

(* What a message can do to the status. *)
ErrorMoves ==
  \/ status' = status
  \/ status' = Abortable /\ status \notin {Ready, Fatal}
  \/ status' = Fatal /\ status # Ready

(* Every way in which the status can change. *)
StatusMoves ==
  \/ ErrorMoves
  \/ status' \in {Initializing, Ready} /\ status \in {Initializing, Committing, Aborting} /\ pc \notin {"idle", "control"}
  \/ status' = InTransaction /\ status = Ready /\ pc = "idle" /\ pc' = "idle"
  \/ status' = Committing /\ status = InTransaction /\ pc = "control"
  \/ status' = Aborting /\ status \in {InTransaction, Abortable} /\ pc = "control" /\ op = "abort"

LEMMA ErrorStep ==
  ASSUME TypeInv, NEW m \in Msgs, Message(m) \/ Dispatch(m)
  PROVE  ErrorMoves
<1>0. status \in Statuses BY TypeSplit DEF StatusOK
<1>1. ASSUME NEW err, ErrorState(err) PROVE ErrorMoves
  BY <1>0, <1>1, Valid DEF ErrorState, TransitionTo, ErrorMoves
<1>2. CASE Dispatch(m)
  BY <1>1, <1>2 DEF Dispatch, ReturnError, flow, ErrorMoves
<1>3. CASE MaybeAddPartition(m) \/ BeginPublish(m)
  BY <1>3 DEF MaybeAddPartition, BeginPublish, mgr, flow, ErrorMoves
<1>4. CASE Publish(m)
  <2>1. ASSUME NEW target \in {Abortable, Fatal}, NEW err, PublishRefused(m, target, err) PROVE ErrorMoves
    BY <1>0, <2>1, Valid DEF PublishRefused, TransitionTo, ErrorMoves
  <2>2. CASE UNCHANGED flow
    BY <2>2 DEF flow, ErrorMoves
  <2> QED BY <1>4, <2>1, <2>2 DEF Publish, PublishAnswered, PublishUnanswered, PublishAgain
<1>5. CASE Produce(m) \/ RetryMessage(m)
  BY <1>1, <1>5 DEF Produce, RetryMessage, ReturnError, flow, ErrorMoves
<1> QED BY <1>2, <1>3, <1>4, <1>5 DEF Message

LEMMA StatusStep ==
  ASSUME TypeInv, Next
  PROVE  StatusMoves
<1>0. status \in Statuses /\ TypeRest BY TypeSplit DEF StatusOK
<1>1. ASSUME NEW target \in {Abortable, Fatal}, NEW err, TransitionTo(target, err) PROVE StatusMoves
  BY <1>0, <1>1, Valid DEF TransitionTo, StatusMoves, ErrorMoves
<1>2. ASSUME NEW target \in {Ready, Initializing}, NEW err, TransitionTo(target, err), pc \notin {"idle", "control"} PROVE StatusMoves
  BY <1>0, <1>2, Valid DEF TransitionTo, StatusMoves, ErrorMoves
<1>3. CASE Application
  <2>1. CASE BeginTxn
    BY <1>0, <2>1, Valid DEF BeginTxn, TransitionTo, StatusMoves
  <2>2. ASSUME NEW g \in Groups, AddOffsetsToTxn(g) PROVE StatusMoves
    BY <2>2 DEF AddOffsetsToTxn, StatusMoves, ErrorMoves
  <2>3. ASSUME NEW o \in {"commit", "abort"}, CallEnd(o) PROVE StatusMoves
    BY <2>3 DEF CallEnd, mgr, flow, StatusMoves, ErrorMoves
  <2> QED BY <1>3, <2>1, <2>2, <2>3, ErrorStep DEF Application, StatusMoves
<1>4. ASSUME NEW m \in Msgs, Message(m) PROVE StatusMoves
  BY <1>4, ErrorStep DEF StatusMoves
<1>5. CASE Finishing
  <2>0. ASSUME CallRefused PROVE StatusMoves
    BY <1>1, <2>0 DEF CallRefused, Refused
  <2>1. CASE Control
    <3>1. CASE op = "commit"
      BY <1>0, <2>1, <3>1, Valid DEF Control, TransitionTo, StatusMoves, ErrorMoves
    <3>2. CASE op # "commit"
      BY <1>0, <2>1, <3>2, Valid DEF Control, TransitionTo, StatusMoves, ErrorMoves, TypeRest
    <3> QED BY <3>1, <3>2
  <2>2. CASE BeginFinish
    BY <1>2, <2>2 DEF BeginFinish, Complete, CompletionTarget, mgr, flow, StatusMoves, ErrorMoves
  <2>3. CASE NextGroup \/ InitializeTransactions
    BY <1>2, <2>3 DEF NextGroup, InitializeTransactions, BeginInit, flow, StatusMoves, ErrorMoves
  <2>4. CASE AddOffsets
    BY <1>1, <2>0, <2>4 DEF AddOffsets, Refused, flow, StatusMoves, ErrorMoves
  <2>5. CASE TxnOffsetCommit
    BY <1>1, <2>0, <2>5 DEF TxnOffsetCommit, Refused, flow, StatusMoves, ErrorMoves
  <2>6. CASE EndTxn
    BY <1>1, <1>2, <2>0, <2>6 DEF EndTxn, Refused, Complete, CompletionTarget, flow, StatusMoves, ErrorMoves
  <2>7. CASE InitProducerID
    BY <1>1, <1>2, <2>7 DEF InitProducerID, StatusMoves, ErrorMoves
  <2> QED BY <1>5, <2>1, <2>2, <2>3, <2>4, <2>5, <2>6, <2>7 DEF Finishing
<1>6. CASE TransactionTimeout
  BY <1>6 DEF TransactionTimeout, mgr, flow, StatusMoves, ErrorMoves
<1> QED BY <1>3, <1>4, <1>5, <1>6 DEF Next

(* Only AbortTxn takes the manager out of an error, and nothing takes it   *)
(* out of a fatal one, for every interleaving of the goroutines that       *)
(* report errors (isTransitionValid).                                      *)
THEOREM ErrorsOnlyAborted == Spec => ErrorsLeaveByAbort
<1>1. TypeInv /\ TypeInv' /\ [Next]_vars =>
        [/\ "InError" \in status /\ "InError" \notin status' => status' = Aborting /\ op = "abort"
         /\ "FatalError" \in status => "FatalError" \in status']_vars
  <2> SUFFICES ASSUME TypeInv, TypeInv', Next
               PROVE  /\ "InError" \in status /\ "InError" \notin status' => status' = Aborting /\ op = "abort"
                      /\ "FatalError" \in status => "FatalError" \in status'
    OBVIOUS
  <2>1. status \in Statuses /\ status' \in Statuses
    BY TypeSplit, TypeSplitPrime DEF StatusOK
  <2>2. StatusMoves
    BY StatusStep
  <2>3. /\ "InError" \in status <=> status = Abortable \/ status = Fatal
        /\ "InError" \in status' <=> status' = Abortable \/ status' = Fatal
        /\ "FatalError" \in status <=> status = Fatal
        /\ "FatalError" \in status' <=> status' = Fatal
    BY <2>1, Flags
  <2> QED BY <2>1, <2>2, <2>3, Apart DEF StatusMoves, ErrorMoves, Statuses
<1> QED BY <1>1, TypeInit, TypeNext, PTL DEF Spec, ErrorsLeaveByAbort

-----------------------------------------------------------------------------
(* Messages in flight. *)

LEMMA Flying ==
  ASSUME NEW m \in Msgs, stage[m] \notin {"none", "ok", "err"}
  PROVE  m \in InFlight /\ InFlight # {}
  BY DEF InFlight

LEMMA FlowInit == Init => FlowInv
<1> SUFFICES ASSUME Init PROVE FlowInv OBVIOUS
<1>1. InFlight = {} /\ status = Ready /\ pc = "idle" /\ inTxn = {} /\ lastError = NoError
  BY DEF Init, InFlight
<1> QED BY <1>1, Apart
        DEF Init, FlowInv, Carrying, Called, Registered, Emptied, Joined, RecordsInTxn

(* The partitions in the transaction, while there are messages in flight. *)
JoinedNow == epoch = cepoch /\ inTxn # {} => cstate = "ongoing" /\ inTxn \subseteq cparts

LEMMA FlowMessage ==
  ASSUME ~AbortInFlight, TypeInv, TypeInv', FlowInv, NEW m \in Msgs, Message(m)
  PROVE  FlowInv'
<1>0. StatusOK /\ TypeRest /\ StatusOK' /\ TypeRest'
  BY TypeSplit, TypeSplitPrime
<1>1. stage[m] \in {"leader", "adding", "buffered", "publishing", "sending", "failing"}
  BY DEF Message, MaybeAddPartition, BeginPublish, Publish, Produce, RetryMessage
<1>2. pc' = pc /\ op' = op
  BY DEF Message, MaybeAddPartition, BeginPublish, Publish, Produce, RetryMessage, call
<1>3. /\ pc \in {"idle", "control", "waiting"} /\ (pc # "idle" => op = "commit")
      /\ status \in {InTransaction, Committing, Abortable, Fatal}
      /\ JoinedNow
  BY <1>1, Flying DEF FlowInv, Carrying, Joined, JoinedNow
<1>4. ErrorMoves
  BY ErrorStep
<1>5. status' \in {InTransaction, Committing, Abortable, Fatal} /\ (status' = InTransaction => status = InTransaction)
  BY <1>3, <1>4, Apart DEF ErrorMoves
<1>6. "InError" \in status => "InError" \in status'
  BY <1>0, <1>4, Flags, Apart DEF ErrorMoves, StatusOK
<1>7. Carrying'
  BY <1>2, <1>3, <1>5 DEF Carrying
<1>8. Called'
  BY <1>2, <1>3, <1>5 DEF Called, FlowInv
<1>9. Emptied'
  BY <1>2, <1>3, <1>5, Apart DEF Emptied
<1>10. Registered' /\ JoinedNow' /\ RecordsInTxn'
  <2> DEFINE Reg(n) ==
        /\ stage[n] = "buffered" => PartitionOf[n] \in pending \cup inTxn \/ "InError" \in status
        /\ stage[n] = "publishing" => PartitionOf[n] \in pending \cup inTxn
        /\ stage[n] = "sending" => PartitionOf[n] \in inTxn
  <2>0. /\ \A n \in Msgs : Reg(n)
        /\ RecordsInTxn
    BY DEF FlowInv, Registered
  <2>1. CASE MaybeAddPartition(m)
    <3>1. PICK s \in {"adding", "buffered"} : stage' = [stage EXCEPT ![m] = s]
      BY <2>1 DEF MaybeAddPartition
    <3>2. \A n \in Msgs : stage'[n] = IF n = m THEN s ELSE stage[n]
      BY <1>0, <3>1 DEF TypeRest
    <3>3. UNCHANGED <<inTxn, epoch, cepoch, cstate, cparts, fate, status>> /\ pending \subseteq pending'
      BY <2>1 DEF MaybeAddPartition, flow, coord
    <3>4. s = "buffered" => PartitionOf[m] \in pending' \cup inTxn' \/ "InError" \in status'
      BY <1>0, <2>1, <3>1, <3>2, <3>3 DEF MaybeAddPartition, TypeRest
    <3>5. \A n \in Msgs : Reg(n)'
      BY <2>0, <3>2, <3>3, <3>4
    <3>6. JoinedNow' /\ RecordsInTxn'
      BY <1>3, <2>0, <3>3 DEF JoinedNow, RecordsInTxn
    <3> QED BY <3>5, <3>6 DEF Registered
  <2>2. CASE BeginPublish(m)
    <3>1. PICK s \in {"failing", "sending", "publishing"} : stage' = [stage EXCEPT ![m] = s]
      BY <2>2 DEF BeginPublish, Fail
    <3>2. \A n \in Msgs : stage'[n] = IF n = m THEN s ELSE stage[n]
      BY <1>0, <3>1 DEF TypeRest
    <3>3. UNCHANGED <<pending, inTxn, epoch, cepoch, cstate, cparts, fate, status>>
      BY <2>2 DEF BeginPublish, mgr, flow, coord
    <3>4. /\ s = "publishing" => PartitionOf[m] \in pending \cup inTxn
          /\ s = "sending" => PartitionOf[m] \in inTxn
      <4>1. CASE "InError" \in status
        <5>1. stage' = [stage EXCEPT ![m] = "failing"]
          BY <2>2, <4>1 DEF BeginPublish, Fail
        <5> QED BY <1>0, <3>2, <5>1 DEF TypeRest
      <4>2. CASE "InError" \notin status
        <5>1. stage' = [stage EXCEPT ![m] = IF pending = {} THEN "sending" ELSE "publishing"]
          BY <2>2, <4>2 DEF BeginPublish
        <5>2. s = IF pending = {} THEN "sending" ELSE "publishing"
          BY <1>0, <3>2, <5>1 DEF TypeRest
        <5>3. PartitionOf[m] \in pending \cup inTxn
          BY <2>0, <2>2, <4>2 DEF BeginPublish
        <5> QED BY <5>2, <5>3
      <4> QED BY <4>1, <4>2
    <3>5. \A n \in Msgs : Reg(n)'
      BY <2>0, <3>2, <3>3, <3>4
    <3>6. JoinedNow' /\ RecordsInTxn'
      BY <1>3, <2>0, <3>3 DEF JoinedNow, RecordsInTxn
    <3> QED BY <3>5, <3>6 DEF Registered
  <2>3. CASE Publish(m)
    <3>0. epoch' = epoch /\ stage[m] = "publishing" /\ PartitionOf[m] \in pending \cup inTxn
      BY <2>0, <2>3 DEF Publish
    <3>1. ASSUME NEW s \in Stages, stage' = [stage EXCEPT ![m] = s],
                 s = "sending" => PartitionOf[m] \in inTxn', s # "buffered",
                 s = "publishing" => PartitionOf[m] \in pending' \cup inTxn',
                 pending \cup inTxn \subseteq pending' \cup inTxn' \/ "InError" \in status',
                 inTxn \subseteq inTxn'
          PROVE  \A n \in Msgs : Reg(n)'
      <4>1. \A n \in Msgs : stage'[n] = IF n = m THEN s ELSE stage[n]
        BY <1>0, <3>1, StageMoved
      <4>2. \A n \in Msgs : stage[n] = "publishing" => n = m
        BY <1>0, <3>0 DEF TypeRest
      <4> QED BY <1>6, <2>0, <3>1, <4>1, <4>2
    <3>2. ASSUME NEW ps \in SUBSET pending, JoinTxn(ps), epoch = cepoch, inTxn' \in {inTxn, inTxn \cup ps}
          PROVE  JoinedNow' /\ RecordsInTxn'
      BY <1>3, <2>0, <3>2 DEF JoinTxn, JoinedNow, RecordsInTxn
    <3>3. ASSUME UNCHANGED <<coord, inTxn>> PROVE JoinedNow' /\ RecordsInTxn'
      BY <1>3, <2>0, <3>0, <3>3 DEF coord, JoinedNow, RecordsInTxn
    <3>4. ASSUME PublishAgain(m)
          PROVE  \E s \in {"publishing", "failing"} : stage' = [stage EXCEPT ![m] = s]
      <4>1. CASE UNCHANGED stage
        BY <1>0, <3>0, <4>1 DEF TypeRest
      <4> QED BY <3>4, <4>1 DEF PublishAgain, Fail
    <3>5. ASSUME NEW ps \in SUBSET pending, PublishAnswered(m, ps) PROVE Registered' /\ JoinedNow' /\ RecordsInTxn'
      <4>1. inTxn' = inTxn \cup ps /\ pending' = pending \ ps /\ epoch = cepoch
        BY <3>5 DEF PublishAnswered, Verdict
      <4>2. \A n \in Msgs : Reg(n)'
        <5>1. CASE ps # pending
          <6>1. PICK s \in {"publishing", "failing"} : stage' = [stage EXCEPT ![m] = s]
            BY <3>4, <3>5, <5>1 DEF PublishAnswered
          <6> QED BY <3>0, <3>1, <4>1, <6>1 DEF Stages
        <5>2. CASE ps = pending
          <6>1. stage' = [stage EXCEPT ![m] = "sending"]
            BY <3>5, <5>2 DEF PublishAnswered
          <6> QED BY <3>0, <3>1, <4>1, <5>2, <6>1 DEF Stages
        <5> QED BY <5>1, <5>2
      <4>3. JoinedNow' /\ RecordsInTxn'
        <5>1. CASE ps = {}
          BY <3>3, <3>5, <4>1, <5>1 DEF PublishAnswered
        <5>2. CASE ps # {}
          BY <3>2, <3>5, <4>1, <5>2 DEF PublishAnswered
        <5> QED BY <5>1, <5>2
      <4> QED BY <4>2, <4>3 DEF Registered
    <3>6. ASSUME PublishUnanswered(m) PROVE Registered' /\ JoinedNow' /\ RecordsInTxn'
      <4>1. inTxn' = inTxn /\ pending' = pending
        BY <3>6 DEF PublishUnanswered
      <4>2. PICK s \in {"publishing", "failing"} : stage' = [stage EXCEPT ![m] = s]
        BY <3>4, <3>6 DEF PublishUnanswered
      <4>3. \A n \in Msgs : Reg(n)'
        BY <3>0, <3>1, <4>1, <4>2 DEF Stages
      <4>4. JoinedNow' /\ RecordsInTxn'
        BY <3>2, <3>3, <3>6, <4>1 DEF PublishUnanswered, Verdict
      <4> QED BY <4>3, <4>4 DEF Registered
    <3>7. ASSUME NEW target \in {Abortable, Fatal}, NEW err, PublishRefused(m, target, err)
          PROVE  Registered' /\ JoinedNow' /\ RecordsInTxn'
      <4>1. inTxn' = inTxn /\ stage' = [stage EXCEPT ![m] = "failing"] /\ UNCHANGED coord
        BY <3>7 DEF PublishRefused, Fail
      <4>2. status' \in {Abortable, Fatal}
        BY <1>0, <1>3, <3>7, Valid, Apart DEF PublishRefused, TransitionTo, StatusOK
      <4>3. "InError" \in status'
        BY <1>0, <4>2, Flags DEF StatusOK
      <4>4. \A n \in Msgs : Reg(n)'
        BY <3>1, <4>1, <4>3 DEF Stages
      <4> QED BY <3>3, <4>1, <4>4 DEF Registered
    <3> QED BY <2>3, <3>5, <3>6, <3>7 DEF Publish
  <2>4. CASE Produce(m)
    <3>1. PICK s \in {"ok", "failing", "err"} : stage' = [stage EXCEPT ![m] = s]
      BY <2>4 DEF Produce, Fail, ReturnError
    <3>2. \A n \in Msgs : stage'[n] = IF n = m THEN s ELSE stage[n]
      BY <1>0, <3>1 DEF TypeRest
    <3>3. UNCHANGED <<pending, inTxn, epoch, cepoch, cstate, cparts>>
      BY <2>4 DEF Produce
    <3>4. \A n \in Msgs : Reg(n)'
      BY <1>6, <2>0, <3>2, <3>3
    <3>5. JoinedNow'
      BY <1>3, <3>3 DEF JoinedNow
    <3>6. RecordsInTxn'
      <4>1. CASE fate' = fate
        BY <2>0, <3>3, <4>1 DEF RecordsInTxn
      <4>2. CASE epoch = cepoch /\ Appended(m)
        <5>1. PartitionOf[m] \in inTxn
          BY <2>0, <2>4 DEF Produce
        <5>2. cstate = "ongoing" /\ PartitionOf[m] \in cparts
          BY <1>3, <4>2, <5>1 DEF JoinedNow
        <5>3. \A n \in Msgs : n # m => fate'[n] = fate[n]
          BY <1>0, <4>2 DEF Appended, TypeRest
        <5> QED BY <2>0, <3>3, <5>1, <5>2, <5>3 DEF RecordsInTxn
      <4> QED BY <2>4, <4>1, <4>2 DEF Produce
    <3> QED BY <3>4, <3>5, <3>6 DEF Registered
  <2>5. CASE RetryMessage(m)
    <3>1. PICK s \in {"leader", "err"} : stage' = [stage EXCEPT ![m] = s]
      BY <2>5 DEF RetryMessage, ReturnError
    <3>2. \A n \in Msgs : stage'[n] = IF n = m THEN s ELSE stage[n]
      BY <1>0, <3>1 DEF TypeRest
    <3>3. UNCHANGED <<pending, inTxn, epoch, cepoch, cstate, cparts, fate>>
      BY <2>5 DEF RetryMessage, coord
    <3>4. \A n \in Msgs : Reg(n)'
      BY <1>6, <2>0, <3>2, <3>3
    <3>5. JoinedNow' /\ RecordsInTxn'
      BY <1>3, <2>0, <3>3 DEF JoinedNow, RecordsInTxn
    <3> QED BY <3>4, <3>5 DEF Registered
  <2> QED BY <2>1, <2>2, <2>3, <2>4, <2>5 DEF Message
<1> QED BY <1>7, <1>8, <1>9, <1>10 DEF FlowInv, Joined, JoinedNow

LEMMA FlowApplication ==
  ASSUME ~AbortInFlight, TypeInv, TypeInv', FlowInv, Application
  PROVE  FlowInv'
<1>0. StatusOK /\ TypeRest /\ StatusOK' /\ TypeRest'
  BY TypeSplit, TypeSplitPrime
<1>1. CASE BeginTxn
  <2>1. status = Ready /\ status' = InTransaction
    BY <1>0, <1>1, Valid DEF BeginTxn, TransitionTo, StatusOK
  <2>2. UNCHANGED <<stage, pending, inTxn, pc, epoch, cepoch, cstate, cparts, fate>> /\ pc = "idle"
    BY <1>1 DEF BeginTxn, pipe
  <2>3. InFlight = {} /\ InFlight' = {} /\ inTxn = {}
    BY <2>1, <2>2, Apart DEF FlowInv, Carrying, Emptied, InFlight
  <2>4. Registered'
    BY <2>3, TxnConstants DEF Registered, InFlight
  <2> QED BY <2>1, <2>2, <2>3, <2>4, Apart
          DEF FlowInv, Carrying, Called, Emptied, Joined, RecordsInTxn
<1>2. ASSUME NEW g \in Groups, AddOffsetsToTxn(g) PROVE FlowInv'
  <2>1. UNCHANGED <<status, lastError, stage, pending, inTxn, pc, op, epoch, cepoch, cstate, cparts, fate>>
    BY <1>2 DEF AddOffsetsToTxn, pipe, call
  <2> QED BY <2>1 DEF FlowInv, Carrying, Called, Registered, Emptied, Joined, RecordsInTxn, InFlight
<1>3. ASSUME NEW o \in {"commit", "abort"}, CallEnd(o) PROVE FlowInv'
  <2>1. UNCHANGED <<status, lastError, stage, pending, inTxn, epoch, cepoch, cstate, cparts, fate>>
    BY <1>3 DEF CallEnd, mgr, flow, pipe, coord
  <2>2. InFlight' = InFlight /\ pc' = "control" /\ op' = o /\ (o = "abort" => InFlight = {}) /\ pc = "idle"
    BY <1>3, <2>1 DEF CallEnd, InFlight
  <2>3. Registered' /\ RecordsInTxn' /\ Joined'
    BY <2>1, <2>2 DEF FlowInv, Registered, RecordsInTxn, Joined
  <2> QED BY <2>1, <2>2, <2>3 DEF FlowInv, Carrying, Called, Emptied
<1>4. ASSUME NEW m \in Msgs, Dispatch(m) PROVE FlowInv'
  <2>1. UNCHANGED <<pending, inTxn, epoch, cepoch, cstate, cparts, fate, pc, op>>
    BY <1>4 DEF Dispatch, call, coord
  <2>2. stage[m] = "none" /\ (pc # "idle" => op = "commit")
    BY <1>4 DEF Dispatch, MaySend
  <2>3. "InTransaction" \in status <=> status = InTransaction
    BY <1>0, Flags DEF StatusOK
  <2>4. CASE status = InTransaction
    <3>1. stage' = [stage EXCEPT ![m] = "leader"] /\ UNCHANGED <<status, lastError>>
      BY <1>4, <2>3, <2>4 DEF Dispatch, flow
    <3>2. \A n \in Msgs : stage'[n] = IF n = m THEN "leader" ELSE stage[n]
      BY <1>0, <3>1 DEF TypeRest
    <3>3. Registered' /\ RecordsInTxn'
      BY SMT, <2>1, <3>1, <3>2 DEF FlowInv, Registered, RecordsInTxn
    <3> QED BY <2>1, <2>2, <2>4, <3>1, <3>3 DEF FlowInv, Carrying, Called, Emptied, Joined
  <2>5. CASE status # InTransaction
    <3>1. stage' = [stage EXCEPT ![m] = "err"] /\ ErrorState("notready")
      BY <1>4, <2>3, <2>5 DEF Dispatch, ReturnError
    <3>2. \A n \in Msgs : stage'[n] = IF n = m THEN "err" ELSE stage[n]
      BY <1>0, <3>1 DEF TypeRest
    <3>3. InFlight' = InFlight
      BY <2>2, <3>2 DEF InFlight
    <3>4. ErrorMoves /\ lastError' \in {lastError, "notready", NoError}
      BY <1>4, <3>1, ErrorStep DEF ErrorState, TransitionTo
    <3>5. "InError" \in status => "InError" \in status'
      BY <1>0, <3>4, Flags, Apart DEF ErrorMoves, StatusOK
    <3>6. Registered' /\ RecordsInTxn'
      BY <2>1, <3>2, <3>5 DEF FlowInv, Registered, RecordsInTxn
    <3>7. Carrying'
      BY <2>1, <3>3, <3>4, Apart DEF FlowInv, Carrying, ErrorMoves
    <3>8. Called'
      BY <2>1, <2>2, <2>5, <3>4, Apart DEF FlowInv, Called, ErrorMoves, NoError
    <3>9. Emptied' /\ Joined'
      BY <2>1, <2>5, <3>3, <3>4, Apart DEF FlowInv, Emptied, Joined, ErrorMoves
    <3> QED BY <3>6, <3>7, <3>8, <3>9 DEF FlowInv
  <2> QED BY <2>4, <2>5
<1> QED BY <1>1, <1>2, <1>3, <1>4 DEF Application

(* With nothing in flight, and no transaction open to messages, what is    *)
(* left of the invariant.                                                  *)
LEMMA FlowGrounded ==
  ASSUME InFlight' = {}, status' # InTransaction, Emptied', RecordsInTxn',
         pc' = "waiting" /\ op' = "abort" => status' # Abortable,
         pc' \in {"offsets", "addoffsets", "txnoffsets"} => lastError' # "mapping"
  PROVE  FlowInv'
<1>1. Registered'
  BY DEF Registered, InFlight
<1> QED BY <1>1 DEF FlowInv, Carrying, Called, Joined

(* What the coordinator has decided leaves no record behind. *)
LEMMA Decided ==
  ASSUME RecordsInTxn, TypeRest, NEW how \in {"committed", "aborted"}, Decide(how)
  PROVE  \A m \in Msgs : fate'[m] # "appended" /\ (fate[m] = "appended" => fate'[m] = how)
                         /\ (fate[m] # "appended" => fate'[m] = fate[m])
  BY DEF RecordsInTxn, TypeRest, Decide

LEMMA FlowFinishing ==
  ASSUME ~AbortInFlight, TypeInv, TypeInv', FlowInv, Finishing
  PROVE  FlowInv'
<1>0. StatusOK /\ Switches /\ TypeRest /\ StatusOK' /\ TypeRest'
  BY TypeSplit, TypeSplitPrime
<1>00. op' = op /\ stage' = stage /\ InFlight' = InFlight
  BY DEF Finishing, Control, BeginFinish, NextGroup, AddOffsets, TxnOffsetCommit, EndTxn,
         InitializeTransactions, InitProducerID, pipe, InFlight
<1>1. CASE Control
  <2>1. UNCHANGED <<pending, inTxn, epoch, cepoch, cstate, cparts, fate>> /\ pc = "control" /\ pc' = "waiting"
    BY <1>1 DEF Control, coord
  <2>2. RecordsInTxn'
    BY <2>1 DEF FlowInv, RecordsInTxn
  <2>3. CASE op = "commit"
    <3>1. status' = IF status = InTransaction THEN Committing ELSE status
      BY <1>0, <1>1, <2>3, Valid DEF Control, TransitionTo, StatusOK
    <3>2. Carrying' /\ Called' /\ Emptied' /\ Joined'
      BY <1>00, <2>1, <2>3, <3>1, Apart DEF FlowInv, Carrying, Called, Emptied, Joined
    <3>3. "InError" \in status => "InError" \in status'
      BY <1>0, <3>1, Flags, Apart DEF StatusOK
    <3>4. Registered'
      BY <1>00, <2>1, <3>3 DEF FlowInv, Registered
    <3> QED BY <2>2, <3>2, <3>4 DEF FlowInv
  <2>4. CASE op # "commit"
    <3>1. status' = IF status \in {InTransaction, Abortable} THEN Aborting ELSE status
      BY <1>0, <1>1, <2>4, Valid DEF Control, TransitionTo, StatusOK
    <3>2. InFlight' = {}
      BY <1>00, <2>1, <2>4 DEF FlowInv, Carrying
    <3>3. Emptied'
      BY <2>1, <3>1, Apart DEF FlowInv, Emptied
    <3> QED BY <2>1, <2>2, <3>1, <3>2, <3>3, FlowGrounded, Apart
  <2> QED BY <2>3, <2>4
<1>2. ASSUME pc \notin {"idle", "control"}, pc = "waiting" => InFlight = {}
      PROVE  InFlight' = {} /\ status' # InTransaction
  <2>1. StatusMoves
    BY StatusStep DEF Next
  <2> QED BY <1>00, <1>2, <2>1, Apart DEF FlowInv, Carrying, Called, StatusMoves, ErrorMoves
<1>3. CASE BeginFinish
  <2>1. UNCHANGED <<cepoch, cstate, cparts, fate>> /\ pc = "waiting" /\ pc' \in {"idle", "offsets"} /\ InFlight = {}
    BY <1>3 DEF BeginFinish, coord, Return
  <2>2. inTxn' \in {inTxn, {}} /\ (inTxn' # inTxn => inTxn = {})
    BY <1>3 DEF BeginFinish, mgr, Complete
  <2>3. RecordsInTxn'
    BY <2>1, <2>2 DEF FlowInv, RecordsInTxn
  <2>4. Emptied'
    BY <1>3, <2>1, <2>2 DEF BeginFinish, mgr, flow, FlowInv, Emptied
  <2>5. pc' = "offsets" => lastError' # "mapping"
    <3>1. SUFFICES ASSUME pc' = "offsets" PROVE lastError' # "mapping"
      OBVIOUS
    <3>2. UNCHANGED <<status, lastError>>
      BY <1>3, <3>1 DEF BeginFinish, Return, mgr, flow
    <3>3. "InError" \notin status
      <4>1. CASE op = "commit"
        BY <1>3, <3>1, <4>1 DEF BeginFinish, Return
      <4>2. CASE op # "commit"
        <5>1. "FatalError" \notin status /\ op = "abort"
          BY <1>0, <1>3, <3>1, <4>2 DEF BeginFinish, Return, TypeRest
        <5>2. status # Abortable
          BY <2>1, <5>1 DEF FlowInv, Called
        <5> QED BY <1>0, <5>1, <5>2, Flags DEF StatusOK
      <4> QED BY <4>1, <4>2
    <3> QED BY <1>0, <3>2, <3>3 DEF StatusOK, NoError
  <2> QED BY <1>2, <2>1, <2>3, <2>4, <2>5, FlowGrounded
<1>4. CASE NextGroup
  <2>1. UNCHANGED <<inTxn, cepoch, cstate, cparts, fate>> /\ pc = "offsets" /\ lastError # "mapping"
    BY <1>4 DEF NextGroup, coord, FlowInv, Called
  <2>2. UNCHANGED <<status, lastError>> /\ pc' \in {"addoffsets", "idle", "endtxn"}
    BY <1>4, <2>1 DEF NextGroup, flow, Return
  <2>3. Emptied' /\ RecordsInTxn'
    BY <2>1, <2>2 DEF FlowInv, Emptied, RecordsInTxn
  <2> QED BY <1>2, <2>1, <2>2, <2>3, FlowGrounded
<1>5. CASE AddOffsets
  <2>1. UNCHANGED <<inTxn, fate>> /\ pc = "addoffsets" /\ lastError # "mapping"
    BY <1>5 DEF AddOffsets, FlowInv, Called
  <2>2. /\ cstate = "ongoing" => cstate' = "ongoing" /\ cparts \subseteq cparts'
        /\ cstate # "ongoing" => cstate' \in {cstate, "ongoing"}
    BY <1>5 DEF AddOffsets
  <2>3. RecordsInTxn'
    BY <2>1, <2>2 DEF FlowInv, RecordsInTxn
  <2>4. pc' = "idle" \/ (pc' \in {"addoffsets", "txnoffsets"} /\ UNCHANGED <<status, lastError>>)
    <3>1. CASE Again /\ UNCHANGED flow
      BY <2>1, <3>1 DEF Again, Return, flow
    <3>2. CASE pc' = "txnoffsets" /\ UNCHANGED flow
      BY <3>2 DEF flow
    <3>3. CASE CallRefused
      BY <1>0, <3>3, CallRefusedOK
    <3>4. CASE Refused(Abortable, "abortable")
      BY <1>0, <3>4, RefusedOK DEF ErrorKinds
    <3> QED BY <1>5, <3>1, <3>2, <3>3, <3>4 DEF AddOffsets
  <2>6. Emptied'
    <3>1. status' \in {status, Abortable, Fatal}
      BY <1>5 DEF AddOffsets, Refused, CallRefused, TransitionTo, flow
    <3> QED BY <2>1, <2>4, <3>1, Apart DEF FlowInv, Emptied
  <2> QED BY <1>2, <2>1, <2>3, <2>4, <2>6, FlowGrounded
<1>6. CASE TxnOffsetCommit
  <2>1. UNCHANGED <<inTxn, cepoch, cstate, cparts, fate>> /\ pc = "txnoffsets" /\ lastError # "mapping"
    BY <1>6 DEF TxnOffsetCommit, FlowInv, Called
  <2>2. RecordsInTxn'
    BY <2>1 DEF FlowInv, RecordsInTxn
  <2>3. pc' = "idle" \/ (pc' \in {"offsets", "txnoffsets"} /\ UNCHANGED <<status, lastError>>)
    <3>1. CASE Again /\ UNCHANGED flow
      BY <2>1, <3>1 DEF Again, Return, flow
    <3>2. CASE pc' = "offsets" /\ UNCHANGED flow
      BY <3>2 DEF flow
    <3>3. CASE CallRefused
      BY <1>0, <3>3, CallRefusedOK
    <3>4. CASE Refused(Abortable, "abortable")
      BY <1>0, <3>4, RefusedOK DEF ErrorKinds
    <3> QED BY <1>6, <3>1, <3>2, <3>3, <3>4 DEF TxnOffsetCommit
  <2>4. Emptied'
    <3>1. status' \in {status, Abortable, Fatal}
      BY <1>6 DEF TxnOffsetCommit, Refused, CallRefused, TransitionTo, flow
    <3> QED BY <2>1, <2>3, <3>1, Apart DEF FlowInv, Emptied
  <2> QED BY <1>2, <2>1, <2>2, <2>3, <2>4, FlowGrounded
<1>7. CASE EndTxn
  <2>1. pc = "endtxn" /\ pc' \in {"idle", "endtxn", "begininit"} /\ cparts' = cparts
    BY <1>7 DEF EndTxn, Again, Return, Refused, CallRefused
  <2>2. CASE EndAccepted
    <3>1. \A m \in Msgs : fate'[m] # "appended"
      <4>1. CASE cstate = "ongoing"
        BY <1>0, <2>2, <4>1, Decided DEF EndAccepted, Outcome, FlowInv
      <4>2. CASE cstate # "ongoing"
        BY <2>2, <4>2 DEF EndAccepted, FlowInv, RecordsInTxn
      <4> QED BY <4>1, <4>2
    <3>2. RecordsInTxn'
      BY <3>1 DEF RecordsInTxn
    <3>3. Emptied'
      <4>1. CASE Complete(CompletionTarget)
        <5>1. CASE IsTransitionValid(CompletionTarget)
          BY <4>1, <5>1 DEF Complete, Emptied
        <5>2. CASE ~IsTransitionValid(CompletionTarget)
          <6>1. UNCHANGED <<status, inTxn>>
            BY <4>1, <5>2 DEF Complete, TransitionTo
          <6>2. pc' # "begininit"
            BY <1>0, <1>7, <2>2, <4>1, <5>2, <2>1, <6>1 DEF EndTxn, Again, Return, Refused, CallRefused
          <6> QED BY <2>1, <6>1, <6>2 DEF FlowInv, Emptied
        <5> QED BY <5>1, <5>2
      <4>2. CASE ~Complete(CompletionTarget)
        <5>1. inTxn' = inTxn /\ pc' # "begininit" /\ status' \in {status, Abortable, Fatal}
          BY <1>7, <2>1, <4>2 DEF EndTxn, Again, Return, Refused, CallRefused, TransitionTo, flow
        <5> QED BY <2>1, <5>1, Apart DEF FlowInv, Emptied
      <4> QED BY <4>1, <4>2
    <3> QED BY <1>2, <2>1, <3>2, <3>3, FlowGrounded
  <2>3. CASE ~EndAccepted
    <3>1. UNCHANGED <<inTxn, cstate, fate>> /\ pc' # "begininit" /\ status' \in {status, Abortable, Fatal}
      BY <1>7, <2>1, <2>3 DEF EndTxn, Again, Return, Refused, CallRefused, TransitionTo, flow
    <3>2. RecordsInTxn' /\ Emptied'
      BY <2>1, <3>1, Apart DEF FlowInv, RecordsInTxn, Emptied
    <3> QED BY <1>2, <2>1, <3>2, FlowGrounded
  <2> QED BY <2>2, <2>3
<1>8. CASE InitializeTransactions
  <2>1. UNCHANGED <<inTxn, cepoch, cstate, cparts, fate>> /\ pc = "begininit" /\ pc' \in {"init", "idle"}
    BY <1>8 DEF InitializeTransactions, BeginInit, Return, coord
  <2>2. RecordsInTxn' /\ Emptied'
    BY <2>1 DEF FlowInv, RecordsInTxn, Emptied
  <2> QED BY <1>2, <2>1, <2>2, FlowGrounded
<1>9. CASE InitProducerID
  <2>1. inTxn' = {} /\ inTxn = {} /\ pc = "init" /\ pc' \in {"init", "idle"}
    BY <1>9 DEF InitProducerID, FlowInv, Emptied, Return, Again
  <2>2. \A m \in Msgs : fate[m] # "appended"
    BY <2>1 DEF FlowInv, RecordsInTxn
  <2>3. fate' = fate \/ Decide("aborted")
    BY <1>9 DEF InitProducerID, NewEpoch, coord
  <2>4. \A m \in Msgs : fate'[m] # "appended"
    BY <1>0, <2>2, <2>3, Decided DEF FlowInv
  <2>5. RecordsInTxn' /\ Emptied'
    BY <2>1, <2>4 DEF RecordsInTxn, Emptied
  <2> QED BY <1>2, <2>1, <2>5, FlowGrounded
<1> QED BY <1>1, <1>3, <1>4, <1>5, <1>6, <1>7, <1>8, <1>9 DEF Finishing

LEMMA FlowTimeout ==
  ASSUME TypeInv, FlowInv, TransactionTimeout
  PROVE  FlowInv'
<1>0. TypeRest
  BY TypeSplit
<1>1. UNCHANGED <<status, lastError, pending, inTxn, stage, pc, op, epoch>> /\ InFlight' = InFlight
  BY DEF TransactionTimeout, mgr, flow, pipe, call, InFlight
<1>2. epoch' # cepoch'
  BY SMT, <1>0, <1>1 DEF TransactionTimeout, NewEpoch, TypeRest, NoEpoch
<1>3. RecordsInTxn'
  BY <1>0, Decided DEF TransactionTimeout, NewEpoch, FlowInv, RecordsInTxn
<1> QED BY <1>1, <1>2, <1>3 DEF FlowInv, Carrying, Called, Registered, Emptied, Joined

LEMMA FlowNext ==
  ASSUME ~AbortInFlight, TypeInv, TypeInv', FlowInv, [Next]_vars
  PROVE  FlowInv'
<1>1. CASE UNCHANGED vars
  <2>1. UNCHANGED <<status, lastError, pending, inTxn, stage, pc, op, epoch, cepoch, cstate, cparts, fate>>
    BY <1>1 DEF vars, mgr, flow, pipe, call, coord
  <2>2. Registered' /\ RecordsInTxn'
    BY <2>1 DEF FlowInv, Registered, RecordsInTxn
  <2> QED BY <2>1, <2>2 DEF FlowInv, Carrying, Called, Emptied, Joined, InFlight
<1> QED BY <1>1, FlowApplication, FlowMessage, FlowFinishing, FlowTimeout DEF Next

(* Every record that the coordinator has not decided lies in a partition   *)
(* that the manager and the coordinator both count to the open transaction,*)
(* so that ending the transaction decides it: the broker producer publishes*)
(* the partitions before it sends the batch (async_producer.go,            *)
(* publishTxnPartitions). Only the caller that aborts while messages are in*)
(* flight is excluded.                                                     *)
THEOREM RecordsAlwaysCounted == ~AbortInFlight /\ Spec => []RecordsCounted
<1> SUFFICES ASSUME ~AbortInFlight PROVE Spec => []RecordsCounted
  OBVIOUS
<1>1. TypeInv /\ FlowInv => RecordsCounted
  BY DEF TypeInv, FlowInv, RecordsCounted
<1>2. TypeInv /\ FlowInv /\ [Next]_vars => (TypeInv /\ FlowInv)'
  BY TypeNext, FlowNext
<1> QED BY <1>1, <1>2, TypeInit, FlowInit, PTL DEF Spec
-----------------------------------------------------------------------------
(* What CommitTxn and AbortTxn return is what became of the transaction.   *)

Unfinished == txn > 0 /\ result[txn] = "none"

(* m is a record of the running transaction. *)
Rec(m) == txnOf[m] = txn /\ fate[m] # "none"

Numbered ==
  /\ \A n \in 1..MaxTxns : n > txn => result[n] = "none"
  /\ \A m \in Msgs : txnOf[m] <= txn /\ (stage[m] = "none" => fate[m] = "none")
  /\ status = InTransaction \/ pc # "idle" => Unfinished
  /\ \A m \in InFlight : txnOf[m] = txn /\ Unfinished
  /\ \A m \in Msgs : fate[m] = "appended" => txnOf[m] = txn /\ Unfinished

(* What the rest of a call relies on. *)
Ending ==
  /\ pc \in {"offsets", "addoffsets", "txnoffsets", "endtxn"} /\ bump0 => bump
  /\ pc = "endtxn" /\ op = "commit" => offsets = {}
  /\ pc \in {"begininit", "init"} => epoch # NoEpoch
  /\ pc \in {"begininit", "init"} => \A m \in Msgs : Rec(m) => fate[m] = Outcome

Concluded == status = Ready /\ epoch # NoEpoch => txn = 0 \/ result[txn] # "none"

(* A transaction with records that is not finished has partitions. *)
Kept ==
  epoch # NoEpoch /\ Unfinished /\ inTxn = {} /\ pc \notin {"begininit", "init"} =>
    \A m \in Msgs : ~Rec(m)

(* Records of an unfinished transaction are aborted only by AbortTxn, or   *)
(* with the epoch taken away.                                              *)
AbortedByAbort ==
  Unfinished /\ epoch = cepoch /\ op # "abort" => \A m \in Msgs : Rec(m) => fate[m] # "aborted"

(* Once records of an unfinished transaction are committed, nothing opens  *)
(* the coordinator's transaction again.                                    *)
CommittedForGood ==
  \A m \in Msgs : epoch # NoEpoch /\ Unfinished /\ Rec(m) /\ fate[m] = "committed" =>
    InFlight = {} /\ status # InTransaction /\ cstate = "committed" /\ offsets = {}

RecordInv ==
  /\ Numbered /\ Ending /\ Concluded /\ Kept /\ AbortedByAbort /\ CommittedForGood
  /\ epoch # NoEpoch => OutcomeAgrees

-----------------------------------------------------------------------------
OffsetsDone == \A g \in Groups : gfate[g] \in {"none", "committed"}

(* Offsets added to an unfinished transaction are still to be published,   *)
(* in the coordinator's transaction, or committed with it.                 *)
OffsetsKept ==
  Unfinished /\ epoch = cepoch /\ op # "abort" /\ pc \notin {"begininit", "init"} =>
    \A g \in Groups :
      \/ gfate[g] \in {"none", "committed"}
      \/ g \in offsets
      \/ gfate[g] = "sent" /\ g \in cgroups /\ cstate = "ongoing"

GroupJoined == pc = "txnoffsets" /\ epoch = cepoch => group \in cgroups /\ cstate = "ongoing"

OffsetsSettled ==
  /\ pc \in {"begininit", "init"} /\ op = "commit" => OffsetsDone
  /\ epoch = NoEpoch /\ Unfinished /\ op # "abort" /\ (\E m \in Msgs : Rec(m)) =>
       OffsetsDone /\ status # InTransaction

OffsetInv == OffsetsKept /\ GroupJoined /\ OffsetsSettled /\ OffsetsFollowRecords

-----------------------------------------------------------------------------
(* Records. *)

LEMMA RecordInit == Init => RecordInv
<1> SUFFICES ASSUME Init PROVE RecordInv OBVIOUS
<1>1. InFlight = {} /\ txn = 0 /\ pc = "idle" /\ status = Ready /\ ~Unfinished
  BY SMT DEF Init, InFlight, Unfinished
<1>2. Numbered
  BY SMT, <1>1, Apart, TxnConstants DEF Init, Numbered
<1> QED BY <1>1, <1>2
        DEF Init, RecordInv, Ending, Concluded, Kept, AbortedByAbort, CommittedForGood, OutcomeAgrees, Rec

LEMMA TxnOfRange ==
  ASSUME TypeRest, NEW m \in Msgs, txnOf[m] > 0
  PROVE  txnOf[m] \in 1..MaxTxns
<1>1. txnOf[m] \in 0..MaxTxns
  BY DEF TypeRest
<1> QED BY SMT, <1>1

(* A step that touches no record, no message and no result. *)
LEMMA RecordQuiet ==
  ASSUME TypeInv, RecordInv, Unfinished,
         UNCHANGED <<stage, fate, txnOf, txn, result, inTxn, epoch, cepoch>>,
         pc' \notin {"begininit", "init"}, pc \notin {"begininit", "init"},
         op = "abort" => op' = "abort",
         status' = InTransaction => status = InTransaction,
         status' = Ready => status = Ready,
         offsets' \subseteq offsets,
         offsets # {} \/ (cstate = "committed" => cstate' = "committed"),
         pc' \in {"offsets", "addoffsets", "txnoffsets", "endtxn"} /\ bump0' => bump',
         pc' = "endtxn" /\ op' = "commit" => offsets' = {}
  PROVE  RecordInv'
<1>1. InFlight' = InFlight /\ Unfinished' /\ \A m \in Msgs : Rec(m)' <=> Rec(m)
  BY DEF InFlight, Unfinished, Rec
<1>2. Numbered'
  BY <1>1 DEF RecordInv, Numbered
<1>3. Ending'
  BY DEF Ending
<1>4. Concluded' /\ Kept' /\ AbortedByAbort'
  BY <1>1 DEF RecordInv, Concluded, Kept, AbortedByAbort
<1>5. CommittedForGood'
  BY <1>1 DEF RecordInv, CommittedForGood
<1>6. epoch' # NoEpoch => OutcomeAgrees'
  BY DEF RecordInv, OutcomeAgrees
<1> QED BY <1>2, <1>3, <1>4, <1>5, <1>6 DEF RecordInv

(* What the steps of a message may change. *)
LEMMA MessageEffect ==
  ASSUME TypeInv, FlowInv, NEW m \in Msgs, Message(m)
  PROVE  /\ UNCHANGED <<epoch, offsets, txnOf, call, hist, cepoch, gfate>>
         /\ m \in InFlight /\ InFlight' \subseteq InFlight
         /\ \A n \in Msgs : stage'[n] = "none" => stage[n] = "none"
         /\ inTxn \subseteq inTxn'
         /\ \A n \in Msgs : fate'[n] = fate[n] \/ (n = m /\ fate[n] = "none" /\ fate'[n] = "appended"
                                                 /\ PartitionOf[m] \in inTxn /\ epoch = cepoch)
         /\ cstate = "ongoing" => cstate' = "ongoing" /\ cgroups' = cgroups
<1>0. TypeRest
  BY TypeSplit
<1>1. UNCHANGED <<epoch, offsets, txnOf, call, hist, cepoch, gfate>>
  BY DEF Message, MaybeAddPartition, BeginPublish, Publish, PublishAnswered, PublishUnanswered, PublishRefused,
         Produce, RetryMessage, JoinTxn, mgr, coord
<1>2. stage[m] \notin {"none", "ok", "err"}
  BY DEF Message, MaybeAddPartition, BeginPublish, Publish, Produce, RetryMessage
<1>3. \A n \in Msgs : n # m => stage'[n] = stage[n]
  BY <1>0 DEF Message, MaybeAddPartition, BeginPublish, Publish, PublishAnswered, PublishUnanswered, PublishRefused,
         PublishAgain, Produce, RetryMessage, Fail, ReturnError, TypeRest
<1>4. stage'[m] # "none"
  <2>1. CASE stage' = stage
    BY <1>2, <2>1
  <2>2. CASE stage' # stage
    <3>1. \E s \in Stages \ {"none"} : stage' = [stage EXCEPT ![m] = s]
      BY <2>2 DEF Message, MaybeAddPartition, BeginPublish, Publish, PublishAnswered, PublishUnanswered, PublishRefused,
         PublishAgain, Produce, RetryMessage, Fail, ReturnError, Stages
    <3> QED BY <1>0, <3>1 DEF TypeRest
  <2> QED BY <2>1, <2>2
<1>5. inTxn \subseteq inTxn'
  BY DEF Message, MaybeAddPartition, BeginPublish, Publish, PublishAnswered, PublishUnanswered, PublishRefused,
         Produce, RetryMessage, mgr
<1>6. \A n \in Msgs : fate'[n] = fate[n] \/ (n = m /\ fate[n] = "none" /\ fate'[n] = "appended"
                                          /\ PartitionOf[m] \in inTxn /\ epoch = cepoch)
  <2>1. CASE Produce(m)
    <3>1. PartitionOf[m] \in inTxn
      BY <2>1 DEF Produce, FlowInv, Registered
    <3> QED BY <1>0, <2>1, <3>1 DEF Produce, Appended, TypeRest
  <2>2. CASE ~Produce(m)
    BY <2>2 DEF Message, MaybeAddPartition, BeginPublish, Publish, PublishAnswered, PublishUnanswered, PublishRefused,
         RetryMessage, JoinTxn, coord
  <2> QED BY <2>1, <2>2
<1>7. cstate = "ongoing" => cstate' = "ongoing" /\ cgroups' = cgroups
  BY DEF Message, MaybeAddPartition, BeginPublish, Publish, PublishAnswered, PublishUnanswered, PublishRefused,
         Produce, RetryMessage, JoinTxn, coord
<1>8. m \in InFlight /\ InFlight' \subseteq InFlight
  BY <1>2, <1>3 DEF InFlight
<1>9. \A n \in Msgs : stage'[n] = "none" => stage[n] = "none"
  BY <1>3, <1>4
<1> QED BY <1>1, <1>5, <1>6, <1>7, <1>8, <1>9

(* A record that the steps of a message add was not in the log before, and *)
(* the running transaction is the message's own and not finished.          *)
LEMMA RecordMessage ==
  ASSUME TypeInv, TypeInv', FlowInv, FlowInv', RecordInv, NEW m \in Msgs, Message(m)
  PROVE  RecordInv'
<1>0. StatusOK /\ TypeRest /\ StatusOK' /\ TypeRest'
  BY TypeSplit, TypeSplitPrime
<1>1. /\ UNCHANGED <<epoch, offsets, txnOf, pc, op, bump0, txn, result, cepoch>>
      /\ m \in InFlight /\ InFlight' \subseteq InFlight
      /\ \A n \in Msgs : stage'[n] = "none" => stage[n] = "none"
      /\ inTxn \subseteq inTxn'
      /\ \A n \in Msgs : fate'[n] = fate[n] \/ (n = m /\ fate[n] = "none" /\ fate'[n] = "appended"
                                              /\ PartitionOf[m] \in inTxn /\ epoch = cepoch)
  BY MessageEffect DEF call, hist
<1>2. Unfinished /\ Unfinished' /\ txnOf[m] = txn /\ pc \in {"idle", "control", "waiting"}
  BY <1>1 DEF RecordInv, Numbered, Unfinished, FlowInv, Carrying
<1>3. status' # Ready
  <2>1. ErrorMoves /\ status # Ready
    BY <1>1, ErrorStep, Apart DEF FlowInv, Carrying
  <2> QED BY <2>1, Apart DEF ErrorMoves
<1>4. Numbered'
  <2>1. \A n \in Msgs : stage'[n] = "none" => fate'[n] = "none"
    BY SMT, <1>0, <1>1 DEF RecordInv, Numbered, InFlight, TypeRest
  <2>2. \A n \in Msgs : fate'[n] = "appended" => txnOf[n] = txn
    BY <1>1, <1>2 DEF RecordInv, Numbered
  <2>3. \A n \in InFlight' : txnOf[n] = txn
    BY <1>1 DEF RecordInv, Numbered
  <2> QED BY <1>1, <1>2, <2>1, <2>2, <2>3 DEF RecordInv, Numbered
<1>5. Ending'
  BY <1>1, <1>2 DEF Ending
<1>6. Concluded'
  BY <1>3 DEF Concluded
<1>7. Kept'
  BY <1>1, <1>2 DEF RecordInv, Kept, Rec
<1>8. AbortedByAbort'
  BY <1>1, <1>2 DEF RecordInv, AbortedByAbort, Rec
<1>9. CommittedForGood'
  BY <1>1, <1>2 DEF RecordInv, CommittedForGood, Rec
<1>10. epoch' # NoEpoch => OutcomeAgrees'
  BY <1>1, <1>2 DEF RecordInv, OutcomeAgrees, Unfinished
<1> QED BY <1>4, <1>5, <1>6, <1>7, <1>8, <1>9, <1>10 DEF RecordInv

(* A new transaction has no record yet, and a message that is dispatched   *)
(* has none.                                                               *)
LEMMA RecordApplication ==
  ASSUME ~AbortInFlight, TypeInv, TypeInv', FlowInv, FlowInv', RecordInv, Application
  PROVE  RecordInv'
<1>0. StatusOK /\ TypeRest /\ StatusOK' /\ TypeRest'
  BY TypeSplit, TypeSplitPrime
<1>1. CASE BeginTxn
  <2>1. status = Ready /\ status' = InTransaction
    BY <1>0, <1>1, Valid DEF BeginTxn, TransitionTo, StatusOK
  <2>2. /\ UNCHANGED <<stage, inTxn, pc, epoch, cepoch, cstate, fate, txnOf, result, offsets>> /\ pc = "idle"
        /\ txn' = txn + 1 /\ txn < MaxTxns
    BY <1>1 DEF BeginTxn, pipe
  <2>3. InFlight = {} /\ InFlight' = {} /\ inTxn = {}
    BY <2>1, <2>2, Apart DEF FlowInv, Carrying, Emptied, InFlight
  <2>4. \A m \in Msgs : fate[m] # "appended" /\ txnOf[m] <= txn /\ txnOf[m] \in 0..MaxTxns
    BY <1>0, <2>3 DEF FlowInv, RecordsInTxn, RecordInv, Numbered, TypeRest
  <2>5. Unfinished'
    BY SMT, <1>0, <2>2, TxnConstants DEF Unfinished, RecordInv, Numbered, TypeRest
  <2>6. \A m \in Msgs : ~Rec(m)'
    BY SMT, <1>0, <2>2, <2>4 DEF Rec, TypeRest
  <2>7. Numbered'
    BY SMT, <1>0, <2>2, <2>3, <2>4, <2>5, TxnConstants DEF Numbered, RecordInv, TypeRest
  <2>8. Ending' /\ Concluded' /\ Kept' /\ AbortedByAbort' /\ CommittedForGood'
    BY <2>1, <2>2, <2>6, Apart DEF Ending, Concluded, Kept, AbortedByAbort, CommittedForGood
  <2>9. epoch' # NoEpoch => OutcomeAgrees'
    BY <2>2 DEF RecordInv, OutcomeAgrees
  <2> QED BY <2>7, <2>8, <2>9 DEF RecordInv
<1>2. ASSUME NEW g \in Groups, AddOffsetsToTxn(g) PROVE RecordInv'
  <2>1. /\ UNCHANGED <<status, stage, inTxn, pc, op, bump, bump0, epoch, cepoch, cstate, fate, txnOf, txn, result>>
        /\ pc = "idle" /\ "InTransaction" \in status
    BY <1>2 DEF AddOffsetsToTxn, pipe, call, hist
  <2>2. status = InTransaction
    BY <1>0, <2>1, Flags DEF StatusOK
  <2>3. /\ InFlight' = InFlight /\ (Unfinished' <=> Unfinished)
        /\ \A m \in Msgs : Rec(m)' <=> Rec(m)
    BY <2>1 DEF InFlight, Unfinished, Rec
  <2>4. Numbered' /\ Ending' /\ Concluded' /\ Kept' /\ AbortedByAbort'
    BY <2>1, <2>3 DEF RecordInv, Numbered, Ending, Concluded, Kept, AbortedByAbort
  <2>5. CommittedForGood'
    BY <2>1, <2>2, <2>3 DEF RecordInv, CommittedForGood
  <2>6. epoch' # NoEpoch => OutcomeAgrees'
    BY <2>1 DEF RecordInv, OutcomeAgrees
  <2> QED BY <2>4, <2>5, <2>6 DEF RecordInv
<1>3. ASSUME NEW o \in {"commit", "abort"}, CallEnd(o) PROVE RecordInv'
  <2>1. /\ UNCHANGED <<status, stage, inTxn, offsets, epoch, cepoch, cstate, fate, txnOf, txn, result>>
        /\ pc = "idle" /\ pc' = "control" /\ op' = o /\ (o = "commit" => op # "abort") /\ Unfinished
    BY <1>3 DEF CallEnd, mgr, flow, pipe, coord, Unfinished
  <2> QED BY <2>1, RecordQuiet
<1>4. ASSUME NEW m \in Msgs, Dispatch(m) PROVE RecordInv'
  <2>1. /\ UNCHANGED <<inTxn, offsets, epoch, cepoch, cstate, fate, pc, op, bump0, txn, result>>
        /\ txnOf' = [txnOf EXCEPT ![m] = txn] /\ stage[m] = "none"
    BY <1>4 DEF Dispatch, call, hist, coord
  <2>2. fate[m] = "none"
    BY <2>1 DEF RecordInv, Numbered
  <2>3. \A n \in Msgs : txnOf'[n] = IF n = m THEN txn ELSE txnOf[n]
    BY <1>0, <2>1 DEF TypeRest
  <2>4. /\ Unfinished' <=> Unfinished
        /\ \A n \in Msgs : Rec(n)' <=> Rec(n)
    BY <2>1, <2>2, <2>3 DEF Rec, Unfinished
  <2>5. \A n \in Msgs : n # m => stage'[n] = stage[n]
    <3>1. \E s \in {"leader", "err"} : stage' = [stage EXCEPT ![m] = s]
      BY <1>4 DEF Dispatch, ReturnError
    <3> QED BY <1>0, <3>1 DEF TypeRest
  <2>6. stage'[m] \in {"leader", "err"} /\ (stage'[m] = "leader" => status = InTransaction)
    <3>1. "InTransaction" \in status <=> status = InTransaction
      BY <1>0, Flags DEF StatusOK
    <3> QED BY <1>0, <1>4, <3>1 DEF Dispatch, ReturnError, TypeRest
  <2>7. ErrorMoves /\ (bump => bump')
    BY <1>4, ErrorStep DEF Dispatch, ReturnError, ErrorState, flow
  <2>8. status' = InTransaction => status = InTransaction
    BY <2>7, Apart DEF ErrorMoves
  <2>9. Numbered'
    <3>1. \A n \in InFlight' : n \in InFlight \/ (n = m /\ status = InTransaction)
      BY <2>5, <2>6 DEF InFlight
    <3>2. \A n \in InFlight' : txnOf'[n] = txn /\ Unfinished
      BY <2>3, <3>1 DEF RecordInv, Numbered, InFlight
    <3>3. \A n \in Msgs : stage'[n] = "none" => fate[n] = "none"
      BY <2>2, <2>5 DEF RecordInv, Numbered
    <3>4. \A n \in Msgs : txnOf'[n] <= txn
      <4>1. txn \in 0..MaxTxns /\ \A n \in Msgs : txnOf[n] <= txn
        BY <1>0 DEF RecordInv, Numbered, TypeRest
      <4>2. txn <= txn
        BY SMT, <4>1
      <4> QED BY <2>3, <4>1, <4>2
    <3>5. \A n \in Msgs : fate[n] = "appended" => txnOf'[n] = txn /\ Unfinished
      BY <2>2, <2>3 DEF RecordInv, Numbered
    <3> QED BY <2>1, <2>4, <2>8, <3>2, <3>3, <3>4, <3>5 DEF RecordInv, Numbered
  <2>10. Ending'
    BY <2>1, <2>4, <2>7 DEF RecordInv, Ending, Outcome
  <2>11. Concluded'
    BY <2>1, <2>7, Apart DEF RecordInv, Concluded, ErrorMoves
  <2>12. Kept' /\ AbortedByAbort'
    BY <2>1, <2>4 DEF RecordInv, Kept, AbortedByAbort
  <2>13. CommittedForGood'
    <3> SUFFICES ASSUME NEW n \in Msgs, epoch # NoEpoch, Unfinished, Rec(n), fate[n] = "committed"
                 PROVE  InFlight' = {} /\ status' # InTransaction /\ cstate' = "committed" /\ offsets' = {}
      BY <2>1, <2>4 DEF CommittedForGood
    <3>1. InFlight = {} /\ status # InTransaction /\ cstate = "committed" /\ offsets = {}
      BY DEF RecordInv, CommittedForGood
    <3>2. InFlight' = {}
      BY <2>5, <2>6, <3>1 DEF InFlight
    <3> QED BY <2>1, <2>8, <3>1, <3>2
  <2>14. epoch' # NoEpoch => OutcomeAgrees'
    BY <2>1, <2>2, <2>3 DEF RecordInv, OutcomeAgrees
  <2> QED BY <2>9, <2>10, <2>11, <2>12, <2>13, <2>14 DEF RecordInv
<1> QED BY <1>1, <1>2, <1>3, <1>4 DEF Application

(* A call ends the transaction only when EndTxn has decided every record   *)
(* as the call wants, or when there is none (finishTransaction).           *)
LEMMA RecordFinishing ==
  ASSUME ~AbortInFlight, TypeInv, TypeInv', FlowInv, FlowInv', RecordInv, Finishing
  PROVE  RecordInv'
<1>0. StatusOK /\ Switches /\ TypeRest /\ StatusOK' /\ TypeRest'
  BY TypeSplit, TypeSplitPrime
<1>00. /\ op' = op /\ stage' = stage /\ InFlight' = InFlight /\ txn' = txn /\ txnOf' = txnOf
       /\ pc # "idle" /\ Unfinished
  BY DEF Finishing, Control, BeginFinish, NextGroup, AddOffsets, TxnOffsetCommit, EndTxn,
         InitializeTransactions, InitProducerID, pipe, hist, InFlight, RecordInv, Numbered
<1>01. StatusMoves
  BY StatusStep DEF Next
<1>1. CASE Control
  <2>1. /\ UNCHANGED <<inTxn, offsets, epoch, cepoch, cstate, fate, result>> /\ pc = "control" /\ pc' = "waiting"
    BY <1>1 DEF Control, coord, hist
  <2>2. (status' = InTransaction => status = InTransaction) /\ (status' = Ready => status = Ready)
    BY <1>01, <2>1, Apart DEF StatusMoves, ErrorMoves
  <2> QED BY <1>00, <2>1, <2>2, RecordQuiet
<1>2. CASE BeginFinish
  <2>1. /\ UNCHANGED <<epoch, cepoch, cstate, fate>> /\ pc = "waiting" /\ bump0' = bump
        /\ InFlight = {} /\ status # InTransaction
    BY <1>2 DEF BeginFinish, coord, mgr, FlowInv, Called
  <2>2. CASE UNCHANGED <<mgr, result>> /\ pc' \in {"idle", "offsets"}
    <3>1. UNCHANGED <<inTxn, offsets, status, bump>>
      BY <2>2 DEF mgr, flow
    <3> QED BY <1>00, <2>1, <2>2, <3>1, RecordQuiet
  <2>3. CASE /\ inTxn = {} /\ Complete(CompletionTarget)
             /\ Return(IF IsTransitionValid(CompletionTarget) THEN op ELSE "error")
    <3>1. CASE ~IsTransitionValid(CompletionTarget)
      <4>1. UNCHANGED <<inTxn, offsets, status, bump, result>> /\ pc' = "idle"
        BY <2>3, <3>1 DEF Complete, TransitionTo, Return
      <4> QED BY <1>00, <2>1, <4>1, RecordQuiet
    <3>2. CASE IsTransitionValid(CompletionTarget)
      <4>1. /\ result' = [result EXCEPT ![txn] = op] /\ pc' = "idle" /\ op \in {"commit", "abort"}
            /\ status' \in {Initializing, Ready}
        BY <1>0, <1>00, <2>3, <3>2 DEF Return, Complete, TransitionTo, CompletionTarget, TypeRest
      <4>2. \A m \in Msgs : fate[m] # "appended" /\ (epoch # NoEpoch => ~Rec(m))
        BY <1>00, <2>1, <2>3 DEF FlowInv, RecordsInTxn, RecordInv, Kept
      <4>3. /\ txn \in 1..MaxTxns /\ result'[txn] = op
            /\ \A n \in 1..MaxTxns : n # txn => result'[n] = result[n]
        BY SMT, <1>0, <1>00, <4>1 DEF TypeRest, Unfinished
      <4>4. ~Unfinished'
        BY <1>00, <4>1, <4>3 DEF Unfinished
      <4>5. Numbered'
        <5>1. \A n \in 1..MaxTxns : n > txn => result'[n] = "none"
          BY SMT, <4>3 DEF RecordInv, Numbered
        <5> QED BY <1>00, <2>1, <4>1, <4>2, <5>1, Apart DEF RecordInv, Numbered
      <4>6. Ending' /\ Kept' /\ AbortedByAbort' /\ CommittedForGood'
        BY <4>1, <4>4 DEF Ending, Kept, AbortedByAbort, CommittedForGood
      <4>7. Concluded'
        BY <1>00, <4>1, <4>3 DEF Concluded
      <4>8. epoch' # NoEpoch => OutcomeAgrees'
        <5> SUFFICES ASSUME epoch # NoEpoch, NEW m \in Msgs, txnOf[m] > 0, fate[m] # "none"
                     PROVE  /\ result'[txnOf[m]] = "commit" => fate[m] = "committed"
                            /\ result'[txnOf[m]] = "abort" => fate[m] # "committed"
          BY <1>00, <2>1 DEF OutcomeAgrees
        <5>1. txnOf[m] # txn
          BY <4>2 DEF Rec
        <5>2. txnOf[m] \in 1..MaxTxns
          BY <1>0, TxnOfRange
        <5>3. result'[txnOf[m]] = result[txnOf[m]]
          BY <4>3, <5>1, <5>2
        <5> QED BY <5>3 DEF RecordInv, OutcomeAgrees
      <4> QED BY <4>5, <4>6, <4>7, <4>8 DEF RecordInv
    <3> QED BY <3>1, <3>2
  <2>4. CASE Return("error") /\ UNCHANGED mgr
    BY <2>2, <2>4 DEF Return
  <2> QED BY <1>2, <2>2, <2>3, <2>4 DEF BeginFinish
<1>3. CASE NextGroup
  <2>1. UNCHANGED <<inTxn, offsets, cepoch, cstate, fate, bump0>> /\ pc = "offsets" /\ lastError # "mapping"
    BY <1>3 DEF NextGroup, coord, FlowInv, Called
  <2>2. UNCHANGED <<status, bump, epoch, result>> /\ pc' \in {"addoffsets", "idle", "endtxn"}
    BY <1>3, <2>1 DEF NextGroup, flow, Return
  <2>3. pc' = "endtxn" /\ op = "commit" => offsets = {}
    BY <1>3 DEF NextGroup, Return
  <2>4. bump0 => bump
    BY <2>1 DEF RecordInv, Ending
  <2> QED BY <1>00, <2>1, <2>2, <2>3, <2>4, RecordQuiet
<1>4. CASE AddOffsets \/ TxnOffsetCommit
  <2>1. /\ UNCHANGED <<inTxn, epoch, cepoch, fate, bump0>> /\ pc \in {"addoffsets", "txnoffsets"}
        /\ offsets' \subseteq offsets
    BY <1>4 DEF AddOffsets, TxnOffsetCommit
  <2>2. result' = result /\ (pc' = "idle" \/ (pc' \in {"addoffsets", "txnoffsets", "offsets"} /\ bump' = bump))
    <3>1. CASE Again /\ UNCHANGED flow
      BY <1>0, <2>1, <3>1, AgainOK DEF flow
    <3>2. CASE pc' \in {"txnoffsets", "offsets"} /\ UNCHANGED <<flow, result>>
      BY <3>2 DEF flow
    <3>3. CASE CallRefused
      BY <1>0, <3>3, CallRefusedOK
    <3>4. CASE Refused(Abortable, "abortable")
      BY <1>0, <3>4, RefusedOK DEF ErrorKinds
    <3> QED BY <1>4, <3>1, <3>2, <3>3, <3>4 DEF AddOffsets, TxnOffsetCommit
  <2>3. offsets # {}
    BY <1>0, <2>1 DEF TypeRest
  <2>4. status' \in {status, Abortable, Fatal}
    BY <1>4 DEF AddOffsets, TxnOffsetCommit, Refused, CallRefused, TransitionTo, flow
  <2>5. (status' = InTransaction => status = InTransaction) /\ (status' = Ready => status = Ready)
    BY <2>4, Apart
  <2>6. bump0 => bump
    BY <2>1 DEF RecordInv, Ending
  <2> QED BY SMT, <1>00, <2>1, <2>2, <2>3, <2>5, <2>6, RecordQuiet
<1>5. CASE EndTxn
  <2>1. UNCHANGED <<epoch, cepoch, cparts, bump0>> /\ pc = "endtxn" /\ (bump0 => bump) /\ (op = "commit" => offsets = {})
    BY <1>5 DEF EndTxn, RecordInv, Ending
  <2>2. InFlight = {} /\ status # InTransaction
    BY <2>1 DEF FlowInv, Carrying, Called
  <2>3. CASE EndAccepted
    <3>1. epoch = cepoch /\ epoch # NoEpoch /\ cstate \in {"ongoing", Outcome} /\ cstate' = Outcome
      BY <1>0, <2>3 DEF EndAccepted, Verdict, Decide, TypeRest, NoEpoch
    <3>2. \A m \in Msgs : fate'[m] = IF fate[m] = "appended" THEN Outcome ELSE fate[m]
      <4>1. CASE cstate = "ongoing"
        BY <1>0, <2>3, <4>1, Decided DEF EndAccepted, FlowInv, Outcome
      <4>2. CASE cstate # "ongoing"
        BY <2>3, <4>2 DEF EndAccepted, FlowInv, RecordsInTxn
      <4> QED BY <4>1, <4>2
    <3>3. op \in {"commit", "abort"} /\ Outcome = (IF op = "commit" THEN "committed" ELSE "aborted")
      BY <1>0, <1>00 DEF TypeRest, Outcome
    <3>4. \A m \in Msgs : Rec(m) => fate'[m] = Outcome
      <4> SUFFICES ASSUME NEW m \in Msgs, Rec(m), fate[m] # "appended" PROVE fate[m] = Outcome
        BY <3>2
      <4>1. fate[m] \in {"committed", "aborted"}
        BY <1>0 DEF Rec, TypeRest
      <4>2. CASE op = "commit"
        BY <1>00, <3>1, <3>3, <4>1, <4>2 DEF RecordInv, AbortedByAbort
      <4>3. CASE op = "abort"
        BY <1>00, <3>1, <3>3, <4>1, <4>3 DEF RecordInv, CommittedForGood
      <4> QED BY <3>3, <4>2, <4>3
    <3>5. \A m \in Msgs : (fate'[m] = "none" <=> fate[m] = "none") /\ fate'[m] # "appended"
      BY <3>2, <3>3
    <3>6. \A m \in Msgs : Rec(m)' <=> Rec(m)
      BY <1>00, <3>5 DEF Rec
    <3>7. CASE UNCHANGED <<result, inTxn, offsets>> /\ pc' \in {"idle", "endtxn"} /\ status' \in {status, Abortable, Fatal}
               /\ (pc' = "endtxn" => bump' = bump)
      <4>1. Unfinished'
        BY <1>00, <3>7 DEF Unfinished
      <4>2. (status' = InTransaction => status = InTransaction) /\ (status' = Ready => status = Ready)
        BY <3>7, Apart
      <4>3. Numbered'
        BY <1>00, <3>5, <3>7, <4>1, <4>2 DEF RecordInv, Numbered
      <4>4. Ending' /\ Concluded' /\ Kept'
        BY SMT, <1>00, <2>1, <3>6, <3>7, <4>1, <4>2 DEF RecordInv, Ending, Concluded, Kept
      <4>5. AbortedByAbort'
        BY <1>00, <3>3, <3>4, <3>6 DEF AbortedByAbort
      <4>6. CommittedForGood'
        BY <1>00, <2>1, <2>2, <3>1, <3>3, <3>4, <3>6, <3>7, <4>2 DEF CommittedForGood
      <4>7. epoch' # NoEpoch => OutcomeAgrees'
        <5> SUFFICES ASSUME NEW m \in Msgs, txnOf[m] > 0, fate'[m] # "none", fate'[m] # fate[m]
                     PROVE  result[txnOf[m]] \notin {"commit", "abort"}
          BY <1>00, <2>1, <3>1, <3>5, <3>7 DEF OutcomeAgrees, RecordInv
        <5>1. fate[m] = "appended"
          BY <3>2
        <5> QED BY <5>1 DEF RecordInv, Numbered, Unfinished
      <4> QED BY <4>3, <4>4, <4>5, <4>6, <4>7 DEF RecordInv
    <3>8. CASE /\ Complete(CompletionTarget) /\ IsTransitionValid(CompletionTarget)
               /\ IF bump0 THEN pc' = "begininit" /\ UNCHANGED result ELSE Return(op)
      <4>1. status' = CompletionTarget /\ offsets' = {} /\ status' \in {Initializing, Ready}
        BY <3>8 DEF Complete, TransitionTo, CompletionTarget
      <4>2. CASE bump0
        <5>1. UNCHANGED result /\ pc' = "begininit" /\ Unfinished' /\ status' = Initializing
          BY <1>00, <2>1, <3>8, <4>1, <4>2 DEF Unfinished, CompletionTarget
        <5>2. Numbered'
          BY <1>00, <3>5, <5>1, Apart DEF RecordInv, Numbered
        <5>3. Ending' /\ Concluded' /\ Kept'
          BY <1>00, <2>1, <3>1, <3>4, <3>6, <5>1, Apart DEF Ending, Concluded, Kept, Outcome
        <5>4. AbortedByAbort'
          BY <1>00, <3>3, <3>4, <3>6 DEF AbortedByAbort
        <5>5. CommittedForGood'
          BY <1>00, <2>2, <3>1, <3>3, <3>4, <3>6, <4>1, <5>1, Apart DEF CommittedForGood
        <5>6. epoch' # NoEpoch => OutcomeAgrees'
          <6> SUFFICES ASSUME NEW m \in Msgs, txnOf[m] > 0, fate'[m] # "none", fate'[m] # fate[m]
                       PROVE  result[txnOf[m]] \notin {"commit", "abort"}
            BY <1>00, <2>1, <3>1, <3>5, <5>1 DEF OutcomeAgrees, RecordInv
          <6>1. fate[m] = "appended"
            BY <3>2
          <6> QED BY <6>1 DEF RecordInv, Numbered, Unfinished
        <5> QED BY <5>2, <5>3, <5>4, <5>5, <5>6 DEF RecordInv
      <4>3. CASE ~bump0
        <5>1. result' = [result EXCEPT ![txn] = op] /\ pc' = "idle"
          BY <3>3, <3>8, <4>3 DEF Return
        <5>2. /\ txn \in 1..MaxTxns /\ result'[txn] = op
              /\ \A n \in 1..MaxTxns : n # txn => result'[n] = result[n]
          BY SMT, <1>0, <1>00, <5>1 DEF TypeRest, Unfinished
        <5>3. ~Unfinished'
          BY <1>00, <3>3, <5>2 DEF Unfinished
        <5>4. Numbered'
          <6>1. \A n \in 1..MaxTxns : n > txn => result'[n] = "none"
            BY SMT, <5>2 DEF RecordInv, Numbered
          <6> QED BY <1>00, <2>2, <3>5, <4>1, <5>1, <6>1, Apart DEF RecordInv, Numbered
        <5>5. Ending' /\ Kept' /\ AbortedByAbort' /\ CommittedForGood'
          BY <5>1, <5>3 DEF Ending, Kept, AbortedByAbort, CommittedForGood
        <5>6. Concluded'
          BY <1>00, <3>3, <5>2 DEF Concluded
        <5>7. epoch' # NoEpoch => OutcomeAgrees'
          <6> SUFFICES ASSUME NEW m \in Msgs, txnOf[m] > 0, fate'[m] # "none"
                       PROVE  /\ result'[txnOf[m]] = "commit" => fate'[m] = "committed"
                              /\ result'[txnOf[m]] = "abort" => fate'[m] # "committed"
            BY <1>00 DEF OutcomeAgrees
          <6>1. CASE txnOf[m] = txn
            BY <3>3, <3>4, <3>5, <5>2, <6>1 DEF Rec
          <6>2. CASE txnOf[m] # txn
            <7>1. txnOf[m] \in 1..MaxTxns
              BY <1>0, TxnOfRange
            <7>2. result'[txnOf[m]] = result[txnOf[m]]
              BY <5>2, <6>2, <7>1
            <7>3. fate'[m] = fate[m]
              BY <3>2, <6>2 DEF RecordInv, Numbered
            <7> QED BY <3>1, <7>2, <7>3 DEF RecordInv, OutcomeAgrees
          <6> QED BY <6>1, <6>2
        <5> QED BY <5>4, <5>5, <5>6, <5>7 DEF RecordInv
      <4> QED BY <4>2, <4>3
    <3>9. CASE Complete(CompletionTarget) /\ ~IsTransitionValid(CompletionTarget) /\ Return("error")
      BY <3>7, <3>9 DEF Complete, TransitionTo, Return
    <3>10. CASE Again /\ UNCHANGED <<flow, pending, inTxn, offsets>>
      BY <1>0, <2>1, <3>7, <3>10, AgainOK DEF flow
    <3>11. CASE CallRefused /\ UNCHANGED <<pending, inTxn, offsets, cstate, fate, gfate>>
      <4>1. status' \in {status, Abortable, Fatal}
        BY <3>11 DEF CallRefused, Refused, TransitionTo
      <4> QED BY <1>0, <3>7, <3>11, <4>1, CallRefusedOK
    <3> QED BY <1>5, <3>1, <3>8, <3>9, <3>10, <3>11 DEF EndTxn
  <2>4. CASE ~EndAccepted
    <3>1. UNCHANGED <<inTxn, offsets, cstate, fate>>
      BY <1>5, <2>4 DEF EndTxn
    <3>2. result' = result /\ (pc' = "idle" \/ (pc' = "endtxn" /\ bump' = bump))
      <4>1. CASE Again /\ UNCHANGED flow
        BY <1>0, <2>1, <4>1, AgainOK DEF flow
      <4>2. CASE CallRefused
        BY <1>0, <4>2, CallRefusedOK
      <4>3. CASE Refused(Fatal, "fatal")
        BY <1>0, <4>3, RefusedOK DEF ErrorKinds
      <4> QED BY <1>5, <2>4, <4>1, <4>2, <4>3 DEF EndTxn
    <3>3. status' \in {status, Abortable, Fatal}
      BY <1>5, <2>4 DEF EndTxn, Refused, CallRefused, TransitionTo, flow
    <3>4. (status' = InTransaction => status = InTransaction) /\ (status' = Ready => status = Ready)
      BY <3>3, Apart
    <3> QED BY <1>00, <2>1, <3>1, <3>2, <3>4, RecordQuiet
  <2> QED BY <2>3, <2>4
<1> DEFINE Lost == /\ UNCHANGED <<inTxn, offsets, cstate, fate, result>> /\ epoch' = NoEpoch
                   /\ pc' = "idle" /\ status' # InTransaction
<1>6. ASSUME Lost PROVE RecordInv'
  <2>1. Unfinished' /\ epoch' # cepoch'
    BY SMT, <1>0, <1>00, <1>6 DEF Unfinished, TypeRest, NoEpoch
  <2>2. Numbered'
    BY <1>00, <1>6, <2>1 DEF RecordInv, Numbered
  <2> QED BY <1>6, <2>1, <2>2
          DEF RecordInv, Ending, Concluded, Kept, AbortedByAbort, CommittedForGood
<1>7. CASE InitializeTransactions
  <2>1. /\ UNCHANGED <<inTxn, offsets, cepoch, cstate, fate, bump0>> /\ pc = "begininit"
        /\ result' = result /\ status' # InTransaction /\ epoch # NoEpoch
    BY <1>7, <1>01, Apart
    DEF InitializeTransactions, coord, BeginInit, Return, FlowInv, Called, StatusMoves, ErrorMoves, RecordInv, Ending
  <2>2. CASE pc' = "idle"
    <3>1. epoch' = NoEpoch
      BY <1>7, <2>2 DEF InitializeTransactions, BeginInit
    <3> QED BY <1>6, <2>1, <2>2, <3>1
  <2>3. CASE pc' # "idle"
    <3>1. pc' = "init" /\ epoch' = epoch /\ status' \in {status, Initializing}
      BY <1>7, <2>3 DEF InitializeTransactions, BeginInit, Return, TransitionTo
    <3>2. Unfinished' /\ \A m \in Msgs : Rec(m)' <=> Rec(m)
      BY <1>00, <2>1 DEF Unfinished, Rec
    <3>3. Numbered'
      BY <1>00, <2>1, <3>2 DEF RecordInv, Numbered
    <3>4. Ending' /\ Kept' /\ AbortedByAbort'
      BY <1>00, <2>1, <3>1, <3>2 DEF RecordInv, Ending, Kept, AbortedByAbort, Outcome
    <3>5. Concluded'
      BY <1>00, <2>1, <3>1, Apart DEF RecordInv, Concluded
    <3>6. CommittedForGood'
      BY <1>00, <2>1, <3>1, <3>2 DEF RecordInv, CommittedForGood
    <3>7. epoch' # NoEpoch => OutcomeAgrees'
      BY <1>00, <2>1, <3>1 DEF RecordInv, OutcomeAgrees
    <3> QED BY <3>3, <3>4, <3>5, <3>6, <3>7 DEF RecordInv
  <2> QED BY <2>2, <2>3
<1>8. CASE InitProducerID
  <2>1. /\ UNCHANGED <<inTxn, offsets, bump0>> /\ pc = "init" /\ inTxn = {} /\ InFlight = {}
        /\ status # InTransaction /\ status' # InTransaction /\ epoch # NoEpoch
    BY <1>8, <1>01, Apart
    DEF InitProducerID, FlowInv, Emptied, Carrying, Called, StatusMoves, ErrorMoves, RecordInv, Ending
  <2>2. \A m \in Msgs : fate[m] # "appended" /\ (Rec(m) => fate[m] = Outcome)
    BY <2>1 DEF FlowInv, RecordsInTxn, RecordInv, Ending
  <2>3. \A m \in Msgs : fate'[m] = fate[m]
    <3>1. fate' = fate \/ Decide("aborted")
      BY <1>8 DEF InitProducerID, NewEpoch, coord
    <3> QED BY <2>2, <3>1 DEF Decide
  <2>4. op \in {"commit", "abort"} /\ Outcome = (IF op = "commit" THEN "committed" ELSE "aborted")
    BY <1>0, <1>00 DEF TypeRest, Outcome
  <2>5. cstate = "committed" => cstate' = "committed"
    BY <1>8 DEF InitProducerID, NewEpoch, coord
  <2>6. CASE epoch' = NoEpoch /\ pc' = "idle" /\ result' = result
    <3>1. Unfinished' /\ epoch' # cepoch'
      BY SMT, <1>0, <1>00, <2>6 DEF Unfinished, TypeRest, NoEpoch
    <3>2. Numbered'
      BY <1>00, <2>1, <2>3, <2>6, <3>1 DEF RecordInv, Numbered
    <3> QED BY <2>6, <3>1, <3>2
            DEF RecordInv, Ending, Concluded, Kept, AbortedByAbort, CommittedForGood
  <2>7. CASE epoch' = epoch /\ pc' = "init" /\ result' = result /\ status' = status /\ cepoch' \in {cepoch, cepoch + 1}
    <3>1. Unfinished' /\ \A m \in Msgs : Rec(m)' <=> Rec(m)
      BY <1>00, <2>3, <2>7 DEF Unfinished, Rec
    <3>2. Numbered'
      BY <1>00, <2>1, <2>3, <2>7, <3>1 DEF RecordInv, Numbered
    <3>3. Ending' /\ Kept' /\ Concluded'
      BY <1>00, <2>1, <2>2, <2>3, <2>7, <3>1 DEF RecordInv, Ending, Kept, Concluded, Outcome
    <3>4. AbortedByAbort'
      BY <1>00, <2>2, <2>3, <2>4, <3>1 DEF AbortedByAbort
    <3>5. CommittedForGood'
      BY <1>00, <2>1, <2>3, <2>5, <2>7, <3>1 DEF RecordInv, CommittedForGood
    <3>6. epoch' # NoEpoch => OutcomeAgrees'
      BY <1>00, <2>3, <2>7 DEF RecordInv, OutcomeAgrees
    <3> QED BY <3>2, <3>3, <3>4, <3>5, <3>6 DEF RecordInv
  <2>8. CASE Return(op)
    <3>1. result' = [result EXCEPT ![txn] = op] /\ pc' = "idle"
      BY <2>4, <2>8 DEF Return
    <3>2. /\ txn \in 1..MaxTxns /\ result'[txn] = op
          /\ \A n \in 1..MaxTxns : n # txn => result'[n] = result[n]
      BY SMT, <1>0, <1>00, <3>1 DEF TypeRest, Unfinished
    <3>3. ~Unfinished'
      BY <1>00, <2>4, <3>2 DEF Unfinished
    <3>4. Numbered'
      <4>1. \A n \in 1..MaxTxns : n > txn => result'[n] = "none"
        BY SMT, <3>2 DEF RecordInv, Numbered
      <4> QED BY <1>00, <2>1, <2>2, <2>3, <3>1, <4>1 DEF RecordInv, Numbered
    <3>5. Ending' /\ Kept' /\ AbortedByAbort' /\ CommittedForGood'
      BY <3>1, <3>3 DEF Ending, Kept, AbortedByAbort, CommittedForGood
    <3>6. Concluded'
      BY <1>00, <2>4, <3>2 DEF Concluded
    <3>7. epoch' # NoEpoch => OutcomeAgrees'
      <4> SUFFICES ASSUME NEW m \in Msgs, txnOf[m] > 0, fate[m] # "none"
                   PROVE  /\ result'[txnOf[m]] = "commit" => fate[m] = "committed"
                          /\ result'[txnOf[m]] = "abort" => fate[m] # "committed"
        BY <1>00, <2>3 DEF OutcomeAgrees
      <4>1. CASE txnOf[m] = txn
        BY <2>2, <2>4, <3>2, <4>1 DEF Rec
      <4>2. CASE txnOf[m] # txn
        <5>1. txnOf[m] \in 1..MaxTxns
          BY <1>0, TxnOfRange
        <5>2. result'[txnOf[m]] = result[txnOf[m]]
          BY <3>2, <4>2, <5>1
        <5> QED BY <2>1, <5>2 DEF RecordInv, OutcomeAgrees
      <4> QED BY <4>1, <4>2
    <3> QED BY <3>4, <3>5, <3>6, <3>7 DEF RecordInv
  <2>9. CASE /\ TransitionTo(Ready, NoError) /\ ~IsTransitionValid(Ready) /\ NewEpoch
             /\ Again /\ (IF tries = 0 THEN InitFails ELSE UNCHANGED epoch)
    <3>1. status' = status /\ cepoch' = cepoch + 1
      BY <2>9 DEF TransitionTo, NewEpoch
    <3>2. CASE tries = 0
      BY <1>0, <2>6, <2>9, <3>2, AgainOK DEF InitFails
    <3>3. CASE tries # 0
      BY <1>0, <2>1, <2>7, <2>9, <3>1, <3>3 DEF Again, TypeRest
    <3> QED BY <3>2, <3>3
  <2>10. CASE /\ Again /\ UNCHANGED <<status, lastError, coord>>
              /\ IF tries = 0 THEN InitFails ELSE UNCHANGED epoch
    <3>2. CASE tries = 0
      BY <1>0, <2>6, <2>10, <3>2, AgainOK DEF InitFails
    <3>3. CASE tries # 0
      BY <1>0, <2>1, <2>7, <2>10, <3>3 DEF Again, TypeRest, coord
    <3> QED BY <3>2, <3>3
  <2>11. CASE Return("error") /\ InitFails
    BY <2>6, <2>11 DEF Return, InitFails
  <2> QED BY <1>8, <2>8, <2>9, <2>10, <2>11 DEF InitProducerID
<1> QED BY <1>1, <1>2, <1>3, <1>4, <1>5, <1>7, <1>8 DEF Finishing

(* The timeout of the coordinator takes the epoch away: what it aborts is  *)
(* not committed, and nothing that is committed was open.                  *)
LEMMA RecordTimeout ==
  ASSUME TypeInv, TypeInv', FlowInv, RecordInv, TransactionTimeout
  PROVE  RecordInv'
<1>0. TypeRest /\ TypeRest'
  BY TypeSplit, TypeSplitPrime
<1>1. /\ UNCHANGED <<inTxn, offsets, epoch, bump, bump0, status, pc, op, stage, txn, txnOf, result>>
      /\ cepoch' = cepoch + 1 /\ Decide("aborted") /\ cstate = "ongoing"
  BY DEF TransactionTimeout, NewEpoch, mgr, flow, pipe, call, hist
<1>2. \A m \in Msgs : fate'[m] = fate[m] \/ (fate[m] = "appended" /\ fate'[m] = "aborted")
  BY <1>1 DEF Decide
<1>3. epoch' # cepoch'
  BY SMT, <1>0, <1>1 DEF TypeRest, NoEpoch
<1>4. InFlight' = InFlight /\ Unfinished' = Unfinished /\ \A m \in Msgs : Rec(m)' <=> Rec(m)
  BY <1>1, <1>2 DEF InFlight, Unfinished, Rec
<1>5. Numbered'
  BY <1>1, <1>2, <1>4 DEF RecordInv, Numbered
<1>6. Ending'
  <2>1. pc \in {"begininit", "init"} => \A m \in Msgs : fate[m] # "appended"
    BY DEF FlowInv, Emptied, RecordsInTxn
  <2> QED BY <1>1, <1>2, <1>4, <2>1 DEF RecordInv, Ending, Outcome
<1>7. Concluded' /\ Kept' /\ AbortedByAbort'
  BY <1>1, <1>3, <1>4 DEF RecordInv, Concluded, Kept, AbortedByAbort
<1>8. CommittedForGood'
  BY <1>1, <1>2, <1>4 DEF RecordInv, CommittedForGood
<1>9. epoch' # NoEpoch => OutcomeAgrees'
  <2> SUFFICES ASSUME NEW m \in Msgs, txnOf[m] > 0, fate'[m] # fate[m]
               PROVE  result[txnOf[m]] \notin {"commit", "abort"}
    BY <1>1 DEF OutcomeAgrees, RecordInv
  <2>1. fate[m] = "appended"
    BY <1>2
  <2> QED BY <2>1 DEF RecordInv, Numbered, Unfinished
<1> QED BY <1>5, <1>6, <1>7, <1>8, <1>9 DEF RecordInv

(* RecordInv is inductive on top of TypeInv and FlowInv. *)
LEMMA RecordNext ==
  ~AbortInFlight /\ TypeInv /\ TypeInv' /\ FlowInv /\ FlowInv' /\ RecordInv /\ [Next]_vars => RecordInv'
<1> SUFFICES ASSUME ~AbortInFlight, TypeInv, TypeInv', FlowInv, FlowInv', RecordInv, [Next]_vars
             PROVE  RecordInv'
  OBVIOUS
<1>1. CASE Application
  BY <1>1, RecordApplication
<1>2. ASSUME NEW m \in Msgs, Message(m) PROVE RecordInv'
  BY <1>2, RecordMessage
<1>3. CASE Finishing
  BY <1>3, RecordFinishing
<1>4. CASE TransactionTimeout
  BY <1>4, RecordTimeout
<1>5. CASE UNCHANGED vars
  BY SMT, <1>5 DEF vars, mgr, flow, pipe, call, hist, coord, RecordInv, Numbered, Ending, Concluded, Kept,
              AbortedByAbort, CommittedForGood, OutcomeAgrees, Rec, Unfinished, InFlight, Outcome
<1> QED BY <1>1, <1>2, <1>3, <1>4, <1>5 DEF Next

-----------------------------------------------------------------------------
(* The offsets added to a transaction. *)

LEMMA OffsetInit == Init => OffsetInv
  BY SMT DEF Init, OffsetInv, OffsetsKept, GroupJoined, OffsetsSettled, OffsetsFollowRecords, Unfinished

(* A step that keeps the offsets, the records and the results, and does not *)
(* end the coordinator's transaction.                                      *)
LEMMA OffsetQuiet ==
  ASSUME OffsetInv, Unfinished,
         UNCHANGED <<gfate, offsets, txn, result, txnOf, fate, epoch, cepoch>>,
         pc' \notin {"begininit", "init"}, pc \notin {"begininit", "init"},
         op = "abort" => op' = "abort",
         status' = InTransaction => status = InTransaction,
         cstate = "ongoing" => cstate' = "ongoing" /\ cgroups \subseteq cgroups',
         pc' = "txnoffsets" /\ epoch = cepoch => group' \in cgroups' /\ cstate' = "ongoing"
  PROVE  OffsetInv'
<1>1. Unfinished' /\ (\A m \in Msgs : Rec(m)' <=> Rec(m)) /\ OffsetsDone' = OffsetsDone
  BY DEF Unfinished, Rec, OffsetsDone
<1>2. OffsetsKept'
  BY <1>1 DEF OffsetInv, OffsetsKept
<1>3. GroupJoined'
  BY DEF GroupJoined
<1>4. OffsetsSettled'
  BY <1>1 DEF OffsetInv, OffsetsSettled
<1>5. OffsetsFollowRecords'
  BY <1>1 DEF OffsetsFollowRecords, Unfinished
<1> QED BY <1>2, <1>3, <1>4, <1>5 DEF OffsetInv

LEMMA OffsetApplication ==
  ASSUME TypeInv, TypeInv', FlowInv, RecordInv, OffsetInv, Application
  PROVE  OffsetInv'
<1>0. StatusOK /\ TypeRest /\ StatusOK' /\ TypeRest'
  BY TypeSplit, TypeSplitPrime
<1>1. CASE BeginTxn
  <2>1. /\ UNCHANGED <<txnOf, fate, result, pc>> /\ pc = "idle" /\ txn' = txn + 1
        /\ \A g \in Groups : gfate'[g] = "none"
    BY <1>1 DEF BeginTxn, pipe
  <2>2. txn \in 0..MaxTxns /\ txn' \in 1..MaxTxns
    BY SMT, <1>0, <2>1 DEF TypeRest
  <2>3. result'[txn'] = "none"
    BY SMT, <2>1, <2>2 DEF RecordInv, Numbered
  <2>4. \A m \in Msgs : ~Rec(m)'
    <3>1. \A m \in Msgs : txnOf[m] <= txn
      BY DEF RecordInv, Numbered
    <3>2. \A m \in Msgs : txnOf[m] \in 0..MaxTxns
      BY <1>0 DEF TypeRest
    <3>3. \A m \in Msgs : txnOf[m] # txn + 1
      BY SMT, <2>2, <3>1, <3>2
    <3> QED BY <2>1, <3>3 DEF Rec
  <2> QED BY <2>1, <2>3, <2>4 DEF OffsetInv, OffsetsKept, GroupJoined, OffsetsSettled, OffsetsFollowRecords
<1>2. ASSUME NEW g \in Groups, AddOffsetsToTxn(g) PROVE OffsetInv'
  <2>1. /\ UNCHANGED <<txnOf, fate, result, txn, pc, op, epoch, cepoch, status, cstate, cgroups>>
        /\ pc = "idle" /\ offsets' = offsets \cup {g} /\ gfate' = [gfate EXCEPT ![g] = "added"]
    BY <1>2 DEF AddOffsetsToTxn, pipe, hist, call
  <2>2. status = InTransaction
    BY <1>0, <1>2, Flags DEF AddOffsetsToTxn, StatusOK
  <2>3. Unfinished /\ Unfinished' /\ \A m \in Msgs : Rec(m)' <=> Rec(m)
    BY <2>1, <2>2 DEF RecordInv, Numbered, Unfinished, Rec
  <2>4. \A h \in Groups : h \in offsets' \/ gfate'[h] = gfate[h]
    BY <1>0, <2>1 DEF TypeRest
  <2>5. OffsetsKept'
    BY <2>1, <2>3, <2>4 DEF OffsetInv, OffsetsKept
  <2>6. GroupJoined' /\ OffsetsSettled' /\ OffsetsFollowRecords'
    BY <2>1, <2>2, <2>3 DEF OffsetInv, GroupJoined, OffsetsSettled, OffsetsFollowRecords, Unfinished
  <2> QED BY <2>5, <2>6 DEF OffsetInv
<1>3. ASSUME NEW o \in {"commit", "abort"}, CallEnd(o) PROVE OffsetInv'
  <2>1. /\ UNCHANGED <<gfate, offsets, txn, result, txnOf, fate, epoch, cepoch, status, cstate, cgroups>>
        /\ Unfinished /\ pc = "idle" /\ pc' = "control" /\ (op = "abort" => op' = "abort")
    BY <1>3 DEF CallEnd, mgr, flow, pipe, coord, Unfinished
  <2> QED BY <2>1, OffsetQuiet
<1>4. ASSUME NEW m \in Msgs, Dispatch(m) PROVE OffsetInv'
  <2>1. /\ UNCHANGED <<gfate, offsets, txn, result, fate, epoch, cepoch, cstate, cgroups, pc, op, group>>
        /\ txnOf' = [txnOf EXCEPT ![m] = txn] /\ stage[m] = "none"
    BY <1>4 DEF Dispatch, coord, hist, call
  <2>2. fate[m] = "none"
    BY <2>1 DEF RecordInv, Numbered
  <2>3. /\ \A n \in Msgs : Rec(n)' <=> Rec(n)
        /\ Unfinished' = Unfinished /\ OffsetsDone' = OffsetsDone
    BY <1>0, <2>1, <2>2 DEF Rec, Unfinished, OffsetsDone, TypeRest
  <2>4. status' = InTransaction => status = InTransaction
    <3>1. UNCHANGED status \/ status' \in {Abortable, Fatal}
      BY <1>4 DEF Dispatch, flow, ReturnError, ErrorState, TransitionTo
    <3> QED BY <3>1, Apart
  <2>5. OffsetsKept' /\ GroupJoined'
    BY <2>1, <2>3 DEF OffsetInv, OffsetsKept, GroupJoined
  <2>6. OffsetsSettled'
    BY <2>1, <2>3, <2>4 DEF OffsetInv, OffsetsSettled
  <2>7. OffsetsFollowRecords'
    <3>1. (\E n \in Msgs : txnOf'[n] = txn /\ fate[n] # "none")
            <=> (\E n \in Msgs : txnOf[n] = txn /\ fate[n] # "none")
      BY <2>1, <2>3 DEF Rec
    <3> QED BY <2>1, <3>1 DEF OffsetInv, OffsetsFollowRecords
  <2> QED BY <2>5, <2>6, <2>7 DEF OffsetInv
<1> QED BY <1>1, <1>2, <1>3, <1>4 DEF Application

LEMMA OffsetMessage ==
  ASSUME TypeInv, FlowInv, RecordInv, OffsetInv, NEW m \in Msgs, Message(m)
  PROVE  OffsetInv'
<1>0. TypeRest
  BY TypeSplit
<1>1. /\ UNCHANGED <<epoch, offsets, txnOf, pc, op, group, txn, result, cepoch, gfate>>
      /\ m \in InFlight
      /\ \A n \in Msgs : fate'[n] = fate[n] \/ (n = m /\ fate[n] = "none" /\ fate'[n] = "appended"
                                              /\ PartitionOf[m] \in inTxn /\ epoch = cepoch)
      /\ cstate = "ongoing" => cstate' = "ongoing" /\ cgroups' = cgroups
  BY MessageEffect DEF call, hist
<1>2. Unfinished /\ Unfinished' /\ pc \in {"idle", "control", "waiting"}
  BY <1>1 DEF RecordInv, Numbered, Unfinished, FlowInv, Carrying
<1>3. status' = InTransaction => status = InTransaction
  <2>1. ErrorMoves
    BY ErrorStep
  <2> QED BY <2>1, Apart DEF ErrorMoves
<1>4. epoch = NoEpoch => \A n \in Msgs : Rec(n)' <=> Rec(n)
  <2>1. epoch = NoEpoch => epoch # cepoch
    BY SMT, <1>0 DEF TypeRest, NoEpoch
  <2> QED BY <1>1, <2>1 DEF Rec
<1>5. OffsetsKept' /\ GroupJoined'
  BY <1>1, <1>2 DEF OffsetInv, OffsetsKept, GroupJoined
<1>6. OffsetsSettled'
  BY <1>1, <1>2, <1>3, <1>4 DEF OffsetInv, OffsetsSettled, OffsetsDone
<1>7. OffsetsFollowRecords'
  BY <1>2 DEF OffsetsFollowRecords, Unfinished
<1> QED BY <1>5, <1>6, <1>7 DEF OffsetInv

LEMMA OffsetFinishing ==
  ASSUME TypeInv, TypeInv', FlowInv, RecordInv, RecordInv', OffsetInv, Finishing
  PROVE  OffsetInv'
<1>0. StatusOK /\ Switches /\ TypeRest /\ StatusOK' /\ TypeRest'
  BY TypeSplit, TypeSplitPrime
<1>00. /\ op' = op /\ txn' = txn /\ txnOf' = txnOf /\ pc # "idle" /\ Unfinished /\ op \in {"commit", "abort"}
  BY <1>0 DEF Finishing, Control, BeginFinish, NextGroup, AddOffsets, TxnOffsetCommit, EndTxn,
         InitializeTransactions, InitProducerID, pipe, hist, RecordInv, Numbered, TypeRest
<1>01. StatusMoves
  BY StatusStep DEF Next
<1>02. status' = InTransaction => status = InTransaction
  BY <1>00, <1>01, Apart DEF StatusMoves, ErrorMoves
<1>1. CASE Control
  <2>1. /\ UNCHANGED <<gfate, offsets, result, fate, epoch, cepoch, cstate, cgroups>>
        /\ pc = "control" /\ pc' = "waiting"
    BY <1>1 DEF Control, coord, hist
  <2> QED BY <1>00, <1>02, <2>1, OffsetQuiet
<1>2. CASE BeginFinish
  <2>1. UNCHANGED <<gfate, fate, epoch, cepoch, cstate, cgroups>> /\ pc = "waiting"
    BY <1>2 DEF BeginFinish, coord, mgr
  <2>2. CASE UNCHANGED <<offsets, result>> /\ pc' \in {"idle", "offsets"}
    BY <1>00, <1>02, <2>1, <2>2, OffsetQuiet
  <2>3. CASE inTxn = {} /\ Return(op)
    <3>1. result' = [result EXCEPT ![txn] = op] /\ pc' = "idle"
      BY <1>00, <2>3 DEF Return
    <3>2. result'[txn] = op
      BY SMT, <1>0, <1>00, <3>1 DEF TypeRest, Unfinished
    <3>3. ~Unfinished'
      BY <1>00, <3>2 DEF Unfinished
    <3>4. OffsetsFollowRecords'
      <4> SUFFICES ASSUME op = "commit", NEW m \in Msgs, Rec(m) PROVE OffsetsDone
        BY <1>00, <2>1, <3>2 DEF OffsetsFollowRecords, OffsetsDone, Rec
      <4>1. epoch = NoEpoch
        BY <1>00, <2>1, <2>3 DEF RecordInv, Kept
      <4> QED BY <1>00, <4>1 DEF OffsetInv, OffsetsSettled
    <3> QED BY <3>1, <3>3, <3>4 DEF OffsetInv, OffsetsKept, GroupJoined, OffsetsSettled
  <2>4. CASE /\ inTxn = {} /\ Complete(CompletionTarget)
             /\ Return(IF IsTransitionValid(CompletionTarget) THEN op ELSE "error")
    BY <2>2, <2>3, <2>4 DEF Complete, Return
  <2>5. CASE UNCHANGED mgr /\ (Return("error") \/ (pc' = "offsets" /\ UNCHANGED result))
    BY <2>2, <2>5 DEF mgr, Return
  <2> QED BY <1>2, <2>4, <2>5 DEF BeginFinish
<1>3. CASE NextGroup
  <2>1. UNCHANGED <<gfate, offsets, fate, cepoch, cstate, cgroups>> /\ pc = "offsets" /\ lastError # "mapping"
    BY <1>3 DEF NextGroup, coord, FlowInv, Called
  <2>2. UNCHANGED <<epoch, result>> /\ pc' \in {"addoffsets", "idle", "endtxn"}
    BY <1>3, <2>1 DEF NextGroup, Return
  <2> QED BY <1>00, <1>02, <2>1, <2>2, OffsetQuiet
<1>4. CASE AddOffsets
  <2>1. UNCHANGED <<gfate, offsets, fate, epoch, cepoch, group>> /\ pc = "addoffsets"
    BY <1>4 DEF AddOffsets
  <2>2. cstate = "ongoing" => cstate' = "ongoing" /\ cgroups \subseteq cgroups'
    BY <1>4 DEF AddOffsets
  <2>3. CASE cstate' = "ongoing" /\ group \in cgroups' /\ pc' = "txnoffsets" /\ result' = result
    BY <1>00, <1>02, <2>1, <2>2, <2>3, OffsetQuiet
  <2>4. CASE pc' \in {"idle", "addoffsets"} /\ result' = result
    BY <1>00, <1>02, <2>1, <2>2, <2>4, OffsetQuiet
  <2>5. CASE Again
    BY <1>0, <2>1, <2>4, <2>5, AgainOK
  <2>6. CASE CallRefused \/ Refused(Abortable, "abortable")
    BY <2>4, <2>6 DEF CallRefused, Refused, Return
  <2> QED BY <1>4, <2>3, <2>5, <2>6 DEF AddOffsets
<1>5. CASE TxnOffsetCommit
  <2>1. UNCHANGED <<fate, epoch, cepoch, cstate, cgroups, group>> /\ pc = "txnoffsets"
    BY <1>5 DEF TxnOffsetCommit
  <2>2. result' = result /\ pc' \in {"idle", "txnoffsets", "offsets"}
    <3>1. CASE Again
      BY <1>0, <2>1, <3>1, AgainOK
    <3>2. CASE CallRefused \/ Refused(Abortable, "abortable")
      BY <3>2 DEF CallRefused, Refused, Return
    <3> QED BY <1>5, <3>1, <3>2 DEF TxnOffsetCommit
  <2>3. CASE UNCHANGED <<gfate, offsets>>
    <3>1. epoch = cepoch => group' \in cgroups' /\ cstate' = "ongoing"
      BY <2>1 DEF OffsetInv, GroupJoined
    <3> QED BY <1>00, <1>02, <2>1, <2>2, <2>3, <3>1, OffsetQuiet
  <2>4. CASE Verdict = "ok" /\ gfate' = [gfate EXCEPT ![group] = "sent"] /\ offsets' \in {offsets, offsets \ {group}}
    <3>1. epoch = cepoch /\ epoch # NoEpoch
      BY <2>4 DEF Verdict
    <3>2. group \in cgroups /\ cstate = "ongoing"
      BY <2>1, <3>1 DEF OffsetInv, GroupJoined
    <3>3. \A g \in Groups : gfate'[g] = IF g = group THEN "sent" ELSE gfate[g]
      BY SMT, <1>0, <2>4 DEF TypeRest
    <3>4. Unfinished'
      BY <1>00, <2>2 DEF Unfinished
    <3>5. OffsetsKept'
      BY <1>00, <2>1, <2>4, <3>1, <3>2, <3>3 DEF OffsetInv, OffsetsKept
    <3>6. GroupJoined' /\ OffsetsSettled' /\ OffsetsFollowRecords'
      BY <2>1, <2>2, <3>1, <3>2, <3>4 DEF GroupJoined, OffsetsSettled, OffsetsFollowRecords, Unfinished
    <3> QED BY <3>5, <3>6 DEF OffsetInv
  <2> QED BY <1>5, <2>3, <2>4 DEF TxnOffsetCommit
<1>6. CASE EndTxn
  <2>1. UNCHANGED <<epoch, cepoch, cgroups, group>> /\ pc = "endtxn" /\ (op = "commit" => offsets = {})
    BY <1>6 DEF EndTxn, RecordInv, Ending
  <2>2. CASE ~EndAccepted
    <3>1. UNCHANGED <<gfate, offsets, cstate, fate>>
      BY <1>6, <2>2 DEF EndTxn
    <3>2. result' = result /\ pc' \in {"idle", "endtxn"}
      <4>1. CASE Again
        BY <1>0, <2>1, <4>1, AgainOK
      <4>2. CASE CallRefused \/ Refused(Fatal, "fatal")
        BY <4>2 DEF CallRefused, Refused, Return
      <4> QED BY <1>6, <2>2, <4>1, <4>2 DEF EndTxn
    <3> QED BY <1>00, <1>02, <2>1, <3>1, <3>2, OffsetQuiet
  <2>3. CASE EndAccepted
    <3>1. epoch = cepoch /\ epoch # NoEpoch
      BY <2>3 DEF EndAccepted, Verdict
    <3>2. op = "commit" => OffsetsDone'
      <4> SUFFICES ASSUME op = "commit", NEW g \in Groups PROVE gfate'[g] \in {"none", "committed"}
        BY DEF OffsetsDone
      <4>1. gfate[g] \in {"none", "committed"} \/ (gfate[g] = "sent" /\ g \in cgroups /\ cstate = "ongoing")
        BY <1>00, <2>1, <3>1 DEF OffsetInv, OffsetsKept
      <4> QED BY <2>3, <4>1 DEF EndAccepted, Decide, Outcome
    <3>3. pc' \in {"idle", "endtxn", "begininit"} /\ (result' = result \/ result' = [result EXCEPT ![txn] = op])
      <4>1. CASE Again
        BY <1>0, <2>1, <4>1, AgainOK
      <4>2. CASE CallRefused \/ Refused(Fatal, "fatal")
        BY <4>2 DEF CallRefused, Refused, Return
      <4> QED BY <1>6, <4>1, <4>2 DEF EndTxn, Return
    <3>4. result'[txn] \in {"none", op}
      BY SMT, <1>0, <1>00, <3>3 DEF TypeRest, Unfinished
    <3>5. OffsetsKept' /\ OffsetsSettled'
      BY <1>00, <2>1, <3>1, <3>2 DEF OffsetsKept, OffsetsSettled, OffsetsDone
    <3>6. GroupJoined' /\ OffsetsFollowRecords'
      BY <1>00, <3>2, <3>3, <3>4 DEF GroupJoined, OffsetsFollowRecords, OffsetsDone
    <3> QED BY <3>5, <3>6 DEF OffsetInv
  <2> QED BY <2>2, <2>3
<1>7. CASE InitializeTransactions \/ InitProducerID
  <2>1. pc \in {"begininit", "init"} /\ (op = "commit" => OffsetsDone) /\ status # InTransaction
    BY <1>7 DEF InitializeTransactions, InitProducerID, OffsetInv, OffsetsSettled, FlowInv, Called
  <2>2. op = "commit" => OffsetsDone'
    <3>1. gfate' = gfate \/ Decide("aborted")
      BY <1>7 DEF InitializeTransactions, InitProducerID, NewEpoch, coord
    <3> QED BY <2>1, <3>1 DEF OffsetsDone, Decide
  <2>3. /\ pc' = "idle" \/ (pc' = "init" /\ result' = result)
        /\ pc' = "idle" => (epoch' = NoEpoch /\ result' = result) \/ result' = [result EXCEPT ![txn] = op]
    BY <1>00, <1>7 DEF InitializeTransactions, InitProducerID, BeginInit, Return, Again, InitFails
  <2>4. result'[txn] \in {"none", op} /\ (pc' = "idle" => epoch' = NoEpoch \/ result'[txn] = op)
    BY SMT, <1>0, <1>00, <2>3 DEF TypeRest, Unfinished
  <2>5. epoch' = NoEpoch => epoch' # cepoch'
    BY SMT, <1>0 DEF TypeRest, NoEpoch
  <2>6. OffsetsKept'
    BY <1>00, <2>3, <2>4, <2>5 DEF OffsetsKept, Unfinished
  <2>7. OffsetsSettled'
    BY <1>00, <1>02, <2>1, <2>2 DEF OffsetsSettled
  <2>8. GroupJoined' /\ OffsetsFollowRecords'
    BY <1>00, <2>2, <2>3, <2>4 DEF GroupJoined, OffsetsFollowRecords, OffsetsDone
  <2> QED BY <2>6, <2>7, <2>8 DEF OffsetInv
<1> QED BY <1>1, <1>2, <1>3, <1>4, <1>5, <1>6, <1>7 DEF Finishing

LEMMA OffsetTimeout ==
  ASSUME TypeInv, TypeInv', OffsetInv, TransactionTimeout
  PROVE  OffsetInv'
<1>0. TypeRest
  BY TypeSplit
<1>1. /\ UNCHANGED <<epoch, status, pc, op, txn, txnOf, result>>
      /\ cepoch' = cepoch + 1 /\ Decide("aborted")
  BY DEF TransactionTimeout, NewEpoch, mgr, flow, pipe, call, hist
<1>2. epoch' # cepoch'
  BY SMT, <1>0, <1>1 DEF TypeRest, NoEpoch
<1>3. /\ OffsetsDone => OffsetsDone'
      /\ Unfinished' = Unfinished /\ \A m \in Msgs : Rec(m)' <=> Rec(m)
  BY <1>1 DEF OffsetsDone, Decide, Unfinished, Rec
<1>4. OffsetsKept' /\ GroupJoined'
  BY <1>2 DEF OffsetsKept, GroupJoined
<1>5. OffsetsSettled'
  BY <1>1, <1>3 DEF OffsetInv, OffsetsSettled
<1>6. OffsetsFollowRecords'
  BY <1>1, <1>3 DEF OffsetInv, OffsetsFollowRecords, OffsetsDone, Rec
<1> QED BY <1>4, <1>5, <1>6 DEF OffsetInv

(* OffsetInv is inductive on top of the other three. *)
LEMMA OffsetNext ==
  /\ TypeInv /\ TypeInv' /\ FlowInv /\ RecordInv /\ RecordInv' /\ OffsetInv /\ [Next]_vars
  => OffsetInv'
<1> SUFFICES ASSUME TypeInv, TypeInv', FlowInv, RecordInv, RecordInv', OffsetInv, [Next]_vars
             PROVE  OffsetInv'
  OBVIOUS
<1>1. CASE Application
  BY <1>1, OffsetApplication
<1>2. ASSUME NEW m \in Msgs, Message(m) PROVE OffsetInv'
  BY <1>2, OffsetMessage
<1>3. CASE Finishing
  BY <1>3, OffsetFinishing
<1>4. CASE TransactionTimeout
  BY <1>4, OffsetTimeout
<1>5. CASE UNCHANGED vars
  BY <1>5 DEF vars, mgr, flow, pipe, call, hist, coord, OffsetInv, OffsetsKept, GroupJoined, OffsetsSettled,
              OffsetsFollowRecords, OffsetsDone, Rec, Unfinished
<1> QED BY <1>1, <1>2, <1>3, <1>4, <1>5 DEF Next

(* What CommitTxn and AbortTxn return is what the coordinator did to the   *)
(* records and to the offsets, for as long as the producer has its ID:     *)
(* with any number of messages, partitions, groups, transactions, retries  *)
(* and faults, when AbortTxn is called with no message in flight           *)
(* (finishTransaction).                                                    *)
THEOREM OutcomesAgree == ~AbortInFlight /\ Spec => []OutcomeAgreesInitialized
<1> SUFFICES ASSUME ~AbortInFlight PROVE Spec => []OutcomeAgreesInitialized
  OBVIOUS
<1>1. Init => TypeInv /\ FlowInv /\ RecordInv /\ OffsetInv
  BY TypeInit, FlowInit, RecordInit, OffsetInit
<1>2. (TypeInv /\ FlowInv /\ RecordInv /\ OffsetInv) /\ [Next]_vars
        => (TypeInv /\ FlowInv /\ RecordInv /\ OffsetInv)'
  BY TypeNext, FlowNext, RecordNext, OffsetNext
<1>3. TypeInv /\ FlowInv /\ RecordInv /\ OffsetInv => OutcomeAgreesInitialized
  BY DEF RecordInv, OffsetInv, OutcomeAgreesInitialized
<1> QED BY <1>1, <1>2, <1>3, PTL DEF Spec
=============================================================================
