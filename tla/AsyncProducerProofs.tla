------------------------ MODULE AsyncProducerProofs ------------------------
(***************************************************************************)
(* Proofs about AsyncProducer, for every number of messages, partitions,   *)
(* brokers and retries and every configuration: its types, and the gate    *)
(* that keeps a partition's messages in order while some are retried.      *)
(***************************************************************************)
EXTENDS AsyncProducer, TLAPS

(* Most leaves are first-order; those that need arithmetic cite SMT. *)
USE ZenonT(30)

-----------------------------------------------------------------------------
(* The inductive invariant.  The types alone are not inductive: a fin gets *)
(* its level from the message in the partition producer's hand, which has  *)
(* a level above the watermark only while ppc says so.                     *)

FrontInv == FrontType /\ (dpc # "idle" => disp \in Message)

HandInv(p) ==
  /\ ppc[p] \in {"newhwm", "unref", "send"} => cur[p] \in Message
  /\ ppc[p] = "newhwm" => cur[p].retries > hwm[p]

GateInv(p) ==
  /\ hwm[p] > 0 /\ ppc[p] \notin {"flush", "drop"} => chaser[p][hwm[p]]
  /\ \A l \in Levels : l > hwm[p] => ~chaser[p][l]
  /\ \A l \in Levels : buf[p][l] # <<>> => l < hwm[p] \/ (l = hwm[p] /\ ppc[p] \in {"flush", "drop"})

PPInv ==
  /\ GateType /\ PartitionType
  /\ \A p \in Partitions : HandInv(p) /\ GateInv(p)

BPInv ==
  /\ TableType /\ BatchType /\ ModeType /\ AnswerType
  /\ \A i \in Slots : bpc[i] = "wait" => waitMsg[i] \in Message

IInv == FrontInv /\ SettleType /\ PPInv /\ BPInv /\ NetType

(* The invariant says what it should. *)
LEMMA IInvImplies == IInv => TypeOK /\ WatermarkGate
BY DEF IInv, FrontInv, PPInv, BPInv, GateInv, TypeOK, WatermarkGate

(* A part of the invariant survives steps that leave its variables alone.  *)
LEMMA FrontKept == FrontInv /\ UNCHANGED frontVars => FrontInv'
BY DEF FrontInv, FrontType, frontVars

LEMMA SettleKept == SettleType /\ UNCHANGED settleVars => SettleType'
BY DEF SettleType, settleVars

LEMMA PPKept == PPInv /\ UNCHANGED ppVars => PPInv'
BY DEF PPInv, GateType, PartitionType, HandInv, GateInv, ppVars, gateVars

LEMMA BPKept == BPInv /\ UNCHANGED bpVars => BPInv'
BY DEF BPInv, TableType, BatchType, ModeType, AnswerType, bpVars, tableVars, batchVars, modeVars, bridgeVars, handleVars

LEMMA NetKept == NetType /\ UNCHANGED netVars => NetType'
BY DEF NetType, netVars

-----------------------------------------------------------------------------
(* Facts about the operators.                                              *)

LEMMA MessageType ==
  ASSUME NEW m \in Message
  PROVE  /\ m.flag \in {"data", "syn", "fin"} /\ m.id \in Ids
         /\ m.part \in Partitions /\ m.retries \in Levels
BY DEF Message

LEMMA ControlType ==
  ASSUME NEW f \in {"syn", "fin"}, NEW p \in Partitions, NEW l \in Levels
  PROVE  Control(f, p, l) \in Message
BY SMT, ConstantsAssumption DEF Control, Message, Ids

LEMMA ReturnErrorType ==
  ASSUME SettleType, NEW m \in Message, ReturnError(m) PROVE SettleType'
BY SMT, MessageType DEF SettleType, ReturnError

LEMMA ReturnSuccessType ==
  ASSUME SettleType, NEW m \in Message, ReturnSuccess(m) PROVE SettleType'
BY SMT, MessageType DEF SettleType, ReturnSuccess

(* retryMessage keeps the retry count within Retry.Max. *)
LEMMA RetryMessageType ==
  ASSUME SettleType, NEW m \in Message, RetryMessage(m) PROVE SettleType'
<1>1. CASE CanRetry(m)
  <2>1. [m EXCEPT !.retries = @ + 1] \in Message
    BY SMT, <1>1, ConstantsAssumption DEF CanRetry, Message, Levels
  <2>2. retryQ' = Append(retryQ, [m EXCEPT !.retries = @ + 1]) /\ UNCHANGED <<inFlight, succ, errs>>
    BY <1>1 DEF RetryMessage
  <2> QED BY SMT, <2>1, <2>2 DEF SettleType
<1>2. CASE ~CanRetry(m)
  BY <1>2, ReturnErrorType DEF RetryMessage
<1> QED BY <1>1, <1>2

LEMMA InterceptType ==
  ASSUME intercepted \in [Ids -> 0..2], NEW m, Intercept(m)
  PROVE  intercepted' \in [Ids -> 0..2]
<1>1. CASE ~Interceptors
  BY <1>1 DEF Intercept
<1>2. CASE Interceptors
  <2>1. intercepted' = [k \in Ids |-> IF k = m.id /\ intercepted[k] < 2
                                      THEN intercepted[k] + 1 ELSE intercepted[k]]
    BY <1>2, Zenon DEF Intercept
  <2> QED BY SMT, <2>1
<1> QED BY <1>1, <1>2

(* The table of broker producers keeps its type. *)
LEMMA UnrefType ==
  ASSUME BPInv, NEW i, UnrefBrokerProducer(i),
         UNCHANGED <<bpc, bbroker, batchVars, modeVars, bridgeVars, handleVars>>
  PROVE  BPInv'
<1>1. refs' \in [Slots -> Int]
  <2>1. refs' = [j \in Slots |-> IF j = i THEN refs[j] - 1 ELSE refs[j]]
    BY Zenon DEF BPInv, TableType, UnrefBrokerProducer
  <2> QED BY SMT, <2>1 DEF BPInv, TableType
<1>2. brokers' = brokers \/ brokers' = [brokers EXCEPT ![bbroker[i]] = NoSlot]
  BY DEF UnrefBrokerProducer
<1>3. brokers' \in [Brokers -> Slots \cup {NoSlot}]
  BY <1>2 DEF BPInv, TableType
<1>4. TableType'
  BY <1>1, <1>3 DEF BPInv, TableType
<1> QED BY <1>4 DEF BPInv, BatchType, ModeType, AnswerType, batchVars, modeVars, bridgeVars, handleVars

LEMMA UpdateLeaderType ==
  ASSUME SettleType, BPInv, NetType, GateType, PartitionType,
         NEW p \in Partitions, UpdateLeader(p)
  PROVE  /\ SettleType' /\ BPInv' /\ NetType' /\ GateType'
         /\ UNCHANGED <<frontVars, ppIn, cur, gateVars>>
         /\ pbp' \in [Partitions -> Slots \cup {NoSlot}]
         /\ sending' \in [Partitions -> MaybeMessage]
<1> PICK b \in Brokers, i \in Slots :
      /\ GetBrokerProducer(b, i)
      /\ \E c \in IF conn[b] # "closed" THEN {conn[b]}
                  ELSE {"open"} \cup {x \in {"closed"} : "net" \in Faults} :
           conn' = [conn EXCEPT ![b] = c]
      /\ pbp' = [pbp EXCEPT ![p] = i]
      /\ sending' = [sending EXCEPT ![p] = Control("syn", p, 0)]
      /\ inFlight' = inFlight + 1
      /\ UNCHANGED <<frontVars, retryQ, succ, errs, ppIn, cur, gateVars, batchVars, modeVars,
                     bridgeVars, handleVars, wire, log>>
  BY Zenon DEF UpdateLeader
<1>1. SettleType'
  BY SMT DEF SettleType
<1>2. TableType'
  BY SMT DEF BPInv, TableType, GetBrokerProducer
<1>3. \A j \in Slots : bpc'[j] = "wait" => bpc[j] = "wait"
  BY DEF BPInv, TableType, GetBrokerProducer
<1>4. BPInv'
  BY <1>2, <1>3 DEF BPInv, BatchType, ModeType, AnswerType, batchVars, modeVars, bridgeVars, handleVars
<1>5. NetType'
  BY DEF NetType
<1>6. Control("syn", p, 0) \in MaybeMessage
  BY SMT, ControlType, ConstantsAssumption DEF Levels, MaybeMessage
<1>7. sending' \in [Partitions -> MaybeMessage]
  BY <1>6 DEF PartitionType
<1>8. pbp' \in [Partitions -> Slots \cup {NoSlot}]
  BY DEF PartitionType
<1>9. GateType'
  BY DEF GateType, gateVars
<1> QED BY <1>1, <1>4, <1>5, <1>7, <1>8, <1>9

-----------------------------------------------------------------------------
(* Initially.                                                              *)

LEMMA InitInv == Init => IInv
<1> SUFFICES ASSUME Init PROVE IInv
  OBVIOUS
<1>1. FrontInv
  <2>1. disp \in MaybeMessage BY DEF Init, MaybeMessage
  <2>2. intercepted \in [Ids -> 0..2] BY SMT DEF Init
  <2>3. next \in 1..NumMessages+1 BY SMT, ConstantsAssumption DEF Init
  <2> QED BY <2>1, <2>2, <2>3, Zenon DEF Init, FrontInv, FrontType
<1>2. SettleType
  BY SMT DEF Init, SettleType
<1>3. PPInv
  <2>1. GateType BY SMT, ConstantsAssumption DEF Init, GateType, Levels
  <2>2. PartitionType BY SMT DEF Init, PartitionType, PPStates, MaybeMessage
  <2>3. \A p \in Partitions : HandInv(p) /\ GateInv(p)
    BY SMT DEF Init, HandInv, GateInv
  <2> QED BY <2>1, <2>2, <2>3 DEF PPInv
<1>4. BPInv
  <2>1. TableType BY SMT DEF Init, TableType
  <2>2. BatchType BY SMT DEF Init, BatchType, ProduceSet, EmptySet
  <2>3. ModeType BY DEF Init, ModeType, MaybeMessage
  <2>4. AnswerType BY SMT DEF Init, AnswerType, Response, NoResponse, ProduceSet, EmptySet, Verdicts
  <2> QED BY <2>1, <2>2, <2>3, <2>4 DEF Init, BPInv
<1>5. NetType
  BY SMT DEF Init, NetType
<1> QED BY <1>1, <1>2, <1>3, <1>4, <1>5 DEF IInv

-----------------------------------------------------------------------------
(* The application, the dispatcher, the retry handler and shutdown.        *)

LEMMA UserSendInv == IInv /\ UserSend => IInv'
<1> SUFFICES ASSUME IInv, UserSend PROVE IInv'
  OBVIOUS
<1>1. FrontInv'
  <2>1. disp' \in Message
    BY SMT, ConstantsAssumption DEF IInv, FrontInv, FrontType, UserSend, Message, Ids, Levels, Partitions
  <2>2. intercepted' \in [Ids -> 0..2]
    BY InterceptType DEF IInv, FrontInv, FrontType, UserSend
  <2> QED BY SMT, <2>1, <2>2, ConstantsAssumption DEF IInv, FrontInv, FrontType, UserSend, MaybeMessage
<1>2. SettleType'
  BY SMT DEF IInv, SettleType, UserSend
<1> QED BY <1>1, <1>2, PPKept, BPKept, NetKept DEF IInv, UserSend

LEMMA RetryForwardInv == IInv /\ RetryForward => IInv'
<1> SUFFICES ASSUME IInv, RetryForward PROVE IInv'
  OBVIOUS
<1>1. FrontInv'
  <2>1. disp' \in Message
    BY SMT DEF IInv, SettleType, RetryForward
  <2>2. intercepted' \in [Ids -> 0..2]
    BY InterceptType DEF IInv, FrontInv, FrontType, RetryForward
  <2> QED BY <2>1, <2>2 DEF IInv, FrontInv, FrontType, RetryForward, MaybeMessage
<1>2. SettleType'
  BY SMT DEF IInv, SettleType, RetryForward
<1> QED BY <1>1, <1>2, PPKept, BPKept, NetKept DEF IInv, RetryForward

LEMMA DispatchRejectInv == IInv /\ DispatchReject => IInv'
<1> SUFFICES ASSUME IInv, DispatchReject PROVE IInv'
  OBVIOUS
<1>1. FrontInv'
  BY DEF IInv, FrontInv, FrontType, DispatchReject, MaybeMessage
<1>2. SettleType'
  BY SMT, MessageType DEF IInv, FrontInv, SettleType, DispatchReject
<1> QED BY <1>1, <1>2, PPKept, BPKept, NetKept DEF IInv, DispatchReject

LEMMA DispatchRefuseInv == IInv /\ DispatchRefuse => IInv'
<1> SUFFICES ASSUME IInv, DispatchRefuse PROVE IInv'
  OBVIOUS
<1>1. FrontInv'
  BY DEF IInv, FrontInv, FrontType, DispatchRefuse, MaybeMessage
<1>2. SettleType'
  BY ReturnErrorType DEF IInv, FrontInv, DispatchRefuse
<1> QED BY <1>1, <1>2, PPKept, BPKept, NetKept DEF IInv, DispatchRefuse

LEMMA DispatchRouteInv ==
  ASSUME IInv, NEW p \in Partitions, DispatchRoute(p) PROVE IInv'
<1>1. FrontInv'
  BY DEF IInv, FrontInv, FrontType, DispatchRoute, MaybeMessage
<1>2. PPInv'
  <2>1. [disp EXCEPT !.part = p] \in Message
    BY DEF IInv, FrontInv, DispatchRoute, Message
  <2>2. PartitionType'
    BY SMT, <2>1 DEF IInv, PPInv, PartitionType, DispatchRoute
  <2> QED BY <2>2 DEF IInv, PPInv, GateType, HandInv, GateInv, DispatchRoute, gateVars
<1> QED BY <1>1, <1>2, SettleKept, BPKept, NetKept DEF IInv, DispatchRoute

LEMMA ClosingInv ==
  ASSUME IInv, AsyncClose \/ DispatchShutdown \/ ShutdownComplete PROVE IInv'
<1>1. FrontInv'
  BY Zenon DEF IInv, FrontInv, FrontType, AsyncClose, DispatchShutdown, ShutdownComplete
<1>2. SettleType'
  BY SMT DEF IInv, SettleType, AsyncClose, DispatchShutdown, ShutdownComplete, settleVars
<1> QED BY <1>1, <1>2, PPKept, BPKept, NetKept DEF IInv, AsyncClose, DispatchShutdown, ShutdownComplete

-----------------------------------------------------------------------------
(* The partition producer: the gate is at stake in every step.             *)

LEMMA PPStartInv ==
  ASSUME IInv, NEW p \in Partitions, PPStart(p) PROVE IInv'
<1>1. CASE UpdateLeader(p)
  <2> USE <1>1
  <2>1. PartitionType'
    BY UpdateLeaderType DEF IInv, PPInv, PartitionType, PPStates, PPStart
  <2>2. \A q \in Partitions : HandInv(q)' /\ GateInv(q)'
    BY UpdateLeaderType DEF IInv, PPInv, PartitionType, PPStates, HandInv, GateInv, PPStart, gateVars
  <2> QED BY <2>1, <2>2, UpdateLeaderType, FrontKept DEF IInv, PPInv, PPStart
<1>2. CASE UNCHANGED <<prodVars, ppIn, cur, gateVars, pbp, sending, bpVars, netVars>>
  <2>1. PPInv'
    BY <1>2 DEF IInv, PPInv, GateType, PartitionType, PPStates, HandInv, GateInv, PPStart, gateVars
  <2> QED BY <1>2, <2>1, FrontKept, SettleKept, BPKept, NetKept DEF IInv, prodVars
<1> QED BY <1>1, <1>2 DEF PPStart

LEMMA PPAbandonInv ==
  ASSUME IInv, NEW p \in Partitions, PPAbandon(p) PROVE IInv'
<1>1. PPInv'
  BY DEF IInv, PPInv, GateType, PartitionType, HandInv, GateInv, PPAbandon, gateVars
<1>2. BPInv'
  BY UnrefType DEF IInv, PPAbandon
<1> QED BY <1>1, <1>2, FrontKept, SettleKept, NetKept DEF IInv, PPAbandon, prodVars

(* What PPTake does to one partition, for each of its cases. *)
TakeInv == GateType' /\ ppc' \in [Partitions -> PPStates] /\ cur' \in [Partitions -> MaybeMessage]

LEMMA TakeNewLevelInv ==
  ASSUME PPInv, NEW p \in Partitions, NEW m \in Message, ppc[p] = "idle", TakeNewLevel(p, m)
  PROVE  TakeInv /\ \A q \in Partitions : HandInv(q)' /\ GateInv(q)'
<1>1. TakeInv
  BY DEF PPInv, GateType, PartitionType, TakeInv, TakeNewLevel, gateVars, MaybeMessage, PPStates
<1>2. ASSUME NEW q \in Partitions PROVE HandInv(q)' /\ GateInv(q)'
  BY DEF PPInv, GateType, PartitionType, HandInv, GateInv, TakeNewLevel, gateVars, PPStates
<1> QED BY <1>1, <1>2

LEMMA TakeLowerFinInv ==
  ASSUME PPInv, NEW p \in Partitions, NEW m \in Message, ppc[p] = "idle", TakeLowerFin(p, m)
  PROVE  TakeInv /\ \A q \in Partitions : HandInv(q)' /\ GateInv(q)'
<1>1. TakeInv
  BY MessageType DEF PPInv, GateType, PartitionType, TakeInv, TakeLowerFin, PPStates
<1>2. ASSUME NEW q \in Partitions PROVE HandInv(q)' /\ GateInv(q)'
  <2>1. m.retries \in Levels /\ hwm[q] \in Levels /\ hwm[p] \in Levels
    BY MessageType DEF PPInv, GateType
  <2>2. \A l \in Levels : chaser'[q][l] => chaser[q][l]
    BY <2>1 DEF PPInv, GateType, TakeLowerFin
  <2>3. chaser[q][hwm[q]] => chaser'[q][hwm[q]]
    BY SMT, <2>1, ConstantsAssumption DEF PPInv, GateType, TakeLowerFin, Levels
  <2> QED BY <2>1, <2>2, <2>3 DEF PPInv, HandInv, GateInv, TakeLowerFin
<1> QED BY <1>1, <1>2

LEMMA TakeLowerInv ==
  ASSUME PPInv, NEW p \in Partitions, NEW m \in Message, ppc[p] = "idle", TakeLower(p, m)
  PROVE  TakeInv /\ \A q \in Partitions : HandInv(q)' /\ GateInv(q)'
<1>1. TakeInv
  BY SMT, MessageType DEF PPInv, GateType, PartitionType, TakeInv, TakeLower, PPStates
<1>2. ASSUME NEW q \in Partitions PROVE HandInv(q)' /\ GateInv(q)'
  <2>1. \A l \in Levels : buf'[q][l] = buf[q][l] \/ (q = p /\ l = m.retries)
    BY MessageType DEF PPInv, GateType, TakeLower
  <2> QED BY <2>1 DEF PPInv, HandInv, GateInv, TakeLower
<1> QED BY <1>1, <1>2

LEMMA TakeFinInv ==
  ASSUME PPInv, NEW p \in Partitions, NEW m \in Message, ppc[p] = "idle", TakeFin(p, m)
  PROVE  TakeInv /\ \A q \in Partitions : HandInv(q)' /\ GateInv(q)'
<1>1. TakeInv
  BY SMT, ConstantsAssumption DEF PPInv, GateType, PartitionType, TakeInv, TakeFin, PPStates, Levels
<1>2. ASSUME NEW q \in Partitions, q # p PROVE HandInv(q)' /\ GateInv(q)'
  BY <1>2 DEF PPInv, GateType, PartitionType, HandInv, GateInv, TakeFin
<1>3. HandInv(p)' /\ GateInv(p)'
  <2>1. /\ hwm[p] \in Levels /\ hwm'[p] = hwm[p] - 1 /\ ppc'[p] = "flush"
        /\ \A l \in Levels : chaser'[p][l] = (chaser[p][l] /\ l # hwm[p])
        /\ buf' = buf
    BY Zenon DEF PPInv, GateType, PartitionType, TakeFin
  <2>2. \A l \in Levels : l > hwm'[p] => l > hwm[p] \/ l = hwm[p]
    BY SMT, <2>1, ConstantsAssumption DEF Levels
  <2>3. \A l \in Levels : buf[p][l] # <<>> => l < hwm[p]
    BY DEF PPInv, GateInv, TakeFin
  <2>4. \A l \in Levels : l < hwm[p] => l < hwm'[p] \/ l = hwm'[p]
    BY SMT, <2>1, ConstantsAssumption DEF Levels
  <2> QED BY <2>1, <2>2, <2>3, <2>4, Zenon DEF PPInv, HandInv, GateInv
<1> QED BY <1>1, <1>2, <1>3

LEMMA TakeCurrentInv ==
  ASSUME PPInv, NEW p \in Partitions, NEW m \in Message, ppc[p] = "idle", TakeCurrent(p, m)
  PROVE  TakeInv /\ \A q \in Partitions : HandInv(q)' /\ GateInv(q)'
<1>1. TakeInv
  BY DEF PPInv, GateType, PartitionType, TakeInv, TakeCurrent, gateVars, MaybeMessage, PPStates
<1>2. ASSUME NEW q \in Partitions PROVE HandInv(q)' /\ GateInv(q)'
  BY DEF PPInv, GateType, PartitionType, HandInv, GateInv, TakeCurrent, gateVars, PPStates
<1> QED BY <1>1, <1>2

LEMMA PPTakeInv ==
  ASSUME IInv, NEW p \in Partitions, PPTake(p) PROVE IInv'
<1> DEFINE m == Head(ppIn[p])
<1>0. m \in Message /\ ppIn' \in [Partitions -> Seq(Message)]
  BY SMT DEF IInv, PPInv, PartitionType, PPTake
<1>1. /\ ppc[p] = "idle"
      /\ TakeNewLevel(p, m) \/ TakeLowerFin(p, m) \/ TakeLower(p, m) \/ TakeFin(p, m) \/ TakeCurrent(p, m)
  BY DEF PPTake
<1>2. UNCHANGED <<frontVars, retryQ, succ, errs, pbp, sending, bpVars, netVars>>
  BY DEF PPTake
<1> HIDE DEF m
<1>3. inFlight' \in Int
  BY SMT, <1>1 DEF IInv, SettleType, TakeNewLevel, TakeLowerFin, TakeLower, TakeFin, TakeCurrent
<1>4. SettleType'
  BY <1>2, <1>3 DEF IInv, SettleType
<1>5. TakeInv /\ \A q \in Partitions : HandInv(q)' /\ GateInv(q)'
  BY <1>0, <1>1, TakeNewLevelInv, TakeLowerFinInv, TakeLowerInv, TakeFinInv, TakeCurrentInv DEF IInv
<1>6. PPInv'
  BY <1>0, <1>2, <1>5 DEF IInv, PPInv, PartitionType, TakeInv
<1> QED BY <1>2, <1>4, <1>6, FrontKept, BPKept, NetKept DEF IInv


(* A leader is found for a partition producer that stays where it is. *)
LEMMA LeaderFound ==
  ASSUME IInv, NEW p \in Partitions, UpdateLeader(p), UNCHANGED ppc PROVE IInv'
<1>1. PartitionType'
  BY UpdateLeaderType DEF IInv, PPInv, PartitionType
<1>2. \A q \in Partitions : HandInv(q)' /\ GateInv(q)'
  BY UpdateLeaderType DEF IInv, PPInv, HandInv, GateInv, gateVars
<1> QED BY <1>1, <1>2, UpdateLeaderType, FrontKept DEF IInv, PPInv

LEMMA PPLeaderInv ==
  ASSUME IInv, NEW p \in Partitions, PPLeader(p) PROVE IInv'
<1>1. CASE UpdateLeader(p) /\ UNCHANGED ppc
  BY <1>1, LeaderFound
<1>2. CASE /\ ReturnError(cur[p])
           /\ cur' = [cur EXCEPT ![p] = NoMsg]
           /\ ppc' = [ppc EXCEPT ![p] = "idle"]
           /\ UNCHANGED <<frontVars, ppIn, gateVars, pbp, sending, bpVars, netVars>>
  <2>1. ppc[p] \in {"newhwm", "send"} /\ cur[p] \in Message
    BY DEF IInv, PPInv, HandInv, PPLeader
  <2>2. SettleType'
    BY <1>2, <2>1, ReturnErrorType DEF IInv
  <2>3. PartitionType'
    BY <1>2 DEF IInv, PPInv, PartitionType, MaybeMessage, PPStates
  <2>4. \A q \in Partitions : HandInv(q)' /\ GateInv(q)'
    BY <1>2, <2>1 DEF IInv, PPInv, PartitionType, HandInv, GateInv, gateVars
  <2>5. GateType'
    BY <1>2 DEF IInv, PPInv, GateType, gateVars
  <2> QED BY <1>2, <2>2, <2>3, <2>4, <2>5, FrontKept, BPKept, NetKept DEF IInv, PPInv
<1> QED BY <1>1, <1>2 DEF PPLeader

LEMMA PPNewHighWatermarkInv ==
  ASSUME IInv, NEW p \in Partitions, PPNewHighWatermark(p) PROVE IInv'
<1>1. cur[p] \in Message /\ cur[p].retries \in Levels /\ hwm[p] \in Levels /\ cur[p].retries > hwm[p]
  BY MessageType DEF IInv, PPInv, GateType, HandInv, PPNewHighWatermark
<1>2. FinOf(p) \in MaybeMessage
  BY SMT, <1>1, ControlType, ConstantsAssumption DEF FinOf, Levels, MaybeMessage
<1>3. GateType'
  BY <1>1 DEF IInv, PPInv, GateType, PPNewHighWatermark
<1>4. PartitionType'
  BY <1>2 DEF IInv, PPInv, PartitionType, PPStates, PPNewHighWatermark
<1>5. ASSUME NEW q \in Partitions, q # p PROVE HandInv(q)' /\ GateInv(q)'
  BY <1>5 DEF IInv, PPInv, GateType, PartitionType, HandInv, GateInv, PPNewHighWatermark
<1>6. HandInv(p)'
  BY <1>1 DEF IInv, PPInv, PartitionType, HandInv, PPNewHighWatermark
<1>7. GateInv(p)'
  <2>1. /\ hwm'[p] = cur[p].retries /\ ppc[p] = "newhwm" /\ ppc'[p] = "unref" /\ buf' = buf
        /\ \A l \in Levels : chaser'[p][l] = (chaser[p][l] \/ l = cur[p].retries)
    BY <1>1, Zenon DEF IInv, PPInv, GateType, PartitionType, PPNewHighWatermark
  <2>2. \A l \in Levels : l > hwm'[p] => l > hwm[p] /\ l # cur[p].retries
    BY <1>1, <2>1, ConstantsAssumption, SMTT(20) DEF Levels
  <2>3. \A l \in Levels : buf[p][l] # <<>> => l < hwm[p]
    BY <2>1 DEF IInv, PPInv, GateInv
  <2>4. \A l \in Levels : l < hwm[p] => l < hwm'[p]
    BY SMT, <1>1, <2>1, ConstantsAssumption DEF Levels
  <2> QED BY <1>1, <2>1, <2>2, <2>3, <2>4, Zenon DEF IInv, PPInv, GateInv
<1>8. SettleType'
  BY SMT DEF IInv, SettleType, PPNewHighWatermark
<1> QED BY <1>3, <1>4, <1>5, <1>6, <1>7, <1>8, FrontKept, BPKept, NetKept DEF IInv, PPInv, PPNewHighWatermark

LEMMA PPUnrefInv ==
  ASSUME IInv, NEW p \in Partitions, PPUnref(p) PROVE IInv'
<1>1. PPInv'
  BY DEF IInv, PPInv, GateType, PartitionType, PPStates, HandInv, GateInv, PPUnref, gateVars
<1>2. BPInv'
  BY UnrefType DEF IInv, PPUnref
<1> QED BY <1>1, <1>2, FrontKept, SettleKept, NetKept DEF IInv, PPUnref, prodVars

LEMMA PPSendInv ==
  ASSUME IInv, NEW p \in Partitions, PPSend(p) PROVE IInv'
<1>1. PartitionType' /\ GateType'
  BY DEF IInv, PPInv, GateType, PartitionType, PPStates, PPSend, gateVars, MaybeMessage
<1>2. \A q \in Partitions : HandInv(q)' /\ GateInv(q)'
  BY DEF IInv, PPInv, PartitionType, HandInv, GateInv, PPSend, gateVars
<1> QED BY <1>1, <1>2, FrontKept, SettleKept, BPKept, NetKept DEF IInv, PPInv, PPSend, prodVars

LEMMA PPFlushLeaderInv ==
  ASSUME IInv, NEW p \in Partitions, PPFlushLeader(p) PROVE IInv'
<1>1. CASE UpdateLeader(p) /\ UNCHANGED ppc
  BY <1>1, LeaderFound
<1>2. CASE /\ ppc' = [ppc EXCEPT ![p] = "drop"]
           /\ UNCHANGED <<prodVars, ppIn, cur, gateVars, pbp, sending, bpVars, netVars>>
  <2>1. PPInv'
    BY <1>2 DEF IInv, PPInv, GateType, PartitionType, PPStates, HandInv, GateInv, PPFlushLeader, gateVars
  <2> QED BY <1>2, <2>1, FrontKept, SettleKept, BPKept, NetKept DEF IInv, prodVars
<1> QED BY <1>1, <1>2 DEF PPFlushLeader

(* The flush takes the head of a level's buffer. *)
LEMMA LevelHead ==
  ASSUME PPInv, NEW p \in Partitions, buf[p][hwm[p]] # <<>>, ppc[p] \in {"flush", "drop"},
         buf' = [buf EXCEPT ![p][hwm[p]] = Tail(@)], UNCHANGED <<ppc, cur, hwm, chaser>>
  PROVE  /\ Head(buf[p][hwm[p]]) \in Message
         /\ GateType' /\ \A q \in Partitions : HandInv(q)' /\ GateInv(q)'
<1>1. hwm[p] \in Levels /\ buf[p][hwm[p]] \in Seq(Message)
  BY DEF PPInv, GateType
<1>2. Head(buf[p][hwm[p]]) \in Message /\ GateType'
  BY SMT, <1>1 DEF PPInv, GateType
<1>3. \A q \in Partitions : \A l \in Levels : buf'[q][l] = buf[q][l] \/ (q = p /\ l = hwm[p])
  BY <1>1 DEF PPInv, GateType
<1> QED BY SMT, <1>2, <1>3 DEF PPInv, HandInv, GateInv

LEMMA PPFlushSendInv ==
  ASSUME IInv, NEW p \in Partitions, PPFlushSend(p) PROVE IInv'
<1>1. /\ Head(buf[p][hwm[p]]) \in Message
      /\ GateType' /\ \A q \in Partitions : HandInv(q)' /\ GateInv(q)'
  BY LevelHead, Zenon DEF IInv, PPFlushSend
<1>2. PartitionType'
  BY <1>1 DEF IInv, PPInv, PartitionType, PPFlushSend, MaybeMessage
<1> QED BY <1>1, <1>2, FrontKept, SettleKept, BPKept, NetKept DEF IInv, PPInv, PPFlushSend, prodVars

LEMMA PPFlushDropInv ==
  ASSUME IInv, NEW p \in Partitions, PPFlushDrop(p) PROVE IInv'
<1>1. /\ Head(buf[p][hwm[p]]) \in Message
      /\ GateType' /\ \A q \in Partitions : HandInv(q)' /\ GateInv(q)'
  BY LevelHead, Zenon DEF IInv, PPFlushDrop
<1>2. PartitionType'
  BY DEF IInv, PPInv, PartitionType, PPFlushDrop
<1>3. SettleType'
  BY <1>1, ReturnErrorType DEF IInv, PPFlushDrop
<1> QED BY <1>1, <1>2, <1>3, FrontKept, BPKept, NetKept DEF IInv, PPInv, PPFlushDrop

LEMMA PPFlushedInv ==
  ASSUME IInv, NEW p \in Partitions, PPFlushed(p) PROVE IInv'
<1>1. hwm[p] \in Levels /\ ppc[p] \in {"flush", "drop"} /\ buf[p][hwm[p]] = <<>>
  BY DEF IInv, PPInv, GateType, PPFlushed
<1>2. SettleType'
  BY SMT DEF IInv, SettleType, PPFlushed
<1>3. CASE FlushStops(p)
  <2>1. /\ ppc' = [ppc EXCEPT ![p] = "idle"] /\ UNCHANGED <<hwm, ppIn, cur, buf, chaser, pbp, sending>>
    BY <1>3 DEF PPFlushed
  <2>2. GateType' /\ PartitionType'
    BY <2>1 DEF IInv, PPInv, GateType, PartitionType, PPStates
  <2>3. \A q \in Partitions : HandInv(q)' /\ GateInv(q)'
    BY SMT, <1>1, <1>3, <2>1 DEF IInv, PPInv, GateType, PartitionType, HandInv, GateInv, FlushStops
  <2> QED BY <1>2, <2>2, <2>3, FrontKept, BPKept, NetKept DEF IInv, PPInv, PPFlushed
<1>4. CASE ~FlushStops(p)
  <2>1. /\ ppc' = [ppc EXCEPT ![p] = "flush"] /\ hwm' = [hwm EXCEPT ![p] = @ - 1]
        /\ UNCHANGED <<ppIn, cur, buf, chaser, pbp, sending>>
        /\ hwm[p] # 0 /\ ~chaser[p][hwm[p]]
    BY <1>4 DEF PPFlushed, FlushStops
  <2>5. hwm[p] - 1 \in Levels
    BY SMT, <1>1, <2>1, ConstantsAssumption DEF Levels
  <2>2. GateType' /\ PartitionType'
    BY <1>1, <2>1, <2>5 DEF IInv, PPInv, GateType, PartitionType, PPStates
  <2>3. ASSUME NEW q \in Partitions, q # p PROVE HandInv(q)' /\ GateInv(q)'
    BY <2>1, <2>3 DEF IInv, PPInv, GateType, PartitionType, HandInv, GateInv
  <2>4. HandInv(p)' /\ GateInv(p)'
    <3>1. hwm'[p] = hwm[p] - 1 /\ ppc'[p] = "flush"
      BY <2>1 DEF IInv, PPInv, GateType, PartitionType
    <3>2. \A l \in Levels : (l > hwm'[p] => l > hwm[p] \/ l = hwm[p]) /\ (l < hwm[p] => l < hwm'[p] \/ l = hwm'[p])
      BY SMT, <1>1, <3>1, ConstantsAssumption DEF Levels
    <3> QED BY <1>1, <2>1, <3>1, <3>2 DEF IInv, PPInv, HandInv, GateInv
  <2> QED BY <1>2, <2>2, <2>3, <2>4, FrontKept, BPKept, NetKept DEF IInv, PPInv, PPFlushed
<1> QED BY <1>3, <1>4

LEMMA PPExitInv ==
  ASSUME IInv, NEW p \in Partitions, PPExit(p) PROVE IInv'
<1>1. PPInv'
  BY DEF IInv, PPInv, GateType, PartitionType, PPStates, HandInv, GateInv, PPExit, gateVars
<1>2. BPInv'
  <2>1. CASE pbp[p] # NoSlot
    BY <2>1, UnrefType DEF IInv, PPExit
  <2>2. CASE pbp[p] = NoSlot
    BY <2>2, BPKept DEF IInv, PPExit, bpVars, tableVars
  <2> QED BY <2>1, <2>2
<1> QED BY <1>1, <1>2, FrontKept, SettleKept, NetKept DEF IInv, PPExit, prodVars

-----------------------------------------------------------------------------
(* The steps of a broker producer.                                         *)

LEMMA AddToBufferType ==
  ASSUME BatchType, NEW i \in Slots, NEW m \in Message, AddToBuffer(i, m) PROVE BatchType'
<1>1. m.part \in Partitions /\ buffer[i] \in ProduceSet
  BY MessageType DEF BatchType
<1>2. buffer' \in [Slots -> ProduceSet]
  BY SMT, <1>1 DEF BatchType, AddToBuffer, ProduceSet
<1> QED BY SMT, <1>2 DEF BatchType, AddToBuffer

LEMMA BufferMessageType ==
  ASSUME SettleType, BatchType, NEW i \in Slots, NEW m \in Message, BufferMessage(i, m)
  PROVE  SettleType' /\ BatchType'
<1>1. CASE AddToBuffer(i, m) /\ UNCHANGED settleVars
  BY <1>1, AddToBufferType, SettleKept
<1>2. CASE ReturnError(m) /\ UNCHANGED batchVars
  BY <1>2, ReturnErrorType DEF BatchType, batchVars
<1> QED BY <1>1, <1>2 DEF BufferMessage

(* The invariants about partition producers do not look at sending. *)
LEMMA SendingTaken ==
  ASSUME PPInv, NEW p \in Partitions, sending' = [sending EXCEPT ![p] = NoMsg],
         UNCHANGED <<ppIn, ppc, cur, gateVars, pbp>>
  PROVE  PPInv'
BY DEF PPInv, GateType, PartitionType, HandInv, GateInv, gateVars, MaybeMessage

LEMMA SendBackType ==
  ASSUME SettleType, BPInv, NEW i \in Slots, NEW m \in Message, SendBack(i, m),
         UNCHANGED <<bridgeVars, handling, resp>>
  PROVE  SettleType' /\ BatchType' /\ AnswerType'
<1>1. <<m>> \in Seq(Message)
  BY SMT
<1>2. AnswerType'
  BY <1>1 DEF BPInv, AnswerType, bridgeVars, SendBack
<1> QED BY <1>2, SettleKept DEF BPInv, BatchType, batchVars, SendBack

LEMMA BPReceiveInv ==
  ASSUME IInv, NEW i \in Slots, NEW p \in Partitions, BPReceive(i, p) PROVE IInv'
<1> DEFINE m == sending[p]
<1>1. m \in Message /\ m.part \in Partitions
  BY MessageType DEF IInv, PPInv, PartitionType, MaybeMessage, BPReceive
<1>2. PPInv' /\ FrontInv' /\ NetType'
  BY SendingTaken, FrontKept, NetKept, Zenon DEF IInv, BPReceive
<1>3. /\ UNCHANGED <<brokers, refs, bbroker, closing, abandoned>>
      /\ UNCHANGED <<bridgeVars, handling, resp>>
  BY DEF BPReceive
<1>4. BPInv /\ SettleType
  BY DEF IInv
<1>10. UNCHANGED <<todo, how>> => AnswerType'
  BY <1>3, <1>4 DEF BPInv, AnswerType, bridgeVars
<1> HIDE DEF m
<1>5. CASE ReceiveSyn(i, m)
  <2>1. SettleType'
    BY SMT, <1>4, <1>5 DEF SettleType, ReceiveSyn
  <2>2. BPInv'
    BY <1>3, <1>4, <1>5, <1>10 DEF BPInv, TableType, BatchType, ModeType, batchVars, ReceiveSyn
  <2> QED BY <1>2, <2>1, <2>2 DEF IInv
<1>6. CASE ReceiveRetry(i, m)
  <2>1. SettleType' /\ BatchType' /\ AnswerType'
    BY <1>1, <1>3, <1>4, <1>6, SendBackType DEF ReceiveRetry
  <2>2. BPInv'
    BY <1>1, <1>3, <1>4, <1>6, <2>1 DEF BPInv, TableType, ModeType, ReceiveRetry, SendBack
  <2> QED BY <1>2, <2>1, <2>2 DEF IInv
<1>7. CASE ReceiveFin(i, m)
  <2>1. SettleType' /\ BatchType' /\ AnswerType'
    BY <1>1, <1>3, <1>4, <1>7, SendBackType DEF ReceiveFin
  <2>2. BPInv'
    BY <1>1, <1>3, <1>4, <1>7, <2>1 DEF BPInv, TableType, ModeType, ReceiveFin, SendBack
  <2> QED BY <1>2, <2>1, <2>2 DEF IInv
<1>8. CASE ReceiveFull(i, m)
  <2>1. SettleType'
    BY <1>4, <1>8, SettleKept DEF ReceiveFull
  <2>2. BPInv'
    BY <1>1, <1>3, <1>4, <1>8, <1>10 DEF BPInv, TableType, BatchType, ModeType, batchVars, ReceiveFull, MaybeMessage
  <2> QED BY <1>2, <2>1, <2>2 DEF IInv
<1>9. CASE ReceiveData(i, m)
  <2>1. SettleType' /\ BatchType'
    BY <1>1, <1>4, <1>9, BufferMessageType DEF ReceiveData, BPInv
  <2>2. BPInv'
    BY <1>3, <1>4, <1>9, <1>10, <2>1 DEF BPInv, TableType, ModeType, ReceiveData
  <2> QED BY <1>2, <2>1, <2>2 DEF IInv
<1> QED BY <1>5, <1>6, <1>7, <1>8, <1>9 DEF BPReceive, m

LEMMA BPSpaceInv ==
  ASSUME IInv, NEW i \in Slots, BPSpace(i) PROVE IInv'
<1>1. waitMsg[i] \in Message
  BY DEF IInv, BPInv, BPSpace
<1>2. SettleType' /\ BatchType'
  <2>1. CASE NeedsRetry(i, waitMsg[i])
    BY <1>1, <2>1, RetryMessageType DEF IInv, BPInv, BPSpace, BatchType, batchVars
  <2>2. CASE ~NeedsRetry(i, waitMsg[i])
    BY <1>1, <2>2, BufferMessageType DEF IInv, BPInv, BPSpace
  <2> QED BY <2>1, <2>2
<1>3. BPInv'
  BY <1>2 DEF IInv, BPInv, TableType, ModeType, AnswerType, bridgeVars, handleVars, BPSpace, MaybeMessage
<1> QED BY <1>2, <1>3, FrontKept, PPKept, NetKept DEF IInv, BPSpace

LEMMA BPTimerInv ==
  ASSUME IInv, NEW i \in Slots, BPTimer(i) PROVE IInv'
<1>1. BPInv'
  BY DEF IInv, BPInv, TableType, BatchType, ModeType, AnswerType, tableVars, modeVars, bridgeVars, handleVars, BPTimer
<1> QED BY <1>1, FrontKept, SettleKept, PPKept, NetKept DEF IInv, BPTimer, prodVars

LEMMA FailedType ==
  ASSUME NEW set \in ProduceSet, NEW v \in Verdicts PROVE Failed(set, v) \in Response
BY DEF Failed, Response

(* One of a family of queues grows, or shrinks, at its end or its front. *)
LEMMA QueueAppend ==
  ASSUME NEW S, NEW T, NEW f \in [S -> Seq(T)], NEW i, NEW x \in T
  PROVE  [f EXCEPT ![i] = Append(@, x)] \in [S -> Seq(T)]
<1>1. [f EXCEPT ![i] = Append(@, x)] = [j \in S |-> IF j = i THEN Append(f[j], x) ELSE f[j]]
  BY Zenon
<1>2. \A j \in S : Append(f[j], x) \in Seq(T)
  BY SMT
<1> QED BY <1>1, <1>2, Zenon

LEMMA QueueTail ==
  ASSUME NEW S, NEW T, NEW f \in [S -> Seq(T)], NEW i \in S, f[i] # <<>>
  PROVE  Head(f[i]) \in T /\ [f EXCEPT ![i] = Tail(@)] \in [S -> Seq(T)]
<1>1. f[i] \in Seq(T)
  OBVIOUS
<1>2. Head(f[i]) \in T /\ Tail(f[i]) \in Seq(T)
  BY SMT, <1>1
<1> QED BY <1>2

(* An answer joins the queue of a broker producer. *)
LEMMA AnswerQueued ==
  ASSUME AnswerType, NEW i, NEW r \in Response, UNCHANGED <<bridge, handleVars>>,
         responses' = [responses EXCEPT ![i] = Append(@, r)]
  PROVE  AnswerType'
BY QueueAppend, Zenon DEF AnswerType, bridgeVars, handleVars

LEMMA EmptySetType == EmptySet \in ProduceSet
BY SMT DEF EmptySet, ProduceSet

LEMMA BPFlushInv ==
  ASSUME IInv, NEW i \in Slots, BPFlush(i) PROVE IInv'
<1>1. /\ bridge' = [bridge EXCEPT ![i] = <<buffer[i]>>]
      /\ RollOver(i) /\ UNCHANGED <<prodVars, ppVars, tableVars, modeVars, responses, handleVars, netVars>>
  BY Zenon DEF BPFlush
<1>2. buffer[i] \in ProduceSet
  BY DEF IInv, BPInv, BatchType
<1>3. BatchType'
  <2>1. PICK t \in {"off", "set", "fired", "stale"} : timer' = [timer EXCEPT ![i] = t]
    BY <1>1, Zenon DEF RollOver
  <2> QED BY SMT, <1>1, <2>1, EmptySetType DEF IInv, BPInv, BatchType, RollOver
<1>4. AnswerType'
  BY SMT, <1>1, <1>2 DEF IInv, BPInv, AnswerType, handleVars
<1>5. BPInv'
  BY <1>1, <1>3, <1>4 DEF IInv, BPInv, TableType, ModeType, tableVars, modeVars
<1> QED BY <1>1, <1>5, FrontKept, SettleKept, PPKept, NetKept DEF IInv, prodVars

LEMMA BridgeInv ==
  ASSUME IInv, NEW i \in Slots, Bridge(i) PROVE IInv'
<1> DEFINE set == Head(bridge[i])
<1>1. /\ AsyncProduce(i, set) /\ bridge[i] # <<>> /\ bridge' = [bridge EXCEPT ![i] = <<>>]
      /\ UNCHANGED <<prodVars, ppVars, tableVars, batchVars, modeVars, handleVars, conn, log>>
  BY Zenon DEF Bridge
<1>2. set \in ProduceSet
  BY <1>1, QueueTail DEF IInv, BPInv, AnswerType
<1> HIDE DEF set
<1>3. responses' \in [Slots -> Seq(Response)] /\ wire' \in [Brokers -> Seq(Request)]
  <2>1. CASE wire' = [wire EXCEPT ![bbroker[i]] = Append(@, [bp |-> i, set |-> set])] /\ UNCHANGED responses
    <3>1. [bp |-> i, set |-> set] \in Request
      BY <1>2 DEF Request
    <3>2. \A b, x : x \in Request => [wire EXCEPT ![b] = Append(@, x)] \in [Brokers -> Seq(Request)]
      BY QueueAppend, Zenon DEF IInv, NetType
    <3> QED BY <2>1, <3>1, <3>2 DEF IInv, BPInv, AnswerType
  <2>2. ASSUME NEW v \in {"net", "encoding"},
               responses' = [responses EXCEPT ![i] = Append(@, Failed(set, v))], UNCHANGED wire
        PROVE  responses' \in [Slots -> Seq(Response)] /\ wire' \in [Brokers -> Seq(Request)]
    <3>1. Failed(set, v) \in Response
      BY <1>2, FailedType DEF Verdicts
    <3> QED BY <2>2, <3>1, QueueAppend, Zenon DEF IInv, BPInv, AnswerType, NetType
  <2> QED BY <1>1, <2>1, <2>2, Zenon DEF AsyncProduce
<1>7. bridge' \in [Slots -> Seq(ProduceSet)]
  BY SMT, <1>1 DEF IInv, BPInv, AnswerType
<1>4. AnswerType'
  BY <1>1, <1>3, <1>7 DEF IInv, BPInv, AnswerType, handleVars
<1>5. BPInv'
  BY <1>1, <1>4 DEF IInv, BPInv, TableType, BatchType, ModeType, tableVars, batchVars, modeVars
<1>6. NetType'
  BY <1>1, <1>3 DEF IInv, NetType
<1> QED BY <1>1, <1>5, <1>6, FrontKept, SettleKept, PPKept DEF IInv, prodVars

LEMMA AbandonType ==
  ASSUME BPInv, NEW b, AbandonBrokerConnection(b)
  PROVE  brokers' \in [Brokers -> Slots \cup {NoSlot}] /\ abandoned' \in [Slots -> BOOLEAN]
BY Zenon DEF BPInv, TableType, ModeType, AbandonBrokerConnection

LEMMA BPResponseInv ==
  ASSUME IInv, NEW i \in Slots, BPResponse(i) PROVE IInv'
<1>1. Head(responses[i]) \in Response /\ responses' \in [Slots -> Seq(Response)]
  BY QueueTail DEF IInv, BPInv, AnswerType, BPResponse
<1>2. AnswerType'
  BY <1>1, Zenon DEF IInv, BPInv, AnswerType, BPResponse
<1>3. brokers' \in [Brokers -> Slots \cup {NoSlot}] /\ abandoned' \in [Slots -> BOOLEAN]
  <2>1. AbandonBrokerConnection(bbroker[i]) \/ UNCHANGED <<brokers, abandoned>>
    BY DEF BPResponse
  <2> QED BY <2>1, AbandonType DEF IInv, BPInv, TableType, ModeType
<1>4. BPInv'
  BY <1>2, <1>3 DEF IInv, BPInv, TableType, BatchType, ModeType, batchVars, BPResponse
<1> QED BY <1>4, FrontKept, SettleKept, PPKept, NetKept DEF IInv, BPResponse, prodVars

LEMMA BPCloseInv ==
  ASSUME IInv, NEW i \in Slots, BPClose(i) PROVE IInv'
<1>1. AnswerType' /\ BatchType'
  BY DEF IInv, BPInv, AnswerType, BatchType, batchVars, bridgeVars, BPClose
<1>2. ModeType' /\ NetType'
  BY DEF IInv, BPInv, ModeType, NetType, BPClose
<1>3. BPInv'
  BY <1>1, <1>2 DEF IInv, BPInv, TableType, tableVars, BPClose
<1> QED BY <1>2, <1>3, FrontKept, SettleKept, PPKept DEF IInv, BPClose, prodVars

LEMMA BPPartitionInv ==
  ASSUME IInv, NEW i \in Slots, NEW p \in Partitions, BPPartition(i, p) PROVE IInv'
<1>1. /\ resp[i] \in Response /\ resp[i].set \in ProduceSet /\ buffer[i] \in ProduceSet
      /\ resp[i].set[p] \in Seq(Message) /\ buffer[i][p] \in Seq(Message)
  <2>1. resp \in [Slots -> Response] /\ buffer \in [Slots -> ProduceSet]
    BY DEF IInv, BPInv, AnswerType, BatchType
  <2>2. resp[i] \in Response /\ buffer[i] \in ProduceSet
    BY <2>1
  <2>3. resp[i].set \in ProduceSet
    BY <2>2 DEF Response
  <2> QED BY <2>2, <2>3 DEF ProduceSet
<1>2. resp' \in [Slots -> Response]
  <2>1. [resp[i].set EXCEPT ![p] = <<>>] \in ProduceSet
    BY SMT, <1>1 DEF ProduceSet
  <2>2. [resp[i] EXCEPT !.set = [resp[i].set EXCEPT ![p] = <<>>]] \in Response
    BY <1>1, <2>1 DEF Response
  <2>3. resp' = [resp EXCEPT ![i] = [resp[i] EXCEPT !.set = [resp[i].set EXCEPT ![p] = <<>>]]]
    BY DEF BPPartition, IInv, BPInv, AnswerType
  <2> QED BY <2>2, <2>3 DEF IInv, BPInv, AnswerType
<1>3. BatchType' /\ retrying' \in [Slots -> SUBSET Partitions] /\ todo' \in [Slots -> Seq(Message)]
  <2>1. CASE Retriable(resp[i].verdict[p])
    <3>1. /\ retrying' = [retrying EXCEPT ![i] = @ \cup {p}]
          /\ todo' = [todo EXCEPT ![i] = resp[i].set[p] \o buffer[i][p]]
          /\ buffer' = [buffer EXCEPT ![i][p] = <<>>]
          /\ count' = [count EXCEPT ![i] = @ - Len(buffer[i][p])] /\ timer' = timer
      BY <2>1, Zenon DEF BPPartition
    <3>2. resp[i].set[p] \o buffer[i][p] \in Seq(Message) /\ Len(buffer[i][p]) \in Int
      BY SMT, <1>1
    <3>3. BatchType'
      BY <1>1, <3>1, <3>2, SMTT(20) DEF IInv, BPInv, BatchType, ProduceSet
    <3> QED BY <3>1, <3>2, <3>3 DEF IInv, BPInv, ModeType, AnswerType
  <2>2. CASE ~Retriable(resp[i].verdict[p])
    BY <1>1, <2>2, Zenon DEF BPPartition, IInv, BPInv, BatchType, ModeType, AnswerType
  <2> QED BY <2>1, <2>2
<1>4. AnswerType'
  BY <1>2, <1>3 DEF IInv, BPInv, AnswerType, bridgeVars, BPPartition
<1>5. brokers' \in [Brokers -> Slots \cup {NoSlot}] /\ abandoned' \in [Slots -> BOOLEAN]
  <2>1. AbandonBrokerConnection(bbroker[i]) \/ UNCHANGED <<brokers, abandoned>>
    BY DEF BPPartition
  <2> QED BY <2>1, AbandonType DEF IInv, BPInv, TableType, ModeType
<1>6. BPInv'
  BY <1>3, <1>4, <1>5 DEF IInv, BPInv, TableType, ModeType, BPPartition
<1> QED BY <1>6, FrontKept, SettleKept, PPKept, NetKept DEF IInv, BPPartition, prodVars

LEMMA BPBufferedInv ==
  ASSUME IInv, NEW i \in Slots, NEW p \in Partitions, BPBuffered(i, p) PROVE IInv'
<1>1. buffer[i] \in ProduceSet /\ buffer[i][p] \in Seq(Message) /\ Len(buffer[i][p]) \in Int
  BY SMT DEF IInv, BPInv, BatchType, ProduceSet
<1>2. BatchType'
  BY <1>1, SMTT(20) DEF IInv, BPInv, BatchType, ProduceSet, BPBuffered
<1>3. AnswerType'
  BY <1>1 DEF IInv, BPInv, AnswerType, bridgeVars, BPBuffered
<1>4. BPInv'
  BY <1>2, <1>3 DEF IInv, BPInv, TableType, ModeType, tableVars, modeVars, BPBuffered
<1> QED BY <1>4, FrontKept, SettleKept, PPKept, NetKept DEF IInv, BPBuffered, prodVars

LEMMA BPSettleInv ==
  ASSUME IInv, NEW i \in Slots, BPSettle(i) PROVE IInv'
<1>1. Head(todo[i]) \in Message /\ todo' \in [Slots -> Seq(Message)]
  BY QueueTail DEF IInv, BPInv, AnswerType, BPSettle
<1>2. SettleType'
  <2>1. how[i] \in {"ok", "fail", "retry"}
    BY DEF IInv, BPInv, AnswerType
  <2>2. ReturnSuccess(Head(todo[i])) \/ ReturnError(Head(todo[i])) \/ RetryMessage(Head(todo[i]))
    BY <2>1, Zenon DEF BPSettle
  <2> QED BY <1>1, <2>2, ReturnSuccessType, ReturnErrorType, RetryMessageType DEF IInv
<1>3. BPInv'
  BY <1>1 DEF IInv, BPInv, TableType, BatchType, ModeType, AnswerType, tableVars, batchVars, modeVars, bridgeVars, BPSettle
<1> QED BY <1>2, <1>3, FrontKept, PPKept, NetKept DEF IInv, BPSettle

LEMMA BPHandledInv ==
  ASSUME IInv, NEW i \in Slots, BPHandled(i) PROVE IInv'
<1>1. NoResponse \in Response
  BY EmptySetType DEF NoResponse, Response, Verdicts
<1>2. AnswerType'
  BY <1>1 DEF IInv, BPInv, AnswerType, bridgeVars, BPHandled
<1>3. BatchType'
  <2>1. timer[i] \in {"off", "set", "fired", "stale"}
    BY DEF IInv, BPInv, BatchType
  <2>2. PICK t \in {"off", "set", "fired", "stale"} : timer' = [timer EXCEPT ![i] = t]
    BY <2>1, Zenon DEF BPHandled
  <2> QED BY <2>2 DEF IInv, BPInv, BatchType, BPHandled
<1>4. BPInv'
  BY <1>2, <1>3 DEF IInv, BPInv, TableType, ModeType, tableVars, modeVars, BPHandled
<1> QED BY <1>4, FrontKept, SettleKept, PPKept, NetKept DEF IInv, BPHandled, prodVars

(* The three steps of brokerProducer.shutdown. *)
LEMMA BPStopInv ==
  ASSUME IInv, NEW i \in Slots, BPShutdown(i) \/ BPCloseOutput(i) \/ BPExit(i) PROVE IInv'
<1>1. BPInv' /\ UNCHANGED <<prodVars, ppVars, netVars>>
  <2>1. CASE BPShutdown(i)
    BY <2>1 DEF IInv, BPInv, TableType, BatchType, ModeType, AnswerType, batchVars, modeVars, bridgeVars, handleVars, BPShutdown
  <2>2. CASE BPCloseOutput(i)
    BY <2>2 DEF IInv, BPInv, TableType, BatchType, ModeType, AnswerType, batchVars, modeVars, bridgeVars, handleVars, BPCloseOutput
  <2>3. CASE BPExit(i)
    BY <2>3, Zenon DEF IInv, BPInv, TableType, BatchType, ModeType, AnswerType, bridgeVars, handleVars, BPExit
  <2> QED BY <2>1, <2>2, <2>3
<1> QED BY <1>1, FrontKept, SettleKept, PPKept, NetKept DEF IInv, prodVars

-----------------------------------------------------------------------------
(* The steps of the network.                                               *)

LEMMA AppendToLogType ==
  ASSUME NetType, NEW set \in ProduceSet, NEW parts, AppendToLog(set, parts)
  PROVE  log' \in [Partitions -> Seq(Ids)]
<1>1. \A p \in Partitions : set[p] \in Seq(Message)
  BY DEF ProduceSet
<1>2. ASSUME NEW p \in Partitions PROVE [k \in DOMAIN set[p] |-> set[p][k].id] \in Seq(Ids)
  <2>1. Len(set[p]) \in Nat /\ DOMAIN set[p] = 1..Len(set[p])
    BY SMT, <1>1
  <2>2. \A k \in DOMAIN set[p] : set[p][k] \in Message
    BY SMT, <1>1
  <2>3. \A k \in DOMAIN set[p] : set[p][k].id \in Ids
    BY <2>2, MessageType
  <2> DEFINE s == set[p]
             f == [k \in DOMAIN s |-> s[k].id]
  <2>4. f \in [1..Len(s) -> Ids]
    BY <2>1, <2>3
  <2> HIDE DEF s, f
  <2>5. f \in Seq(Ids)
    BY SMT, <2>1, <2>4 DEF s
  <2> QED BY <2>5 DEF s, f
<1>3. \A p \in Partitions : log[p] \o [k \in DOMAIN set[p] |-> set[p][k].id] \in Seq(Ids)
  BY SMT, <1>2 DEF NetType
<1> QED BY <1>3 DEF AppendToLog, NetType

LEMMA BrokerRespondInv ==
  ASSUME IInv, NEW b \in Brokers, BrokerRespond(b) PROVE IInv'
<1> DEFINE set == Head(wire[b]).set
           i == Head(wire[b]).bp
           answers == {"ok"} \cup ({"retriable", "fatal", "missing"} \cap Faults)
<1>1. Head(wire[b]) \in Request /\ wire' \in [Brokers -> Seq(Request)]
  BY QueueTail DEF IInv, NetType, BrokerRespond
<1>2. set \in ProduceSet
  BY <1>1 DEF Request
<1>3. PICK v \in [PartitionsOf(set) -> answers] :
        \E kept \in SUBSET {p \in PartitionsOf(set) : v[p] = "retriable" /\ "appended" \in Faults} :
            /\ AppendToLog(set, kept \cup {p \in PartitionsOf(set) : v[p] = "ok"})
            /\ responses' = [responses EXCEPT ![i] = Append(@,
                 [set |-> set,
                  verdict |-> [p \in Partitions |-> IF p \in PartitionsOf(set) THEN v[p] ELSE "ok"]])]
  BY Zenon DEF BrokerRespond
<1> DEFINE r == [set |-> set,
                 verdict |-> [p \in Partitions |-> IF p \in PartitionsOf(set) THEN v[p] ELSE "ok"]]
<1>4. r \in Response
  <2>1. answers \subseteq Verdicts
    BY DEF Verdicts
  <2>2. \A p \in PartitionsOf(set) : v[p] \in Verdicts
    BY <2>1
  <2>3. [p \in Partitions |-> IF p \in PartitionsOf(set) THEN v[p] ELSE "ok"] \in [Partitions -> Verdicts]
    BY <2>2 DEF Verdicts
  <2> QED BY <1>2, <2>3 DEF Response
<1>5. responses' = [responses EXCEPT ![i] = Append(@, r)]
  BY <1>3
<1>6. log' \in [Partitions -> Seq(Ids)]
  BY <1>2, <1>3, AppendToLogType DEF IInv
<1> HIDE DEF set, i, answers, r
<1>7. AnswerType'
  BY <1>4, <1>5, AnswerQueued, Zenon DEF IInv, BPInv, BrokerRespond
<1>8. BPInv'
  BY <1>7 DEF IInv, BPInv, TableType, BatchType, ModeType, tableVars, batchVars, modeVars, BrokerRespond
<1>9. NetType'
  BY <1>1, <1>6 DEF IInv, NetType, BrokerRespond
<1> QED BY <1>8, <1>9, FrontKept, SettleKept, PPKept DEF IInv, BrokerRespond, prodVars

LEMMA ConnectionFailInv ==
  ASSUME IInv, NEW b \in Brokers, ConnectionFail(b) PROVE IInv'
<1>1. NetType'
  BY DEF IInv, NetType, ConnectionFail
<1> QED BY <1>1, FrontKept, SettleKept, PPKept, BPKept DEF IInv, ConnectionFail, prodVars

LEMMA DeadResponseInv ==
  ASSUME IInv, NEW b \in Brokers, DeadResponse(b) PROVE IInv'
<1>1. Head(wire[b]) \in Request /\ wire' \in [Brokers -> Seq(Request)]
  BY QueueTail DEF IInv, NetType, DeadResponse
<1>2. Head(wire[b]).set \in ProduceSet
  BY <1>1 DEF Request
<1>3. Failed(Head(wire[b]).set, "net") \in Response
  BY <1>2, FailedType DEF Verdicts
<1>4. log' \in [Partitions -> Seq(Ids)]
  BY <1>2, AppendToLogType DEF IInv, DeadResponse
<1>5. AnswerType'
  BY <1>3, AnswerQueued, Zenon DEF IInv, BPInv, DeadResponse
<1>6. BPInv'
  BY <1>5 DEF IInv, BPInv, TableType, BatchType, ModeType, tableVars, batchVars, modeVars, DeadResponse
<1>7. NetType'
  BY <1>1, <1>4 DEF IInv, NetType, DeadResponse
<1> QED BY <1>6, <1>7, FrontKept, SettleKept, PPKept DEF IInv, DeadResponse, prodVars

-----------------------------------------------------------------------------
(* The invariant is inductive.                                             *)

LEMMA DispatcherInv == ASSUME IInv, Dispatcher PROVE IInv'
BY RetryForwardInv, DispatchRejectInv, DispatchRefuseInv, ClosingInv, DispatchRouteInv DEF Dispatcher

LEMMA PartitionProducerInv ==
  ASSUME IInv, NEW p \in Partitions, PartitionProducer(p) PROVE IInv'
BY PPStartInv, PPAbandonInv, PPTakeInv, PPLeaderInv, PPNewHighWatermarkInv, PPUnrefInv, PPSendInv,
   PPFlushLeaderInv, PPFlushSendInv, PPFlushDropInv, PPFlushedInv, PPExitInv DEF PartitionProducer

LEMMA BrokerProducerInv ==
  ASSUME IInv, NEW i \in Slots, BrokerProducer(i) PROVE IInv'
BY BPReceiveInv, BPPartitionInv, BPBufferedInv, BPSpaceInv, BPTimerInv, BPFlushInv, BPResponseInv, BPCloseInv,
   BPSettleInv, BPHandledInv, BPStopInv DEF BrokerProducer

LEMMA NetworkInv == ASSUME IInv, NEW b \in Brokers, Network(b) PROVE IInv'
BY BrokerRespondInv, ConnectionFailInv, DeadResponseInv DEF Network

LEMMA StutterInv == ASSUME IInv, UNCHANGED vars PROVE IInv'
BY FrontKept, SettleKept, PPKept, BPKept, NetKept DEF IInv, vars, prodVars

LEMMA NextInv == ASSUME IInv, [Next]_vars PROVE IInv'
<1>1. CASE UserSend
  BY <1>1, UserSendInv
<1>2. CASE AsyncClose \/ ShutdownComplete
  BY <1>2, ClosingInv
<1>3. CASE Dispatcher
  BY <1>3, DispatcherInv
<1>4. CASE \E p \in Partitions : PartitionProducer(p)
  BY <1>4, PartitionProducerInv
<1>5. CASE \E i \in Slots : BrokerProducer(i) \/ Bridge(i)
  BY <1>5, BrokerProducerInv, BridgeInv
<1>6. CASE \E b \in Brokers : Network(b)
  BY <1>6, NetworkInv
<1>7. CASE Terminated \/ UNCHANGED vars
  BY <1>7, StutterInv DEF Terminated
<1> QED BY <1>1, <1>2, <1>3, <1>4, <1>5, <1>6, <1>7 DEF Next

LEMMA Inductive == Spec => []IInv
<1>1. Init => IInv
  BY InitInv
<1>2. IInv /\ [Next]_vars => IInv'
  BY NextInv
<1> QED BY <1>1, <1>2, PTL DEF Spec

(* Whatever the configuration, no step of the producer gives a message a   *)
(* retry count beyond Retry.Max or moves a watermark out of retryState.    *)
THEOREM TypeCorrect == Spec => []TypeOK
<1>1. IInv => TypeOK
  BY IInvImplies
<1> QED BY <1>1, Inductive, PTL

(* Whatever the configuration, partitionProducer.dispatch and              *)
(* flushRetryBuffers keep the watermark gate: a level above the watermark  *)
(* is empty and expects no fin, the level of the watermark buffers nothing *)
(* and expects one, and only levels below it hold messages back.           *)
THEOREM GateHolds == Spec => []WatermarkGate
<1>1. IInv => WatermarkGate
  BY IInvImplies
<1> QED BY <1>1, Inductive, PTL
=============================================================================
