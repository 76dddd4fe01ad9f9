------------------------- MODULE SyncProducerProofs -------------------------
(***************************************************************************)
(* The synchronous producer, for any number of callers, messages and       *)
(* partitions and any lists: a call returns the results of its own         *)
(* messages, and neither a caller nor the goroutines that hand out the     *)
(* answers can be left waiting.                                            *)
(*                                                                         *)
(* The inductive invariant follows one message through a call: behind put  *)
(* it is new, between taken and put it is with the asynchronous producer,  *)
(* in one of its two channels or in its own channel, and before taken its  *)
(* result is among the errors exactly if it failed.                        *)
(***************************************************************************)
EXTENDS SyncProducer, TLAPS

(* Most leaves are first-order; those that need arithmetic cite SMT. *)
USE ZenonT(30)

Done == {"succeeded", "failed"}
Calls ==
  [st : {"idle", "running", "returned"}, msgs : Seq(Messages), put : Nat, taken : Nat,
   errors : SUBSET Messages]

SyncTypeOK ==
  /\ status \in [Messages -> {"new", "pending"} \cup Done]
  /\ log \in [Partitions -> Seq(Messages)]
  /\ closed \in BOOLEAN
  /\ out \in SUBSET Messages
  /\ expectation \in [Messages -> {"unset", "empty", "nil", "err"}]
  /\ call \in [Callers -> Calls]
  /\ closing \in {"no", "waiting", "returned"}

\* Where a message is.
IsNew(m) == status[m] = "new" /\ m \notin out
AtProducer(m) == status[m] = "pending" /\ m \notin out /\ expectation[m] = "empty"
InOutput(m) == status[m] \in Done /\ m \in out /\ expectation[m] = "empty"
IsGone(m) == status[m] \in Done /\ m \notin out
InChannel(m) ==
  IsGone(m) /\ expectation[m] = IF status[m] = "succeeded" THEN "nil" ELSE "err"

Positions(c) == 1..Len(call[c].msgs)
Msg(c, k) == call[c].msgs[k]

\* The bookkeeping of a call.
Counted(c) ==
  /\ call[c].taken <= call[c].put /\ call[c].put <= Len(call[c].msgs)
  /\ call[c].st = "idle" => call[c].msgs = <<>>
  /\ call[c].st = "returned" => call[c].taken = Len(call[c].msgs)
  /\ closing # "no" => call[c].put = Len(call[c].msgs)

\* Where the k-th message of a call is.
Placed(c, k) ==
  /\ k > call[c].put => IsNew(Msg(c, k))
  /\ k > call[c].taken /\ k <= call[c].put =>
       AtProducer(Msg(c, k)) \/ InOutput(Msg(c, k)) \/ InChannel(Msg(c, k))
  /\ k <= call[c].taken => IsGone(Msg(c, k))
  /\ Msg(c, k) \in call[c].errors <=> k <= call[c].taken /\ status[Msg(c, k)] = "failed"

\* No message is passed twice.
PassedOnce ==
  \A c, d \in Callers : \A j \in Positions(c), k \in Positions(d) :
    Msg(c, j) = Msg(d, k) => c = d /\ j = k

\* A message nobody has passed is new.
Unpassed ==
  \A m \in Messages : (\A c \in Callers : \A k \in Positions(c) : Msg(c, k) # m) => IsNew(m)

InLog(m) == \E p \in Partitions : \E k \in 1..Len(log[p]) : log[p][k] = m

Settled ==
  /\ \A m \in Messages : IsNew(m) \/ AtProducer(m) \/ InOutput(m) \/ IsGone(m)
  /\ \A m \in Messages : status[m] = "succeeded" => InLog(m)
  /\ closed => \A m \in Messages : status[m] # "pending"
  /\ closing = "returned" => closed /\ out = {}

IInv ==
  /\ SyncTypeOK /\ PassedOnce /\ Unpassed /\ Settled
  /\ \A c \in Callers : Counted(c) /\ \A k \in Positions(c) : Placed(c, k)

-----------------------------------------------------------------------------

LEMMA InitIInv == Init => IInv
<1> SUFFICES ASSUME Init PROVE IInv
  OBVIOUS
<1>1. SyncTypeOK
  <2>1. NoCall \in Calls
    BY SMT DEF NoCall, NewCall, Calls
  <2>2. log \in [Partitions -> Seq(Messages)]
    BY SMT DEF Init, Async!Init
  <2> QED
    BY <2>1, <2>2 DEF Init, Async!Init, SyncTypeOK
<1>2. \A c \in Callers : call[c] = NoCall
  BY DEF Init
<1>3. \A c \in Callers : Positions(c) = {}
  BY SMT, <1>2 DEF Positions, NoCall, NewCall
<1>4. \A m \in Messages : IsNew(m)
  BY DEF Init, Async!Init, IsNew
<1>5. Settled
  BY <1>4 DEF Settled, IsNew, Init, Async!Init
<1>6. \A c \in Callers : Counted(c)
  BY SMT, <1>2 DEF Counted, NoCall, NewCall, Init
<1> QED
  BY <1>1, <1>3, <1>4, <1>5, <1>6 DEF IInv, PassedOnce, Unpassed

\* What a call is made of.
LEMMA CallParts ==
  ASSUME SyncTypeOK, NEW c \in Callers
  PROVE  /\ call[c] \in Calls
         /\ call[c].msgs \in Seq(Messages) /\ call[c].put \in Nat /\ call[c].taken \in Nat
         /\ call[c].errors \subseteq Messages /\ Len(call[c].msgs) \in Nat
         /\ \A k \in Positions(c) : k \in Nat /\ Msg(c, k) \in Messages
<1>1. call[c] \in Calls
  BY DEF SyncTypeOK
<1>2. call[c].msgs \in Seq(Messages)
  BY <1>1 DEF Calls
<1> QED
  BY SMT, <1>1, <1>2 DEF Calls, Positions, Msg

LEMMA BeginInv ==
  ASSUME IInv, NEW c \in Callers, NEW b \in Batches, Begin(c, b) PROVE IInv'
<1> DEFINE new == [st |-> "running", msgs |-> b, put |-> 0, taken |-> 0, errors |-> {}]
<1>1. /\ b \in Seq(Messages) /\ Len(b) \in Nat
      /\ \A k \in 1..Len(b) : b[k] \in Messages
      /\ \A j, k \in 1..Len(b) : b[j] = b[k] => j = k
  BY SMT, BatchesAssumption
<1>2. /\ call' = [call EXCEPT ![c] = new]
      /\ UNCHANGED <<status, log, closed, out, expectation, closing>>
      /\ closing = "no" /\ call[c].msgs = <<>>
  BY DEF Begin, NewCall, async, IInv, Counted
<1>3. new \in Calls
  BY <1>1 DEF Calls
<1>4. SyncTypeOK'
  BY <1>2, <1>3 DEF IInv, SyncTypeOK
<1>5. call'[c] = new /\ \A d \in Callers \ {c} : call'[d] = call[d]
  BY <1>2 DEF IInv, SyncTypeOK
<1>6. Positions(c) = {} /\ Positions(c)' = 1..Len(b) /\ \A k \in 1..Len(b) : Msg(c, k)' = b[k]
  BY SMT, <1>2, <1>5 DEF Positions, Msg
<1>7. \A d \in Callers \ {c} : Positions(d)' = Positions(d) /\ \A k : Msg(d, k)' = Msg(d, k)
  BY <1>5 DEF Positions, Msg
<1>8. \A d \in Callers : \A j \in 1..Len(b), k \in Positions(d) : b[j] # Msg(d, k)
  <2> SUFFICES ASSUME NEW d \in Callers, NEW j \in 1..Len(b), NEW k \in Positions(d), b[j] = Msg(d, k)
               PROVE  FALSE
    OBVIOUS
  <2>1. b[j] \in ToSet(b)
    BY SMT, <1>1 DEF ToSet
  <2>2. call[d].msgs \in Seq(Messages)
    BY CallParts DEF IInv
  <2>3. Msg(d, k) \in ToSet(call[d].msgs)
    BY SMT, <2>2 DEF ToSet, Msg, Positions
  <2> QED BY <2>1, <2>3 DEF Begin
<1>9. PassedOnce'
  BY SMT, <1>1, <1>6, <1>7, <1>8 DEF PassedOnce, IInv
<1>10. \A m : IsNew(m)' = IsNew(m) /\ AtProducer(m)' = AtProducer(m) /\ InOutput(m)' = InOutput(m)
             /\ IsGone(m)' = IsGone(m) /\ InChannel(m)' = InChannel(m)
  BY <1>2 DEF IsNew, AtProducer, InOutput, IsGone, InChannel
<1>11. Unpassed'
  BY <1>6, <1>7, <1>10 DEF Unpassed, IInv
<1>12. Settled'
  BY <1>2, <1>10 DEF Settled, IInv, InLog
<1>13. Counted(c)' /\ \A k \in Positions(c)' : Placed(c, k)'
  <2>1. Counted(c)'
    BY SMT, <1>1, <1>2, <1>5 DEF Counted
  <2>2. \A k \in 1..Len(b) : IsNew(b[k])
    BY <1>1, <1>8 DEF IInv, Unpassed
  <2> QED
    BY SMT, <2>1, <2>2, <1>2, <1>5, <1>6, <1>10 DEF Placed, Msg, IsNew
<1>14. \A d \in Callers \ {c} : Counted(d)' /\ \A k \in Positions(d)' : Placed(d, k)'
  BY SMT, <1>2, <1>5, <1>7, <1>10 DEF Counted, Placed, IInv
<1> QED
  BY <1>4, <1>9, <1>11, <1>12, <1>13, <1>14 DEF IInv

\* A step that moves one message on from the asynchronous producer or its outputs and
\* leaves the calls alone.
LEMMA MessageMoves ==
  ASSUME IInv, NEW m \in Messages, UNCHANGED <<call, closing>>,
         \A n \in Messages \ {m} : status'[n] = status[n] /\ expectation'[n] = expectation[n]
                                   /\ (n \in out' <=> n \in out),
         AtProducer(m) \/ InOutput(m), InOutput(m)' \/ InChannel(m)'
  PROVE  /\ PassedOnce' /\ Unpassed'
         /\ \A c \in Callers : Counted(c)' /\ \A k \in Positions(c)' : Placed(c, k)'
<1>1. ~IsNew(m) /\ ~IsGone(m) /\ ~IsNew(m)'
  BY DEF AtProducer, InOutput, InChannel, IsNew, IsGone, Done
<1>2. \A n \in Messages \ {m} :
        /\ IsNew(n)' = IsNew(n) /\ AtProducer(n)' = AtProducer(n) /\ InOutput(n)' = InOutput(n)
        /\ IsGone(n)' = IsGone(n) /\ InChannel(n)' = InChannel(n)
  BY DEF IsNew, AtProducer, InOutput, IsGone, InChannel
<1>3. \A c \in Callers : Positions(c)' = Positions(c) /\ \A k : Msg(c, k)' = Msg(c, k)
  BY DEF Positions, Msg
<1>4. PassedOnce'
  BY SMT, <1>3 DEF PassedOnce, IInv
<1>5. Unpassed'
  <2> SUFFICES ASSUME NEW n \in Messages, \A c \in Callers : \A k \in Positions(c) : Msg(c, k) # n
               PROVE  IsNew(n)'
    BY <1>3 DEF Unpassed
  <2>1. IsNew(n)
    BY DEF IInv, Unpassed
  <2> QED BY <2>1, <1>1, <1>2
<1>6. ASSUME NEW c \in Callers PROVE Counted(c)'
  BY DEF Counted, IInv
<1>7. ASSUME NEW c \in Callers, NEW k \in Positions(c) PROVE Placed(c, k)'
  <2>1. Placed(c, k) /\ Msg(c, k) \in Messages /\ k \in Nat /\ call[c].taken \in Nat /\ call[c].put \in Nat
    BY CallParts DEF IInv
  <2>2. CASE Msg(c, k) = m
    <3>1. k > call[c].taken /\ k <= call[c].put /\ m \notin call[c].errors
      BY SMT, <1>1, <2>1, <2>2 DEF Placed
    <3> QED BY SMT, <2>1, <2>2, <3>1, <1>3 DEF Placed
  <2>3. CASE Msg(c, k) # m
    BY <2>1, <2>3, <1>2, <1>3 DEF Placed
  <2> QED BY <2>2, <2>3
<1> QED
  BY <1>3, <1>4, <1>5, <1>6, <1>7

LEMMA AnswerComesInv ==
  ASSUME IInv, NEW m \in Messages, AnswerComes(m) PROVE IInv'
<1>1. /\ status[m] = "pending" /\ ~closed
      /\ \/ status' = [status EXCEPT ![m] = "succeeded"] /\ InLog(m)
         \/ status' = [status EXCEPT ![m] = "failed"]
      /\ out' = out \cup {m}
      /\ UNCHANGED <<log, closed, expectation, call, closing>>
  <2>1. log \in [Partitions -> Seq(Messages)]
    BY DEF IInv, SyncTypeOK
  <2>2. \A p \in Partitions : DOMAIN log[p] = 1..Len(log[p])
    BY SMT, <2>1
  <2> QED BY <2>2 DEF AnswerComes, Async!Succeed, Async!Fail, InLog
<1>2. AtProducer(m)
  BY <1>1 DEF IInv, Settled, IsNew, AtProducer, InOutput, IsGone, Done
<1>3. SyncTypeOK'
  BY <1>1 DEF IInv, SyncTypeOK, Done
<1>4. status'[m] \in Done /\ \A n \in Messages \ {m} : status'[n] = status[n]
  BY <1>1 DEF IInv, SyncTypeOK, Done
<1>5. InOutput(m)'
  BY <1>1, <1>2, <1>4 DEF InOutput, AtProducer
<1>6. /\ PassedOnce' /\ Unpassed'
      /\ \A c \in Callers : Counted(c)' /\ \A k \in Positions(c)' : Placed(c, k)'
  BY <1>1, <1>2, <1>4, <1>5, MessageMoves
<1>7. Settled'
  <2>1. \A n \in Messages \ {m} :
          /\ IsNew(n)' = IsNew(n) /\ AtProducer(n)' = AtProducer(n)
          /\ InOutput(n)' = InOutput(n) /\ IsGone(n)' = IsGone(n)
    BY <1>1, <1>4 DEF IsNew, AtProducer, InOutput, IsGone
  <2>2. \A n \in Messages : IsNew(n)' \/ AtProducer(n)' \/ InOutput(n)' \/ IsGone(n)'
    BY <2>1, <1>5 DEF IInv, Settled
  <2>3. \A n \in Messages : status'[n] = "succeeded" => InLog(n)'
    BY SMT, <1>1, <1>4 DEF IInv, Settled, InLog, SyncTypeOK
  <2> QED BY <2>2, <2>3, <1>1 DEF IInv, Settled
<1> QED BY <1>3, <1>6, <1>7 DEF IInv

LEMMA HandleInv ==
  ASSUME IInv, NEW m \in Messages, Handle(m) PROVE IInv'
<1>1. /\ m \in out
      /\ expectation' = [expectation EXCEPT ![m] = IF status[m] = "succeeded" THEN "nil" ELSE "err"]
      /\ out' = out \ {m}
      /\ UNCHANGED <<status, log, closed, call, closing>>
  BY DEF Handle, async
<1>2. InOutput(m)
  BY <1>1 DEF IInv, Settled, IsNew, AtProducer, InOutput, IsGone
<1>3. SyncTypeOK'
  BY <1>1 DEF IInv, SyncTypeOK
<1>4. \A n \in Messages \ {m} : expectation'[n] = expectation[n] /\ (n \in out' <=> n \in out)
  BY <1>1 DEF IInv, SyncTypeOK
<1>5. InChannel(m)'
  BY <1>1, <1>2 DEF InOutput, InChannel, IsGone, IInv, SyncTypeOK
<1>6. /\ PassedOnce' /\ Unpassed'
      /\ \A c \in Callers : Counted(c)' /\ \A k \in Positions(c)' : Placed(c, k)'
  BY <1>1, <1>2, <1>4, <1>5, MessageMoves
<1>7. Settled'
  <2>1. \A n \in Messages \ {m} :
          /\ IsNew(n)' = IsNew(n) /\ AtProducer(n)' = AtProducer(n)
          /\ InOutput(n)' = InOutput(n) /\ IsGone(n)' = IsGone(n)
    BY <1>1, <1>4 DEF IsNew, AtProducer, InOutput, IsGone
  <2>2. \A n \in Messages : IsNew(n)' \/ AtProducer(n)' \/ InOutput(n)' \/ IsGone(n)'
    BY <2>1, <1>5 DEF IInv, Settled, InChannel
  <2> QED BY <2>2, <1>1 DEF IInv, Settled, InLog
<1> QED BY <1>3, <1>6, <1>7 DEF IInv

\* Two positions that hold the same message are the same position.
LEMMA PassedApart ==
  ASSUME PassedOnce, NEW c \in Callers, NEW d \in Callers,
         NEW j \in Positions(c), NEW k \in Positions(d), ~(d = c /\ k = j)
  PROVE  Msg(d, k) # Msg(c, j)
BY DEF PassedOnce

LEMMA PutInv ==
  ASSUME IInv, NEW c \in Callers, Put(c) PROVE IInv'
<1>0. PICK j \in Nat, m \in Messages :
        j = call[c].put + 1 /\ m = Msg(c, j) /\ j \in Positions(c)
  <2>1. call[c].put + 1 \in Nat /\ call[c].put + 1 \in Positions(c)
    BY SMT, CallParts DEF IInv, Put, Positions
  <2>2. Msg(c, call[c].put + 1) \in Messages
    BY <2>1, CallParts DEF IInv
  <2> QED BY <2>1, <2>2
<1>1. /\ call[c] \in Calls /\ call[c].put \in Nat /\ call[c].taken \in Nat
      /\ Counted(c) /\ Placed(c, j)
  BY <1>0, CallParts DEF IInv
<1>2. /\ expectation' = [expectation EXCEPT ![m] = "empty"]
      /\ status' = [status EXCEPT ![m] = "pending"]
      /\ call' = [call EXCEPT ![c] = [call[c] EXCEPT !.put = j]]
      /\ ~closed /\ call[c].st = "running"
      /\ UNCHANGED <<log, closed, out, closing>>
  BY <1>0 DEF Put, Async!Take, Msg
<1>3. IsNew(m)
  BY SMT, <1>0, <1>1 DEF Placed
<1>4. /\ call'[c] = [call[c] EXCEPT !.put = j]
      /\ \A d \in Callers \ {c} : call'[d] = call[d]
  BY <1>2 DEF IInv, SyncTypeOK
<1>4a. [call[c] EXCEPT !.put = j] \in Calls
  BY <1>1 DEF Calls
<1>5. SyncTypeOK'
  BY <1>0, <1>1, <1>2, <1>4, <1>4a DEF IInv, SyncTypeOK
<1>6. /\ call'[c].msgs = call[c].msgs /\ call'[c].put = j /\ call'[c].taken = call[c].taken
      /\ call'[c].errors = call[c].errors /\ call'[c].st = call[c].st
  BY <1>0, <1>1, <1>4 DEF Calls
<1>7. \A d \in Callers : Positions(d)' = Positions(d) /\ \A k : Msg(d, k)' = Msg(d, k)
  BY <1>4, <1>6 DEF Positions, Msg
<1>8. AtProducer(m)' /\ ~IsNew(m)'
  BY <1>0, <1>1, <1>2, <1>3 DEF AtProducer, IsNew, IInv, SyncTypeOK
<1>9. \A n \in Messages \ {m} :
        /\ IsNew(n)' = IsNew(n) /\ AtProducer(n)' = AtProducer(n) /\ InOutput(n)' = InOutput(n)
        /\ IsGone(n)' = IsGone(n) /\ InChannel(n)' = InChannel(n) /\ status'[n] = status[n]
  BY <1>2 DEF IsNew, AtProducer, InOutput, IsGone, InChannel, IInv, SyncTypeOK
<1>10a. PassedOnce
  BY DEF IInv
<1>10. PassedOnce'
  BY SMT, <1>7, <1>10a DEF PassedOnce
<1>11. Unpassed'
  BY SMT, <1>0, <1>1, <1>7, <1>9 DEF Unpassed, IInv
<1>12. Settled'
  <2>1. \A n \in Messages : IsNew(n)' \/ AtProducer(n)' \/ InOutput(n)' \/ IsGone(n)'
    BY <1>8, <1>9 DEF IInv, Settled
  <2>2. \A n \in Messages : status'[n] = "succeeded" => InLog(n)'
    BY SMT, <1>2, <1>9 DEF IInv, Settled, InLog, SyncTypeOK
  <2>3. closing = "returned" => closed /\ out = {}
    BY DEF IInv, Settled
  <2> QED BY <2>1, <2>2, <2>3, <1>2 DEF Settled
<1>13. ASSUME NEW d \in Callers PROVE Counted(d)'
  <2>1. Counted(d)
    BY DEF IInv
  <2>2. CASE d = c
    BY SMT, <2>1, <2>2, <1>0, <1>1, <1>2, <1>6 DEF Counted, Positions
  <2>3. CASE d # c
    BY <2>1, <2>3, <1>2, <1>4 DEF Counted
  <2> QED BY <2>2, <2>3
<1>14. ASSUME NEW d \in Callers, NEW k \in Positions(d) PROVE Placed(d, k)'
  <2>1. Placed(d, k) /\ Msg(d, k) \in Messages /\ k \in Nat
    BY CallParts DEF IInv
  <2>2. CASE d = c /\ k = j
    <3>1. m \notin call[c].errors
      BY SMT, <1>0, <1>1 DEF Placed, Counted
    <3>2. ~(j > call'[c].put) /\ ~(j <= call'[c].taken)
      BY SMT, <1>0, <1>1, <1>6 DEF Counted
    <3>3. Msg(c, j)' = m
      BY <1>0, <1>7
    <3> QED BY <2>2, <3>1, <3>2, <3>3, <1>6, <1>8 DEF Placed
  <2>3. CASE ~(d = c /\ k = j)
    <3>1. Msg(d, k) # m
      BY <2>3, <1>0, <1>10a, PassedApart
    <3>2. CASE d # c
      BY <2>1, <3>1, <3>2, <1>4, <1>7, <1>9 DEF Placed
    <3>3. CASE d = c
      BY SMT, <2>1, <2>3, <3>1, <3>3, <1>0, <1>1, <1>6, <1>7, <1>9 DEF Placed
    <3> QED BY <3>2, <3>3
  <2> QED BY <2>2, <2>3
<1> QED
  BY <1>5, <1>7, <1>10, <1>11, <1>12, <1>13, <1>14 DEF IInv

LEMMA CollectInv ==
  ASSUME IInv, NEW c \in Callers, Collect(c) PROVE IInv'
<1>0. PICK j \in Nat, m \in Messages :
        j = call[c].taken + 1 /\ m = Msg(c, j) /\ j \in Positions(c) /\ j <= call[c].put
  <2>1. /\ call[c].taken + 1 \in Nat /\ call[c].taken + 1 \in Positions(c)
        /\ call[c].taken + 1 <= call[c].put
    BY SMT, CallParts DEF IInv, Collect, Positions, Counted
  <2>2. Msg(c, call[c].taken + 1) \in Messages
    BY <2>1, CallParts DEF IInv
  <2> QED BY <2>1, <2>2
<1>0a. PICK errs \in SUBSET Messages :
         errs = IF expectation[m] = "err" THEN call[c].errors \cup {m} ELSE call[c].errors
  BY CallParts DEF IInv
<1>1. /\ call[c] \in Calls /\ call[c].put \in Nat /\ call[c].taken \in Nat /\ call[c].errors \subseteq Messages
      /\ Counted(c) /\ Placed(c, j)
  BY <1>0, CallParts DEF IInv
<1>2. /\ expectation' = [expectation EXCEPT ![m] = "empty"]
      /\ expectation[m] \in {"nil", "err"}
      /\ call' = [call EXCEPT ![c] = [call[c] EXCEPT !.taken = j, !.errors = errs]]
      /\ call[c].st = "running"
      /\ UNCHANGED <<status, log, closed, out, closing>>
  BY <1>0, <1>0a DEF Collect, Answer, Msg, async
<1>3. InChannel(m)
  BY SMT, <1>0, <1>1, <1>2 DEF Placed, AtProducer, InOutput
<1>4. /\ call'[c] = [call[c] EXCEPT !.taken = j, !.errors = errs]
      /\ \A d \in Callers \ {c} : call'[d] = call[d]
  BY <1>2 DEF IInv, SyncTypeOK
<1>4a. [call[c] EXCEPT !.taken = j, !.errors = errs] \in Calls
  BY <1>1 DEF Calls
<1>5. SyncTypeOK'
  BY <1>0, <1>1, <1>2, <1>4, <1>4a DEF IInv, SyncTypeOK
<1>6. /\ call'[c].msgs = call[c].msgs /\ call'[c].put = call[c].put /\ call'[c].taken = j
      /\ call'[c].errors = errs /\ call'[c].st = call[c].st
  BY <1>0, <1>1, <1>4 DEF Calls
<1>7. \A d \in Callers : Positions(d)' = Positions(d) /\ \A k : Msg(d, k)' = Msg(d, k)
  BY <1>4, <1>6 DEF Positions, Msg
<1>8. IsGone(m)' /\ ~IsNew(m)'
  BY <1>2, <1>3 DEF InChannel, IsGone, IsNew, Done
<1>9. \A n \in Messages \ {m} :
        /\ IsNew(n)' = IsNew(n) /\ AtProducer(n)' = AtProducer(n) /\ InOutput(n)' = InOutput(n)
        /\ IsGone(n)' = IsGone(n) /\ InChannel(n)' = InChannel(n)
  BY <1>2 DEF IsNew, AtProducer, InOutput, IsGone, InChannel, IInv, SyncTypeOK
<1>10a. PassedOnce
  BY DEF IInv
<1>10. PassedOnce'
  BY SMT, <1>7, <1>10a DEF PassedOnce
<1>11. Unpassed'
  BY SMT, <1>0, <1>1, <1>7, <1>9 DEF Unpassed, IInv
<1>12. Settled'
  <2>1. \A n \in Messages : IsNew(n)' \/ AtProducer(n)' \/ InOutput(n)' \/ IsGone(n)'
    BY <1>8, <1>9 DEF IInv, Settled
  <2> QED BY <2>1, <1>2 DEF IInv, Settled, InLog
<1>13. ASSUME NEW d \in Callers PROVE Counted(d)'
  <2>1. Counted(d)
    BY DEF IInv
  <2>2. CASE d = c
    BY <2>1, <2>2, <1>0, <1>1, <1>2, <1>6 DEF Counted, Positions
  <2>3. CASE d # c
    BY <2>1, <2>3, <1>2, <1>4 DEF Counted
  <2> QED BY <2>2, <2>3
<1>14. ASSUME NEW d \in Callers, NEW k \in Positions(d) PROVE Placed(d, k)'
  <2>1. Placed(d, k) /\ Msg(d, k) \in Messages /\ k \in Nat
    BY CallParts DEF IInv
  <2>2. CASE d = c /\ k = j
    <3>1. m \notin call[c].errors
      BY SMT, <1>0, <1>1 DEF Placed
    <3>2. m \in errs <=> status[m] = "failed"
      BY <3>1, <1>2, <1>3, <1>0a DEF InChannel, IsGone, Done
    <3>3. ~(j > call'[c].put) /\ ~(j > call'[c].taken) /\ j <= call'[c].taken
      BY SMT, <1>0, <1>1, <1>6
    <3>4. Msg(c, j)' = m /\ status'[m] = status[m]
      BY <1>0, <1>2, <1>7
    <3> QED BY <2>2, <3>2, <3>3, <3>4, <1>6, <1>8 DEF Placed
  <2>3. CASE ~(d = c /\ k = j)
    <3>1. Msg(d, k) # m
      BY <2>3, <1>0, <1>10a, PassedApart
    <3>2. CASE d # c
      BY <2>1, <3>1, <3>2, <1>2, <1>4, <1>7, <1>9 DEF Placed
    <3>3. CASE d = c
      BY SMT, <2>1, <2>3, <3>1, <3>3, <1>0, <1>0a, <1>1, <1>2, <1>6, <1>7, <1>9 DEF Placed
    <3> QED BY <3>2, <3>3
  <2> QED BY <2>2, <2>3
<1> QED
  BY <1>5, <1>7, <1>10, <1>11, <1>12, <1>13, <1>14 DEF IInv

\* A step that leaves all messages alone, and of the calls at most how far they are.
LEMMA NothingMoves ==
  ASSUME IInv, UNCHANGED <<status, out, expectation>>,
         \A c \in Callers : /\ call'[c].msgs = call[c].msgs /\ call'[c].put = call[c].put
                            /\ call'[c].taken = call[c].taken /\ call'[c].errors = call[c].errors
  PROVE  PassedOnce' /\ Unpassed' /\ \A c \in Callers : \A k \in Positions(c)' : Placed(c, k)'
<1>1. \A m : IsNew(m)' = IsNew(m) /\ AtProducer(m)' = AtProducer(m) /\ InOutput(m)' = InOutput(m)
             /\ IsGone(m)' = IsGone(m) /\ InChannel(m)' = InChannel(m)
  BY DEF IsNew, AtProducer, InOutput, IsGone, InChannel
<1>2. \A c \in Callers : Positions(c)' = Positions(c) /\ \A k : Msg(c, k)' = Msg(c, k)
  BY DEF Positions, Msg
<1>3. PassedOnce' /\ Unpassed'
  BY SMT, <1>1, <1>2 DEF PassedOnce, Unpassed, IInv
<1>4. ASSUME NEW c \in Callers, NEW k \in Positions(c)' PROVE Placed(c, k)'
  <2>1. Placed(c, k) /\ Msg(c, k)' = Msg(c, k)
    BY <1>2 DEF IInv
  <2> QED BY <1>1, <2>1 DEF Placed
<1> QED BY <1>3, <1>4

LEMMA ReturnInv ==
  ASSUME IInv, NEW c \in Callers, Return(c) PROVE IInv'
<1>1. /\ call' = [call EXCEPT ![c] = [call[c] EXCEPT !.st = "returned"]]
      /\ call[c].taken = Len(call[c].msgs) /\ call[c].st = "running"
      /\ UNCHANGED <<status, log, closed, out, expectation, closing>>
  BY DEF Return, AllTaken, async
<1>2. call[c] \in Calls
  BY CallParts DEF IInv
<1>3. /\ call'[c] = [call[c] EXCEPT !.st = "returned"]
      /\ \A d \in Callers \ {c} : call'[d] = call[d]
  BY <1>1 DEF IInv, SyncTypeOK
<1>4. [call[c] EXCEPT !.st = "returned"] \in Calls
  BY <1>2 DEF Calls
<1>5. SyncTypeOK'
  BY <1>1, <1>4 DEF IInv, SyncTypeOK
<1>6. /\ call'[c].msgs = call[c].msgs /\ call'[c].put = call[c].put /\ call'[c].taken = call[c].taken
      /\ call'[c].errors = call[c].errors /\ call'[c].st = "returned"
  BY <1>2, <1>3 DEF Calls
<1>7. PassedOnce' /\ Unpassed' /\ \A d \in Callers : \A k \in Positions(d)' : Placed(d, k)'
  BY <1>1, <1>3, <1>6, NothingMoves
<1>8. \A d \in Callers : Counted(d)'
  BY SMT, <1>1, <1>3, <1>6 DEF IInv, Counted
<1>9. Settled'
  BY <1>1 DEF IInv, Settled, IsNew, AtProducer, InOutput, IsGone, InLog
<1> QED BY <1>5, <1>7, <1>8, <1>9 DEF IInv

LEMMA AppendInv ==
  ASSUME IInv, NEW m \in Messages, NEW p \in Partitions, Append1(m, p) PROVE IInv'
<1>1. /\ log' = [log EXCEPT ![p] = Append(@, m)]
      /\ UNCHANGED <<status, closed, out, expectation, call, closing>>
  BY DEF Append1, Async!AppendMessages
<1>2. log \in [Partitions -> Seq(Messages)]
  BY DEF IInv, SyncTypeOK
<1>3. log' \in [Partitions -> Seq(Messages)]
  BY SMT, <1>1, <1>2
<1>4. SyncTypeOK'
  BY <1>1, <1>3 DEF IInv, SyncTypeOK
<1>5. PassedOnce' /\ Unpassed' /\ \A d \in Callers : \A k \in Positions(d)' : Placed(d, k)'
  BY <1>1, NothingMoves
<1>6. \A d \in Callers : Counted(d)'
  BY <1>1 DEF IInv, Counted
<1>7. ASSUME NEW n \in Messages, InLog(n) PROVE InLog(n)'
  <2>1. PICK q \in Partitions : \E k \in 1..Len(log[q]) : log[q][k] = n
    BY <1>7 DEF InLog
  <2>2. PICK k \in 1..Len(log[q]) : log[q][k] = n
    BY <2>1
  <2>3. k \in 1..Len(log'[q]) /\ log'[q][k] = n
    <3>1. log[q] \in Seq(Messages) /\ Len(log[q]) \in Nat
      BY SMT, <1>2
    <3>2. CASE q = p
      <4>1. log'[q] = Append(log[q], m)
        BY <3>2, <1>1, <1>2
      <4> QED BY SMT, <4>1, <3>1, <2>2
    <3>3. CASE q # p
      BY <3>3, <1>1, <1>2, <2>2
    <3> QED BY <3>2, <3>3
  <2> QED BY <2>3 DEF InLog
<1>8. Settled'
  BY <1>1, <1>7 DEF IInv, Settled, IsNew, AtProducer, InOutput, IsGone
<1> QED BY <1>4, <1>5, <1>6, <1>8 DEF IInv

LEMMA ClosingInv ==
  ASSUME IInv, Close \/ Shutdown \/ CloseReturn PROVE IInv'
<1>1. /\ UNCHANGED <<status, log, out, expectation, call>>
      /\ closed' \in BOOLEAN /\ closing' \in {"no", "waiting", "returned"}
      /\ closed' = closed \/ (closed' /\ \A m \in Messages : status[m] # "pending")
      /\ closed' \/ closed' = closed
      /\ closing' = "returned" => closed' /\ out = {}
      /\ closing' # "no" => closing # "no" \/ \A c \in Callers : call[c].put = Len(call[c].msgs)
  BY DEF Close, Shutdown, CloseReturn, async, Async!Close, Async!Pending, IInv, SyncTypeOK, Settled
<1>2. SyncTypeOK'
  BY <1>1 DEF IInv, SyncTypeOK
<1>3. PassedOnce' /\ Unpassed' /\ \A d \in Callers : \A k \in Positions(d)' : Placed(d, k)'
  BY <1>1, NothingMoves
<1>4. \A d \in Callers : Counted(d)'
  BY <1>1 DEF IInv, Counted
<1>5. Settled'
  BY <1>1 DEF IInv, Settled, IsNew, AtProducer, InOutput, IsGone, InLog
<1> QED BY <1>2, <1>3, <1>4, <1>5 DEF IInv

LEMMA NextIInv == IInv /\ [Next]_vars => IInv'
<1> SUFFICES ASSUME IInv, [Next]_vars PROVE IInv'
  OBVIOUS
<1>1. CASE UNCHANGED vars
  <2>1. UNCHANGED <<status, log, closed, out, expectation, call, closing>>
    BY <1>1 DEF vars
  <2>2. PassedOnce' /\ Unpassed' /\ \A d \in Callers : \A k \in Positions(d)' : Placed(d, k)'
    BY <2>1, NothingMoves
  <2> QED
    BY <2>1, <2>2 DEF IInv, SyncTypeOK, Counted, Settled, IsNew, AtProducer, InOutput, IsGone, InLog
<1> QED
  BY <1>1, BeginInv, PutInv, CollectInv, ReturnInv, AnswerComesInv, HandleInv, AppendInv, ClosingInv
  DEF Next

LEMMA IInvHolds == Spec => []IInv
  BY InitIInv, NextIInv, PTL DEF Spec

-----------------------------------------------------------------------------

\* SendMessage and SendMessages (sync_producer.go:112-147) return when each of their messages
\* has its result, and return an error for exactly the messages that failed; what they
\* report as sent is in a log. For any number of callers, any lists and every order of
\* answers.
THEOREM SyncResultsExact == Spec => []ResultsExact
<1>1. IInv => ResultsExact
  <2> SUFFICES ASSUME IInv, NEW c \in Callers, call[c].st = "returned", NEW m \in ToSet(call[c].msgs)
               PROVE  /\ status[m] \in {"succeeded", "failed"}
                      /\ m \in call[c].errors <=> status[m] = "failed"
                      /\ m \notin call[c].errors => \E p \in Partitions : m \in ToSet(log[p])
    BY DEF ResultsExact
  <2>1. call[c].msgs \in Seq(Messages) /\ call[c].taken = Len(call[c].msgs)
    BY CallParts DEF IInv, Counted
  <2>2. PICK k \in Positions(c) : m = Msg(c, k)
    BY SMT, <2>1 DEF ToSet, Positions, Msg
  <2>3. Placed(c, k) /\ k \in Nat /\ k <= call[c].taken /\ m \in Messages
    BY SMT, <2>1, <2>2, CallParts DEF IInv, Positions
  <2>4. status[m] \in Done /\ (m \in call[c].errors <=> status[m] = "failed")
    BY <2>2, <2>3 DEF Placed, IsGone
  <2>5. ASSUME status[m] = "succeeded" PROVE \E p \in Partitions : m \in ToSet(log[p])
    <3>1. PICK p \in Partitions : \E i \in 1..Len(log[p]) : log[p][i] = m
      BY <2>3, <2>5 DEF IInv, Settled, InLog
    <3>2. log[p] \in Seq(Messages)
      BY DEF IInv, SyncTypeOK
    <3> QED BY SMT, <3>1, <3>2 DEF ToSet
  <2> QED BY <2>4, <2>5 DEF Done
<1> QED BY IInvHolds, <1>1, PTL

\* The goroutines that hand out the answers (sync_producer.go:149-163) never wait for room in
\* the channel of a message, nor find a message without one; and once Close has returned,
\* the answer to every message that a caller still waits for is in its channel.
THEOREM SyncAnswersReach == Spec => []AnswersReach
<1>1. IInv => NeverBlocked
  BY DEF IInv, NeverBlocked, Settled, IsNew, AtProducer, InOutput, IsGone, Done
<1>2. IInv => NobodyLeftWaiting
  <2> SUFFICES ASSUME IInv, closing = "returned", NEW c \in Callers,
                      NEW k \in (call[c].taken + 1)..call[c].put
               PROVE  expectation[call[c].msgs[k]] \in {"nil", "err"}
    BY DEF NobodyLeftWaiting
  <2>1. /\ k \in Positions(c) /\ k > call[c].taken /\ k <= call[c].put
    BY SMT, CallParts DEF IInv, Counted, Positions
  <2>2. Placed(c, k) /\ Msg(c, k) \in Messages
    BY <2>1, CallParts DEF IInv
  <2>3. status[Msg(c, k)] # "pending" /\ out = {}
    BY <2>2 DEF IInv, Settled
  <2>4. InChannel(Msg(c, k))
    BY <2>1, <2>2, <2>3 DEF Placed, AtProducer, InOutput
  <2> QED BY <2>4 DEF InChannel, Msg
<1>3. IInv => AnswersReach
  BY <1>1, <1>2 DEF AnswersReach
<1> QED BY IInvHolds, <1>3, PTL
=============================================================================
