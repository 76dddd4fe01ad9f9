---------------------------- MODULE SyncProducer ----------------------------
(***************************************************************************)
(* The synchronous producer (sync_producer.go) on top of an asynchronous   *)
(* one.  Of the asynchronous producer only its contract is used: its steps *)
(* are the actions of ProducerContract, which AsyncProducer implements.    *)
(* Application goroutines call SendMessage (a list of one) or SendMessages *)
(* and wait on the expectation channel of each message; two goroutines     *)
(* turn what comes out of Successes and Errors into answers.               *)
(***************************************************************************)
EXTENDS Integers, FiniteSets, Sequences, SequencesExt

CONSTANTS
  Messages, Partitions,
  Callers,        \* application goroutines
  Batches         \* the lists a caller may pass

\* A list holds every message once: it is a list of pointers, and a message must not be
\* reused before it has been answered.
ASSUME BatchesAssumption ==
  /\ Batches \subseteq Seq(Messages)
  /\ \A b \in Batches : \A j, k \in 1..Len(b) : b[j] = b[k] => j = k

VARIABLES
  status, log, closed,   \* the contract of the asynchronous producer
  out,            \* what is in Successes and Errors
  expectation,    \* the channel of each message: unset, empty, "nil" or "err"
  call,           \* the call of each caller
  closing         \* Close of the synchronous producer: no, waiting, returned

async == <<status, log, closed>>
vars == <<status, log, closed, out, expectation, call, closing>>

Async == INSTANCE ProducerContract

\* put: messages written to Input; taken: expectations the caller has read.
NewCall(st, msgs) == [st |-> st, msgs |-> msgs, put |-> 0, taken |-> 0, errors |-> {}]
NoCall == NewCall("idle", <<>>)

Init ==
  /\ Async!Init
  /\ out = {}
  /\ expectation = [m \in Messages |-> "unset"]
  /\ call = [c \in Callers |-> NoCall]
  /\ closing = "no"

-----------------------------------------------------------------------------

\* Every message is passed once, and no call begins after Close.
Begin(c, msgs) ==
  /\ call[c].st = "idle" /\ closing = "no"
  /\ \A m \in ToSet(msgs) : \A d \in Callers : m \notin ToSet(call[d].msgs)
  /\ call' = [call EXCEPT ![c] = NewCall("running", msgs)]
  /\ UNCHANGED <<async, out, expectation, closing>>

\* The message gets a channel of its own and goes to Input.
Put(c) ==
  /\ call[c].st = "running" /\ call[c].put < Len(call[c].msgs)
  /\ LET m == call[c].msgs[call[c].put + 1]
     IN /\ expectation' = [expectation EXCEPT ![m] = "empty"]
        /\ Async!Take(m)
  /\ call' = [call EXCEPT ![c].put = @ + 1]
  /\ UNCHANGED <<out, closing>>

\* What is in the channel the caller waits on.
Answer(c) == expectation[call[c].msgs[call[c].taken + 1]]

\* The caller reads the channels in the order of the list.
Collect(c) ==
  /\ call[c].st = "running" /\ call[c].taken < call[c].put
  /\ Answer(c) \in {"nil", "err"}
  /\ call' = [call EXCEPT ![c].taken = @ + 1,
                          ![c].errors = IF Answer(c) = "err"
                                        THEN @ \cup {call[c].msgs[call[c].taken + 1]} ELSE @]
  /\ expectation' = [expectation EXCEPT ![call[c].msgs[call[c].taken + 1]] = "empty"]
  /\ UNCHANGED <<async, out, closing>>

\* Faulty variant: the call returns with the first error.
AllTakenOrError(c) == call[c].taken = Len(call[c].msgs) \/ call[c].errors # {}

AllTaken(c) == call[c].taken = Len(call[c].msgs)

Return(c) ==
  /\ call[c].st = "running" /\ AllTaken(c)
  /\ call' = [call EXCEPT ![c].st = "returned"]
  /\ UNCHANGED <<async, out, expectation, closing>>

-----------------------------------------------------------------------------
(* The asynchronous producer and the goroutines that read its outputs.     *)

Append1(m, p) ==
  /\ \A q \in Partitions : m \notin ToSet(log[q])
  /\ log' = [log EXCEPT ![p] = Append(@, m)]
  /\ Async!AppendMessages
  /\ UNCHANGED <<out, expectation, call, closing>>

AnswerComes(m) ==
  /\ Async!Succeed(m) \/ (status[m] = "pending" /\ Async!Fail(m))
  /\ out' = out \cup {m}
  /\ UNCHANGED <<expectation, call, closing>>

\* handleSuccesses and handleErrors: an answer goes to the message's channel,
\* which has room for one.
Handle(m) ==
  /\ m \in out
  /\ expectation[m] = "empty"
  /\ expectation' = [expectation EXCEPT ![m] = IF status[m] = "succeeded" THEN "nil" ELSE "err"]
  /\ out' = out \ {m}
  /\ UNCHANGED <<async, call, closing>>

\* Close calls AsyncClose, while callers may still wait for answers, and
\* returns when both goroutines have emptied their closed channels.
Close ==
  /\ closing = "no"
  /\ \A c \in Callers : call[c].put = Len(call[c].msgs)
  /\ closing' = "waiting"
  /\ UNCHANGED <<async, out, expectation, call>>

Shutdown ==
  /\ closing = "waiting" /\ Async!Close
  /\ UNCHANGED <<out, expectation, call, closing>>

\* Faulty variant: Close does not wait for the two goroutines' last answers.
CloseReturnEarly ==
  /\ closing = "waiting" /\ closed
  /\ closing' = "returned"
  /\ UNCHANGED <<async, out, expectation, call>>

CloseReturn ==
  /\ closing = "waiting" /\ closed /\ out = {}
  /\ closing' = "returned"
  /\ UNCHANGED <<async, out, expectation, call>>

Next ==
  \/ \E c \in Callers : (\E b \in Batches : Begin(c, b)) \/ Put(c) \/ Collect(c) \/ Return(c)
  \/ \E m \in Messages : AnswerComes(m) \/ Handle(m)
                         \/ \E p \in Partitions : Append1(m, p)
  \/ Close \/ Shutdown \/ CloseReturn

Spec == Init /\ [][Next]_vars

-----------------------------------------------------------------------------

\* A call returns only when each of its messages has succeeded or failed, its
\* errors are exactly the messages that failed, and what it reports as sent is
\* in a log (SendMessage and SendMessages).
ResultsExact ==
  \A c \in Callers : call[c].st = "returned" =>
    \A m \in ToSet(call[c].msgs) :
      /\ status[m] \in {"succeeded", "failed"}
      /\ m \in call[c].errors <=> status[m] = "failed"
      /\ m \notin call[c].errors => \E p \in Partitions : m \in ToSet(log[p])

\* No answer is sent into a channel that still holds one, nor before the
\* message has a channel: the goroutines that hand out answers never stop.
NeverBlocked ==
  \A m \in Messages : (status[m] = "pending" \/ m \in out) => expectation[m] = "empty"

\* Once Close has returned, every call has its answers within reach: nobody
\* waits for a goroutine that has gone (Close).
NobodyLeftWaiting ==
  closing = "returned" =>
    \A c \in Callers : \A k \in (call[c].taken + 1)..call[c].put :
      expectation[call[c].msgs[k]] \in {"nil", "err"}

\* Every answer reaches its caller: nobody stops handing them out, and Close leaves none
\* behind.
AnswersReach == NeverBlocked /\ NobodyLeftWaiting
=============================================================================
