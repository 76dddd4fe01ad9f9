----------------------------- MODULE MCProducer -----------------------------
(***************************************************************************)
(* Three instances of AsyncProducer over the same variables; `which` says  *)
(* the one a behaviour belongs to, and Chosen those of a configuration:    *)
(*   base        the constants of the configuration;                       *)
(*   levels      one partition whose messages are retried twice, so that   *)
(*               three levels overlap;                                     *)
(*   partitions  two partitions on one broker, both retried.               *)
(***************************************************************************)
EXTENDS AsyncProducer

CONSTANT Chosen
VARIABLE which

levels == INSTANCE AsyncProducer WITH
  NumPartitions <- 1, NumSlots <- 5, RetryMax <- 2, FlushFrequency <- FALSE,
  FlushMaxMessages <- 0, Pipelining <- FALSE, SendAfterClose <- FALSE, Interceptors <- FALSE,
  Faults <- {"retriable"}

partitions == INSTANCE AsyncProducer WITH
  NumPartitions <- 2, NumSlots <- 3, RetryMax <- 1, FlushFrequency <- FALSE,
  FlushMaxMessages <- 0, Pipelining <- FALSE, SendAfterClose <- FALSE, Interceptors <- FALSE,
  Faults <- {"retriable"}

MCInit ==
  /\ which \in Chosen
  /\ \/ which = "base" /\ Init
     \/ which = "levels" /\ levels!Init
     \/ which = "partitions" /\ partitions!Init

\* A bound: the producer is not closed while it retries.
StaysOpen == closeState' = "open"

MCNext ==
  /\ \/ which = "base" /\ Next
     \/ which = "levels" /\ levels!Next /\ StaysOpen
     \/ which = "partitions" /\ partitions!Next /\ StaysOpen
  /\ UNCHANGED which

MCSpec == MCInit /\ [][MCNext]_<<which, vars>>

\* With the base instance alone.
MCFairSpec == MCSpec /\ Fairness

-----------------------------------------------------------------------------


\* Whatever made a broker producer close, nobody sends on its input; and batches are
\* counted correctly and stay below Flush.MaxMessages, with timers, dropped partitions and
\* requests that are built before the last answer is handled.
DeepInputs ==
  /\ which = "partitions" => partitions!NoSendOnClosedInput
  /\ which = "base" => NoSendOnClosedInput /\ BatchBounded

\* The producer keeps its contract under every failure when nothing is retried.
DeepContract ==
  /\ which = "base" => Contract!Init
  /\ [][which = "base" => Contract!Step]_<<which, vars>>
=============================================================================
