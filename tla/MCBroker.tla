------------------------------ MODULE MCBroker ------------------------------
(***************************************************************************)
(* Three instances of Broker over the same variables; `which` says the one *)
(* a behaviour belongs to, and Chosen those of a configuration:            *)
(*   base      the constants of the configuration;                         *)
(*   pipeline  requests that are pipelined on a connection that may fail,  *)
(*             with answers of the wrong correlation id;                   *)
(*   async     pipelined requests with throttled answers.                  *)
(***************************************************************************)
EXTENDS Broker

CONSTANT Chosen
VARIABLE which

pipeline == INSTANCE Broker WITH
  Ops <- {"open", "async", "call", "close"}, MaxOps <- 3, MaxOpens <- 2, MaxTimers <- 0,
  Throttles <- {}, Sasls <- {"off"}, Mechanisms <- {"PLAIN"}, Lifetimes <- {},
  ApiVersions <- FALSE, Faults <- {"dial", "break", "stray", "slow"}

async == INSTANCE Broker WITH
  Ops <- {"open", "async", "noacks", "close"}, MaxOps <- 2, MaxOpenRequests <- 1, MaxTimers <- 2,
  Throttles <- {"async"}, Sasls <- {"off"}, Mechanisms <- {"PLAIN"}, Lifetimes <- {},
  ApiVersions <- FALSE, Faults <- {"slow"}

allVars == <<which, vars>>

MCInit ==
  /\ which \in Chosen
  /\ \/ which = "base" /\ Init
     \/ which = "pipeline" /\ pipeline!Init
     \/ which = "async" /\ async!Init

MCNext ==
  /\ \/ which = "base" /\ Next
     \/ which = "pipeline" /\ pipeline!Next
     \/ which = "async" /\ async!Next
  /\ UNCHANGED which

MCSpec == MCInit /\ [][MCNext]_allVars

\* With the base instance alone.
MCLiveSpec == MCSpec /\ Fairness

=============================================================================
