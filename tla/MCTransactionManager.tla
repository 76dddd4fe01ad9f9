------------------------ MODULE MCTransactionManager ------------------------
(***************************************************************************)
(* Two instances of TransactionManager over the same variables; `which`    *)
(* says the one a behaviour belongs to:                                    *)
(*   calls  (the constants of the configuration) every failure but that of *)
(*          InitProducerID, messages to two partitions;                    *)
(*   init   the failures after which InitProducerID is called, and its own.*)
(***************************************************************************)
EXTENDS TransactionManager

CONSTANTS m1, m2
VARIABLE which

OwnPartition == [m \in Msgs |-> IF m = m1 THEN "p1" ELSE "p2"]

init == INSTANCE TransactionManager WITH
  Faults <- {"init", "mapping", "groupdenied", "produce"}

MCInit == Init /\ which \in {"calls", "init"}

MCNext ==
  /\ \/ which = "calls" /\ Next
     \/ which = "init" /\ init!Next
  /\ UNCHANGED which

\* Goroutines run, and every request is answered or fails in time.
MCSpec ==
  /\ MCInit /\ [][MCNext]_<<which, vars>>
  /\ WF_vars(which = "calls" /\ Finishing) /\ WF_vars(which = "init" /\ init!Finishing)
  /\ \A m \in Msgs :
       WF_vars(which = "calls" /\ Message(m)) /\ WF_vars(which = "init" /\ init!Message(m))
=============================================================================
