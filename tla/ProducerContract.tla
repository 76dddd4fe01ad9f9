-------------------------- MODULE ProducerContract --------------------------
(***************************************************************************)
(* What AsyncProducer promises its application: every message taken is     *)
(* answered exactly once, a success is reported only for a message the     *)
(* partition's leader has appended, nothing is appended for a message that *)
(* has been answered, and the output channels close only when no message   *)
(* is pending, after which nothing happens any more.  How messages are     *)
(* batched, routed, retried and buffered is not part of it.                *)
(***************************************************************************)
EXTENDS Integers, Sequences

CONSTANTS Messages, Partitions

VARIABLES
  status,   \* what has become of each message
  log,      \* what has been appended to each partition
  closed    \* whether Errors and Successes are closed

vars == <<status, log, closed>>

Init ==
  /\ status = [m \in Messages |-> "new"]
  /\ log = [p \in Partitions |-> <<>>]
  /\ closed = FALSE

Pending == {m \in Messages : status[m] = "pending"}

(* The producer takes a message from Input. *)
Take(m) ==
  /\ ~closed /\ status[m] = "new"
  /\ status' = [status EXCEPT ![m] = "pending"]
  /\ UNCHANGED <<log, closed>>

(* Brokers append messages that are still pending, possibly again. *)
AppendMessages ==
  /\ ~closed
  /\ \A p \in Partitions :
       /\ Len(log[p]) <= Len(log'[p])
       /\ \A k \in DOMAIN log'[p] :
            IF k <= Len(log[p]) THEN log'[p][k] = log[p][k] ELSE log'[p][k] \in Pending
  /\ UNCHANGED <<status, closed>>

(* A message comes out of Successes. *)
Succeed(m) ==
  /\ ~closed /\ status[m] = "pending"
  /\ \E p \in Partitions : \E k \in DOMAIN log[p] : log[p][k] = m
  /\ status' = [status EXCEPT ![m] = "succeeded"]
  /\ UNCHANGED <<log, closed>>

(* A message comes out of Errors; one that arrives during the shutdown is  *)
(* refused without having been taken.                                      *)
Fail(m) ==
  /\ ~closed /\ status[m] \in {"new", "pending"}
  /\ status' = [status EXCEPT ![m] = "failed"]
  /\ UNCHANGED <<log, closed>>

Close ==
  /\ ~closed /\ Pending = {}
  /\ closed' = TRUE
  /\ UNCHANGED <<status, log>>

Next ==
  \/ \E m \in Messages : Take(m) \/ Succeed(m) \/ Fail(m)
  \/ AppendMessages \/ Close

Step == [Next]_vars

Spec == Init /\ [][Step]_vars
=============================================================================
