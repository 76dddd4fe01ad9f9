--------------------------- MODULE OffsetContract ---------------------------
(***************************************************************************)
(* What an application may rely on when it leaves its offsets to an offset *)
(* manager. For each partition, `marks` is the sequence of positions the   *)
(* application has set since the partition was taken over, starting with   *)
(* the one found in Kafka, and `at` points at the position that Kafka has  *)
(* now. Kafka only ever moves forward along this sequence, and a partition *)
(* is given back with its last position stored, unless the whole manager   *)
(* is being closed.                                                        *)
(***************************************************************************)
EXTENDS Integers, Sequences

CONSTANTS Partitions,   \* topic-partitions
          Positions     \* offsets with their metadata

VARIABLES
  marks,    \* positions set by the application, per partition
  at,       \* index of the stored position in marks, per partition
  managed,  \* partitions taken over and not yet given back
  ending    \* the manager is being closed

vars == <<marks, at, managed, ending>>

Init ==
  /\ marks = [p \in Partitions |-> <<>>]
  /\ at = [p \in Partitions |-> 0]
  /\ managed = {}
  /\ ending = FALSE

\* A partition is taken over at the position stored in Kafka.
Manage(p) ==
  /\ p \notin managed
  /\ \E x \in Positions : marks' = [marks EXCEPT ![p] = <<x>>]
  /\ at' = [at EXCEPT ![p] = 1]
  /\ managed' = managed \cup {p}
  /\ UNCHANGED ending

\* The application moves its position.
Mark(p) ==
  /\ p \in managed
  /\ \E x \in Positions : marks' = [marks EXCEPT ![p] = Append(@, x)]
  /\ UNCHANGED <<at, managed, ending>>

\* Kafka stores later positions of some partitions.
Store ==
  /\ DOMAIN at' = Partitions
  /\ \A p \in Partitions : at'[p] \in at[p]..Len(marks[p])
  /\ UNCHANGED <<marks, managed, ending>>

\* Partitions are given back: the last position is stored.
GiveBack ==
  /\ managed' \in SUBSET managed
  /\ \A p \in managed \ managed' : marks[p][at[p]] = marks[p][Len(marks[p])]
  /\ UNCHANGED <<marks, at, ending>>

\* The manager is being closed; partitions may now be dropped as they are.
End == ending' = TRUE /\ UNCHANGED <<marks, at, managed>>

Drop ==
  /\ ending
  /\ managed' \in SUBSET managed
  /\ UNCHANGED <<marks, at, ending>>

Next ==
  \/ \E p \in Partitions : Manage(p) \/ Mark(p)
  \/ Store \/ GiveBack \/ End \/ Drop

Step == [Next]_vars

Spec == Init /\ [][Step]_vars
=============================================================================
