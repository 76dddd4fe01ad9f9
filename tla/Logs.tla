-------------------------------- MODULE Logs --------------------------------
(* The logs that the instances of Consumer read. *)
EXTENDS Integers

Batch(offset, delta, recs, size) ==
  [offset |-> offset, delta |-> delta, recs |-> recs, size |-> size, legacy |-> FALSE,
   control |-> FALSE, abort |-> FALSE, txn |-> FALSE, pid |-> 0]
Txn(b, pid) == [b EXCEPT !.txn = TRUE, !.pid = pid]
Marker(offset, pid, abort) ==
  [Txn(Batch(offset, 0, {0}, 1), pid) EXCEPT !.control = TRUE, !.abort = abort]
Legacy(offset, recs, size) == [Batch(offset, 0, recs, size) EXCEPT !.legacy = TRUE]

(* A compressed message set, a batch that compaction emptied, and one      *)
(* larger than a fetch whose first record was compacted away.              *)
MixedLog == <<Legacy(1, {0, 1}, 1), Batch(2, 0, {}, 1), Batch(3, 1, {1}, 2)>>

(* An aborted transaction, and one of the same producer that is committed, *)
(* in one block.                                                           *)
TxnLog == <<Txn(Batch(0, 0, {0}, 1), 1), Marker(1, 1, TRUE), Txn(Batch(2, 1, {0, 1}, 1), 1)>>
TxnAborted == {[pid |-> 1, first |-> 0, marker |-> 1]}
=============================================================================
