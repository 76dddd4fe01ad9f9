----------------------------- MODULE MCConsumer -----------------------------
(* An instance of Consumer: one child that consumes a mixed log. *)
EXTENDS Consumer, Logs

CONSTANT k1

ChildLog == k1 :> MixedLog
ChildAborted == k1 :> {}
ChildStart == k1 :> 1
=============================================================================
