------------------------------ MODULE Clusters ------------------------------
(* The states of a small cluster, for the instances of Client: brokers that *)
(* are up, the addresses metadata gives for them, controller, coordinator   *)
(* and the same answer for every topic of a set.                            *)
EXTENDS Integers, TLC

LOCAL Unknown == -1      \* Client's NoId
LOCAL Leaderless == -2   \* Client's NoLeader

Topic(err, l0, l1) == [err |-> err, leaders |-> (0 :> l0) @@ (1 :> l1)]
NoTopic == [err |-> "ErrUnknownTopicOrPartition", leaders |-> <<>>]
State(up, addr, ctlId, coordId, topics) ==
  [up |-> up, addr |-> addr, ctl |-> ctlId, coord |-> coordId, topics |-> topics]

Two == (1 :> "a") @@ (2 :> "b")
One == (1 :> "a")
Moved == (1 :> "c") @@ (2 :> "b")
Each(T, answer) == [t \in T |-> answer]

\* Two brokers, one gone, one at another address, and a topic with and without leaders.
MovingClusters(T) ==
  {State({"a", "b", "c"}, Two, 1, 2, Each(T, Topic("nil", 1, 2))),
   State({"a"}, One, 1, 1, Each(T, Topic("ErrLeaderNotAvailable", 1, Leaderless))),
   State({"b", "c"}, Moved, 2, Unknown, Each(T, Topic("nil", 1, 1))),
   State({"a", "b"}, Two, 2, Unknown, Each(T, NoTopic))}

\* The same with the topic always there.
SteadyClusters(T) ==
  {State({"a", "b"}, Two, 1, 2, Each(T, Topic("nil", 1, 2))),
   State({}, Two, 1, 2, Each(T, Topic("nil", 1, 2))),
   State({"b", "c"}, Moved, 2, 1, Each(T, Topic("nil", 1, 1)))}

\* Broker "b" is always up.
LiveClusters(T) ==
  {State({"a", "b"}, Two, 1, 2, Each(T, Topic("nil", 1, 2))),
   State({"b"}, (2 :> "b"), 2, 2, Each(T, Topic("ErrLeaderNotAvailable", 2, Leaderless))),
   State({"b", "c"}, Moved, 2, Unknown, Each(T, Topic("nil", 1, 1))),
   State({"a", "b"}, Two, 2, Unknown, Each(T, NoTopic))}

=============================================================================
