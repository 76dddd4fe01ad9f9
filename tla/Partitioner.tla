---------------------------- MODULE Partitioner ----------------------------
(***************************************************************************)
(* How a message gets its partition: the partitioners (partitioner.go) and *)
(* topicProducer.partitionMessage (async_producer.go), which asks one of   *)
(* them to choose among the partitions of the topic, all of them or those  *)
(* that have a leader, behind a circuit breaker.                           *)
(*                                                                         *)
(* A key is known by its 32-bit hash; Half is half the number of words.    *)
(***************************************************************************)
EXTENDS Integers, Sequences, FiniteSets

CONSTANTS
  Half,           \* half the number of words: 2^31 in the code
  Keys,           \* message keys other than nil
  MaxTopicPartitions,  \* bound on the partitions of the topic
  Kinds,          \* the partitioners used, a subset of AllKinds
  MaxMessages     \* bound on the messages partitioned

AllKinds == {"manual", "random", "roundRobin", "hash", "referenceHash", "crcHash"}
HashKinds == {"hash", "referenceHash", "crcHash"}

ASSUME WidthAssumption == Half \in Nat \ {0}
ASSUME PartitionsAssumption == MaxTopicPartitions \in Nat \ {0}
ASSUME KindsAssumption == Kinds \subseteq AllKinds /\ MaxMessages \in Nat

----------------------------------------------------------------------------
(* Machine integers: a word is one of 2 * Half values.                      *)

Words == 0..(2 * Half - 1)

\* int32(u): the same bits read as a signed integer.
Signed(u) == IF u < Half THEN u ELSE u - 2 * Half

\* Go's % takes the sign of the dividend.
Rem(a, n) == IF a >= 0 THEN a % n ELSE -((-a) % n)

\* Faulty variant: the remainder of a negative hash is used as it is.
HashSigned(u, n) == Rem(Signed(u), n)

\* The three ways to make a choice of a hash: the absolute value of the signed
\* remainder; all bits of the hash but the highest, as the Java client does; and the
\* unsigned remainder, as librdkafka does.
HashAbs(u, n) == LET r == Rem(Signed(u), n) IN IF r < 0 THEN -r ELSE r
HashReference(u, n) == (u % Half) % n
HashUnsigned(u, n) == u % n

HashChoice(kind, u, n) ==
  CASE kind = "hash" -> HashAbs(u, n)
    [] kind = "referenceHash" -> HashReference(u, n)
    [] kind = "crcHash" -> HashUnsigned(u, n)

----------------------------------------------------------------------------

VARIABLES
  kind,       \* the partitioner of the topic
  hash,       \* the hash of each key
  turn,       \* roundRobinPartitioner.partition
  all,        \* what client.Partitions returns: the partitions, in order
  writable,   \* those with a leader: what client.WritablePartitions returns
  breaker,    \* the circuit breaker: its state and its count of errors
  sent,       \* messages partitioned
  outcome,    \* history: what became of the last message
  byKey,      \* history: the partition of each key since the topic last grew
  round       \* history: the choices in turn since the writable partitions last changed

choiceVars == <<kind, hash, turn, all, writable, breaker, sent, outcome, byKey, round>>

NoKey == "nil"
Partitions == 0..(MaxTopicPartitions - 1)
NoPartition == -1

\* The members of a set of partitions in ascending order, as the client returns them.
Ascending(S) == [i \in 1..Cardinality(S) |-> CHOOSE p \in S : Cardinality({q \in S : q < p}) = i - 1]

ChoiceInit ==
  /\ kind \in Kinds
  /\ hash \in [Keys -> Words]
  /\ turn = 0
  /\ all \in {0..n : n \in Partitions} /\ writable \in SUBSET all
  /\ breaker = [state |-> "closed", errors |-> 0]
  /\ sent = 0
  /\ outcome = "none"
  /\ byKey = [k \in Keys |-> NoPartition]
  /\ round = <<>>

\* MessageRequiresConsistency for the hash partitioners, RequiresConsistency for the others.
RequiresConsistency(key) == kind = "manual" \/ (kind \in HashKinds /\ key # NoKey)

Candidates(key) == IF RequiresConsistency(key) THEN all ELSE writable

RoundRobin(n) == IF turn >= n THEN 0 ELSE turn

\* What Partition may choose, for a message and a number of partitions.
PartitionChoices(key, manual, n) ==
  CASE kind = "manual" -> {manual}
    [] kind = "roundRobin" -> {RoundRobin(n)}
    [] kind \in HashKinds /\ key # NoKey -> {HashChoice(kind, hash[key], n)}
    [] OTHER -> 0..(n - 1)

\* The message goes on to the partition the choice stands for.
Chosen(key, choice, from) ==
  LET p == Ascending(from)[choice + 1]
  IN /\ outcome' = "partitioned"
     /\ byKey' = IF key = NoKey THEN byKey ELSE [byKey EXCEPT ![key] = p]
     /\ round' = IF kind = "roundRobin" THEN Append(round, p) ELSE round

\* breaker.Run with work that succeeds closes a half-open breaker.
Succeeded == breaker' = IF breaker.state = "halfOpen" THEN [state |-> "closed", errors |-> 0] ELSE breaker

\* partitionMessage, when the client answers: the message gets a partition, or is
\* returned with ErrLeaderNotAvailable or ErrInvalidPartition.
PartitionMessage(key, manual) ==
  /\ sent < MaxMessages /\ sent' = sent + 1
  /\ breaker.state # "open"
  /\ Succeeded
  /\ LET from == Candidates(key)
         n == Cardinality(from)
     IN IF n = 0
        THEN /\ outcome' = "ErrLeaderNotAvailable"
             /\ UNCHANGED <<turn, byKey, round>>
        ELSE /\ turn' = IF kind = "roundRobin" THEN RoundRobin(n) + 1 ELSE turn
             /\ \E choice \in PartitionChoices(key, manual, n) :
                  IF choice \in 0..(n - 1)
                  THEN Chosen(key, choice, from)
                  ELSE /\ outcome' = "ErrInvalidPartition"
                       /\ UNCHANGED <<byKey, round>>
  /\ UNCHANGED <<kind, hash, all, writable>>

\* The key of a message cannot be encoded: a hash partitioner returns the error.
EncodeFails ==
  /\ kind \in HashKinds /\ all # {} /\ breaker.state # "open"
  /\ sent < MaxMessages /\ sent' = sent + 1
  /\ Succeeded
  /\ outcome' = "error"
  /\ UNCHANGED <<kind, hash, turn, all, writable, byKey, round>>

\* The client cannot tell the partitions, or the breaker is open and is not asked:
\* the message is returned with the error.
PartitionFails ==
  /\ sent < MaxMessages /\ sent' = sent + 1
  /\ outcome' = "error"
  /\ breaker' =
       CASE breaker.state = "open" -> breaker
         [] breaker.state = "halfOpen" -> [breaker EXCEPT !.state = "open"]
         [] breaker.state = "closed" /\ breaker.errors = 2 -> [state |-> "open", errors |-> 0]
         [] OTHER -> [breaker EXCEPT !.errors = @ + 1]
  /\ UNCHANGED <<kind, hash, turn, all, writable, byKey, round>>

\* Ten seconds after it opened the breaker lets a call through again.
BreakerTimeout ==
  /\ breaker.state = "open"
  /\ breaker' = [state |-> "halfOpen", errors |-> 0]
  /\ UNCHANGED <<kind, hash, turn, all, writable, sent, outcome, byKey, round>>

\* A metadata refresh: leaders come and go, the topic may get a partition.
Refresh ==
  /\ all' \in {all, 0..Cardinality(all)} /\ Cardinality(all') <= MaxTopicPartitions
  /\ writable' \in SUBSET all'
  /\ <<all', writable'>> # <<all, writable>>
  /\ byKey' = IF all' = all THEN byKey ELSE [k \in Keys |-> NoPartition]
  /\ round' = <<>>
  /\ UNCHANGED <<kind, hash, turn, breaker, sent, outcome>>

ChoiceNext ==
  \/ \E key \in Keys \union {NoKey}, manual \in Partitions : PartitionMessage(key, manual)
  \/ EncodeFails
  \/ PartitionFails
  \/ BreakerTimeout
  \/ Refresh

ChoiceSpec == ChoiceInit /\ [][ChoiceNext]_choiceVars

----------------------------------------------------------------------------

\* The variables have the types of what they stand for; the turn never passes the
\* number of partitions.
ChoiceTypeOK ==
  /\ kind \in Kinds /\ hash \in [Keys -> Words] /\ turn \in 0..MaxTopicPartitions
  /\ all \in SUBSET Partitions /\ writable \in SUBSET all
  /\ breaker \in [state : {"open", "closed", "halfOpen"}, errors : 0..2]
  /\ sent \in 0..MaxMessages
  /\ byKey \in [Keys -> Partitions \union {NoPartition}]

\* Only a partition set by hand can be invalid: what the other partitioners choose is
\* always a partition of the list, for every hash.
NeverInvalid == kind # "manual" => outcome # "ErrInvalidPartition"

\* "Messages with the same key always end up on the same partition", also while some
\* partitions have no leader, as long as the topic has the same number of partitions.
SameKeySamePartition ==
  [][\A k \in Keys : (kind \in HashKinds /\ byKey[k] # NoPartition /\ all' = all)
                     => byKey'[k] = byKey[k]]_choiceVars

\* The round-robin partitioner "walks through the available partitions one at a time":
\* while these do not change, no partition is used again before every other was.
WalksThrough ==
  \A i, j \in DOMAIN round : i < j /\ round[i] = round[j] =>
    {round[m] : m \in i..(j - 1)} = writable
============================================================================
