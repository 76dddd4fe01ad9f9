---------------------------- MODULE FunctionProofs ----------------------------
(***************************************************************************)
(* Proofs about the functions that choose partitions. For every width of   *)
(* the integers, every hash and every number of partitions, a partitioner  *)
(* other than the manual one chooses a partition of the list it was asked  *)
(* to choose from. For every number of partitions and of members, the      *)
(* range strategy shares out each partition of a topic exactly once.       *)
(***************************************************************************)
EXTENDS Partitioner, Assignor, FiniteSetTheorems, TLAPS

-----------------------------------------------------------------------------
(* The partitioners *)

\* Go's remainder is smaller than the divisor in magnitude.
LEMMA RemBounds ==
  ASSUME NEW a \in Int, NEW n \in Nat \ {0}
  PROVE  Rem(a, n) \in (1 - n)..(n - 1)
<1>1. a % n \in 0..(n - 1) /\ (-a) % n \in 0..(n - 1)
  OBVIOUS
<1> QED
  BY <1>1 DEF Rem

\* What each of the three hash partitioners makes of a hash is the index of one of n partitions.
LEMMA HashInRange ==
  ASSUME NEW u \in Words, NEW n \in Nat \ {0}, NEW k \in HashKinds
  PROVE  HashChoice(k, u, n) \in 0..(n - 1)
<1>1. u \in Nat /\ Half \in Nat \ {0}
  BY WidthAssumption DEF Words
<1>2. HashAbs(u, n) \in 0..(n - 1)
  <2>1. Signed(u) \in Int
    BY <1>1 DEF Signed
  <2>2. Rem(Signed(u), n) \in (1 - n)..(n - 1)
    BY <2>1, RemBounds
  <2> QED
    BY <2>2 DEF HashAbs
<1>3. HashReference(u, n) \in 0..(n - 1)
  <2>1. u % Half \in Nat
    BY <1>1
  <2> QED
    BY <2>1 DEF HashReference
<1>4. HashUnsigned(u, n) \in 0..(n - 1)
  BY <1>1 DEF HashUnsigned
<1> QED
  BY <1>2, <1>3, <1>4 DEF HashChoice, HashKinds

\* What the choice rests on: the partitions are finitely many and the turn is a number.
ChoiceInv ==
  /\ kind \in AllKinds /\ hash \in [Keys -> Words] /\ turn \in Nat
  /\ IsFiniteSet(all) /\ writable \subseteq all
  /\ NeverInvalid

LEMMA ChoiceInvInit == ChoiceInit => ChoiceInv
<1> SUFFICES ASSUME ChoiceInit PROVE ChoiceInv
  OBVIOUS
<1>1. kind \in AllKinds /\ hash \in [Keys -> Words] /\ turn \in Nat /\ writable \subseteq all
  BY KindsAssumption DEF ChoiceInit
<1>2. PICK n \in Partitions : all = 0..n
  BY DEF ChoiceInit
<1>3. n \in Int
  BY <1>2, PartitionsAssumption DEF Partitions
<1>4. IsFiniteSet(all)
  BY <1>2, <1>3, FS_Interval
<1>5. NeverInvalid
  BY DEF ChoiceInit, NeverInvalid
<1> QED
  BY <1>1, <1>4, <1>5 DEF ChoiceInv

\* Whatever a partitioner other than the manual one chooses among n > 0 partitions is in range.
LEMMA ChoiceInRange ==
  ASSUME ChoiceInv, kind # "manual", NEW key \in Keys \union {NoKey}, NEW manual, NEW n \in Nat \ {0},
         NEW c \in PartitionChoices(key, manual, n)
  PROVE  c \in 0..(n - 1)
<1>1. CASE kind = "roundRobin"
  <2>1. c = RoundRobin(n) /\ turn \in Nat
    BY <1>1 DEF PartitionChoices, ChoiceInv, HashKinds
  <2> QED
    BY <2>1 DEF RoundRobin
<1>2. CASE kind \in HashKinds /\ key # NoKey
  <2>1. c = HashChoice(kind, hash[key], n)
    BY <1>2 DEF PartitionChoices, HashKinds
  <2>2. hash[key] \in Words
    BY <1>2 DEF ChoiceInv
  <2> QED
    BY <2>1, <2>2, <1>2, HashInRange
<1>3. CASE kind # "roundRobin" /\ ~(kind \in HashKinds /\ key # NoKey)
  BY <1>3 DEF PartitionChoices
<1> QED
  BY <1>1, <1>2, <1>3

LEMMA ChoiceInvNext == ChoiceInv /\ [ChoiceNext]_choiceVars => ChoiceInv'
<1> SUFFICES ASSUME ChoiceInv, [ChoiceNext]_choiceVars PROVE ChoiceInv'
  OBVIOUS
<1>1. ASSUME NEW key \in Keys \union {NoKey}, NEW manual \in Partitions, PartitionMessage(key, manual)
      PROVE  ChoiceInv'
  <2> DEFINE from == Candidates(key)
             n == Cardinality(from)
  <2>1. kind' = kind /\ hash' = hash /\ all' = all /\ writable' = writable
    BY <1>1 DEF PartitionMessage
  <2>2. IsFiniteSet(from)
    BY FS_Subset DEF ChoiceInv, Candidates
  <2>3. n \in Nat
    BY <2>2, FS_CardinalityType
  <2>4. turn' \in Nat
    <3> HIDE DEF n
    <3>1. turn' = turn \/ turn' = RoundRobin(n) + 1
      BY <1>1 DEF PartitionMessage, n
    <3>2. turn \in Nat
      BY DEF ChoiceInv
    <3> QED
      BY <3>1, <3>2 DEF RoundRobin
  <2>5. NeverInvalid'
    <3> SUFFICES ASSUME kind' # "manual" PROVE outcome' # "ErrInvalidPartition"
      BY DEF NeverInvalid
    <3>1. CASE n = 0
      BY <1>1, <3>1 DEF PartitionMessage
    <3>2. CASE n # 0
      <4>1. PICK choice \in PartitionChoices(key, manual, n) :
              IF choice \in 0..(n - 1)
              THEN Chosen(key, choice, from)
              ELSE outcome' = "ErrInvalidPartition"
        BY <1>1, <3>2 DEF PartitionMessage
      <4>2. n \in Nat \ {0} /\ kind # "manual"
        BY <2>1, <2>3, <3>2
      <4>3. choice \in 0..(n - 1)
        <5> HIDE DEF n
        <5> QED BY <4>1, <4>2, ChoiceInRange
      <4> QED
        BY <4>1, <4>3 DEF Chosen
    <3> QED
      BY <3>1, <3>2
  <2> QED
    BY <2>1, <2>4, <2>5 DEF ChoiceInv
<1>2. CASE EncodeFails
  BY <1>2 DEF EncodeFails, ChoiceInv, NeverInvalid
<1>3. CASE PartitionFails
  BY <1>3 DEF PartitionFails, ChoiceInv, NeverInvalid
<1>4. CASE BreakerTimeout
  BY <1>4 DEF BreakerTimeout, ChoiceInv, NeverInvalid
<1>5. CASE Refresh
  <2>1. /\ kind' = kind /\ hash' = hash /\ turn' = turn /\ outcome' = outcome
        /\ all' = all \/ all' = 0..Cardinality(all)
        /\ writable' \subseteq all'
    BY <1>5 DEF Refresh
  <2>2. IsFiniteSet(all) /\ Cardinality(all) \in Nat
    BY FS_CardinalityType DEF ChoiceInv
  <2>3. IsFiniteSet(0..Cardinality(all))
    BY <2>2, FS_Interval
  <2>4. IsFiniteSet(all')
    BY <2>1, <2>2, <2>3
  <2> QED
    BY <2>1, <2>4 DEF ChoiceInv, NeverInvalid
<1>6. CASE UNCHANGED choiceVars
  BY <1>6 DEF choiceVars, ChoiceInv, NeverInvalid
<1> QED
  BY <1>1, <1>2, <1>3, <1>4, <1>5, <1>6 DEF ChoiceNext

\* No message is refused with ErrInvalidPartition unless its partition was set by hand
\* (partitioner.go, async_producer.go:554), whatever the width of the hash, the hashes of the
\* keys, the number of partitions and the leaders that come and go.
THEOREM PartitionersStayInRange == ChoiceSpec => []NeverInvalid
<1>1. ChoiceInv => NeverInvalid
  BY DEF ChoiceInv
<1> QED
  BY ChoiceInvInit, ChoiceInvNext, <1>1, PTL DEF ChoiceSpec

-----------------------------------------------------------------------------
(* The range strategy *)

\* The quotient and the remainder coreFn divides the partitions into.
LEMMA DivMod ==
  ASSUME NEW n \in Nat, NEW k \in Nat \ {0}
  PROVE  /\ n \div k \in Nat
         /\ n % k \in 0..(k - 1)
         /\ n = k * (n \div k) + (n % k)
  OBVIOUS

LEMMA Times ==
  ASSUME NEW a \in Nat, NEW b \in Nat, NEW q \in Nat
  PROVE  /\ a * q \in Nat
         /\ (a + 1) * q = a * q + q
         /\ a <= b => a * q <= b * q
  OBVIOUS

\* For every number of partitions and of members, the slices tile the
\* partitions of a topic.
THEOREM RangesTile ==
  ASSUME NEW n \in Nat, NEW k \in Nat \ {0}
  PROVE  Tiles(n, k)
PROOF
  <1> DEFINE q == n \div k
             r == n % k
  <1>1. q \in Nat /\ r \in 0..(k - 1) /\ n = k * q + r
    BY DivMod, Zenon
  <1> HIDE DEF q, r
  <1>2. \A i \in Nat : RangeMin(i, n, k) = i * q + (IF r < i THEN r ELSE i)
    BY DEF RangeMin, q, r
  <1>3. \A i \in Nat : RangeMax(i, n, k) = i * q + (IF r < i THEN r ELSE i)
                                           + q + (IF i < r THEN 1 ELSE 0)
    BY <1>2 DEF RangeMax, q, r
  <1>4. \A i \in Nat : i * q \in Nat /\ (i + 1) * q = i * q + q
    BY <1>1, Times
  <1>5. ASSUME NEW i \in Nat
        PROVE  RangeMax(i, n, k) = RangeMin(i + 1, n, k)
    <2>1. RangeMin(i + 1, n, k) = (i + 1) * q + (IF r < i + 1 THEN r ELSE i + 1)
      BY <1>2
    <2>2. RangeMin(i + 1, n, k) = i * q + q + (IF r < i + 1 THEN r ELSE i + 1)
      BY <2>1, <1>4
    <2>3. RangeMax(i, n, k) = i * q + (IF r < i THEN r ELSE i) + q + (IF i < r THEN 1 ELSE 0)
      BY <1>3
    <2> QED
      BY <1>1, <1>4, <2>2, <2>3
  <1>6. RangeMin(0, n, k) = 0
    BY <1>1, <1>2
  <1>7. RangeMax(k - 1, n, k) = n
    <2>1. RangeMax(k - 1, n, k) = RangeMin(k, n, k)
      BY <1>5
    <2>2. RangeMin(k, n, k) = k * q + r
      BY <1>1, <1>2
    <2> QED
      BY <2>1, <2>2, <1>1
  <1>8. \A i \in Nat : RangeMax(i, n, k) - RangeMin(i, n, k) \in {q, q + 1}
    BY <1>1, <1>2, <1>3, <1>4
  <1>9. ASSUME NEW i \in Nat, NEW j \in Nat, i < j
        PROVE  RangeMax(i, n, k) <= RangeMin(j, n, k)
    <2>1. (i + 1) * q <= j * q
      BY <1>1, <1>9, Times
    <2>2. (i + 1) * q \in Nat /\ j * q \in Nat
      BY <1>4
    <2>3. /\ RangeMin(i + 1, n, k) = (i + 1) * q + (IF r < i + 1 THEN r ELSE i + 1)
          /\ RangeMin(j, n, k) = j * q + (IF r < j THEN r ELSE j)
      BY <1>2
    <2>4. RangeMin(i + 1, n, k) <= RangeMin(j, n, k)
      <3> DEFINE a == (i + 1) * q
                 b == j * q
      <3>1. a \in Nat /\ b \in Nat /\ a <= b
        BY <2>1, <2>2
      <3>2. /\ RangeMin(i + 1, n, k) = a + (IF r < i + 1 THEN r ELSE i + 1)
            /\ RangeMin(j, n, k) = b + (IF r < j THEN r ELSE j)
        BY <2>3
      <3> HIDE DEF a, b
      <3> QED
        BY <1>1, <1>9, <3>1, <3>2
    <2> QED
      BY <1>5, <2>4
  <1> QED
    BY <1>5, <1>6, <1>7, <1>8, <1>9 DEF Tiles, q

\* In every call of Plan, whatever the members and the topics, the slices of
\* each topic tile its partitions.
THEOREM SlicesAlwaysTile == Spec => []SlicesTile
PROOF
  <1> DEFINE Inv == parts \in [Topics -> Nat]
  <1>1. Init => Inv
    BY AssignorAssumption DEF Init
  <1>2. Inv /\ [Next]_vars => Inv'
    BY DEF Next, PlanRange, StartRoundRobin, PassOver, Give, Finish, vars
  <1>3. Inv => SlicesTile
    <2> SUFFICES ASSUME Inv, NEW t \in Topics, NEW k \in 1..Cardinality(Members)
                 PROVE  Tiles(parts[t], k)
      BY DEF SlicesTile
    <2>1. Cardinality(Members) \in Nat
      BY AssignorAssumption, FS_CardinalityType
    <2>2. parts[t] \in Nat /\ k \in Nat \ {0}
      BY <2>1
    <2> QED
      BY <2>2, RangesTile
  <1> QED
    BY <1>1, <1>2, <1>3, PTL DEF Spec
=============================================================================
