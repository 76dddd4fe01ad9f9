---------------------------- MODULE CoreMessages ----------------------------
(***************************************************************************)
(* The messages of producing, fetching and finding one's way in the        *)
(* cluster: Produce, Fetch, ListOffsets, Metadata, FindCoordinator and     *)
(* ApiVersions.  For each Go type one layout is translated from encode and *)
(* one, separately, from decode.                                           *)
(***************************************************************************)
EXTENDS Wire

ApiVersionsRequestEncode(v) ==
  When(v >= 3, CStr("ClientSoftwareName") \o CStr("ClientSoftwareVersion") \o Tags)
ApiVersionsRequestDecode(v) ==
  When(v >= 3, CStr("ClientSoftwareName") \o CStr("ClientSoftwareVersion") \o Tags)
ApiVersionsRequest(v) ==
  Message(18, 3, IF v >= 3 THEN 2 ELSE 1,
          Required(v, <<V0_10_0_0, V0_11_0_0, V2_0_0_0, V2_4_0_0>>, V2_4_0_0),
          ApiVersionsRequestEncode(v), ApiVersionsRequestDecode(v))

ApiVersionsResponseKeyEncode(v) ==
  I16("ApiKey") \o I16("MinVersion") \o I16("MaxVersion") \o When(v >= 3, Tags)
ApiVersionsResponseKeyDecode(v) ==
  I16("ApiKey") \o I16("MinVersion") \o I16("MaxVersion") \o When(v >= 3, Tags)

ApiVersionsResponseEncode(v) ==
  I16("ErrorCode")
  \o (IF v >= 3 THEN CArr("ApiKeys", ApiVersionsResponseKeyEncode(v))
                ELSE Arr("ApiKeys", ApiVersionsResponseKeyEncode(v)))
  \o When(v >= 1, I32("ThrottleTimeMs")) \o When(v >= 3, Tags)
ApiVersionsResponseDecode(v) ==
  I16("ErrorCode")
  \o (IF v >= 3 THEN CArr("ApiKeys", ApiVersionsResponseKeyDecode(v))
                ELSE Arr("ApiKeys", ApiVersionsResponseKeyDecode(v)))
  \o When(v >= 1, I32("ThrottleTimeMs")) \o When(v >= 3, Tags)
ApiVersionsResponse(v) ==
  Message(18, 3, 0, Required(v, <<V0_10_0_0, V0_11_0_0, V2_0_0_0, V2_4_0_0>>, V2_4_0_0),
          ApiVersionsResponseEncode(v), ApiVersionsResponseDecode(v))

-----------------------------------------------------------------------------
\* No topics means all topics, which is an empty array in version 0 and null later.
MetadataRequestEncode(v) ==
  (CASE v = 0 -> Arr("Topics", Str("Topics"))
     [] v \in 1..8 -> EArr("Topics", Str("Topics"))
     [] v = 9 -> ECArr("Topics", CStr("Topics") \o Tags)
     [] OTHER -> ECArr("Topics", Raw("Uuid") \o CStr("Topics") \o Tags))
  \o When(v > 3, Bool("AllowAutoTopicCreation"))
  \o When(v > 7, Bool("IncludeClusterAuthorizedOperations")
                 \o Bool("IncludeTopicAuthorizedOperations"))
  \o When(v > 8, Tags)
MetadataRequestDecode(v) ==
  (CASE v < 9 -> NArr("Topics", Str("Topics"))
     [] v = 9 -> NCArr("Topics", CStr("Topics") \o Tags)
     [] OTHER -> NCArr("Topics", Raw("Uuid") \o NCStr("Topics") \o Tags))
  \o When(v >= 4, Bool("AllowAutoTopicCreation"))
  \o When(v > 7, Bool("IncludeClusterAuthorizedOperations")
                 \o Bool("IncludeTopicAuthorizedOperations"))
  \o When(v > 8, Tags)
MetadataRequest(v) ==
  Message(3, 10, IF v >= 9 THEN 2 ELSE 1,
          Required(v, <<V0_8_2_0, V0_10_0_0, V0_10_1_0, V0_11_0_0, V0_11_0_0, V1_0_0_0,
                        V2_0_0_0, V2_1_0_0, V2_3_0_0, V2_4_0_0, V2_8_0_0>>, V2_8_0_0),
          MetadataRequestEncode(v), MetadataRequestDecode(v))

BrokerEncode(v) ==
  I32("id") \o (IF v < 9 THEN Str("host") ELSE CStr("host")) \o I32("port")
  \o When(v >= 1, IF v < 9 THEN NStr("rack") ELSE NCStr("rack")) \o When(v >= 9, Tags)
BrokerDecode(v) ==
  I32("id") \o (IF v < 9 THEN Str("host") ELSE CStr("host")) \o I32("port")
  \o (CASE v \in 1..8 -> NStr("rack") [] v >= 9 -> NCStr("rack") [] OTHER -> <<>>)
  \o When(v >= 9, Tags)

Int32Array(v, n) == IF v < 9 THEN Arr(n, I32(n)) ELSE CArr(n, I32(n))

PartitionMetadataEncode(v) ==
  I16("Err") \o I32("ID") \o I32("Leader") \o When(v >= 7, I32("LeaderEpoch"))
  \o Int32Array(v, "Replicas") \o Int32Array(v, "Isr")
  \o When(v >= 5, Int32Array(v, "OfflineReplicas")) \o When(v >= 9, Tags)
PartitionMetadataDecode(v) ==
  I16("Err") \o I32("ID") \o I32("Leader") \o When(v >= 7, I32("LeaderEpoch"))
  \o Int32Array(v, "Replicas") \o Int32Array(v, "Isr")
  \o When(v >= 5, Int32Array(v, "OfflineReplicas")) \o When(v >= 9, Tags)

TopicMetadataEncode(v) ==
  I16("Err") \o (IF v < 9 THEN Str("Name") ELSE CStr("Name")) \o When(v >= 10, Raw("Uuid"))
  \o When(v >= 1, Bool("IsInternal"))
  \o (IF v < 9 THEN Arr("Partitions", PartitionMetadataEncode(v))
               ELSE CArr("Partitions", PartitionMetadataEncode(v)))
  \o When(v >= 8, I32("TopicAuthorizedOperations")) \o When(v >= 9, Tags)
TopicMetadataDecode(v) ==
  I16("Err") \o (IF v < 9 THEN Str("Name") ELSE CStr("Name")) \o When(v >= 10, Raw("Uuid"))
  \o When(v >= 1, Bool("IsInternal"))
  \o (IF v < 9 THEN Arr("Partitions", PartitionMetadataDecode(v))
               ELSE CArr("Partitions", PartitionMetadataDecode(v)))
  \o When(v >= 8, I32("TopicAuthorizedOperations")) \o When(v >= 9, Tags)

MetadataResponseEncode(v) ==
  When(v >= 3, I32("ThrottleTimeMs"))
  \o (IF v < 9 THEN Arr("Brokers", BrokerEncode(v)) ELSE CArr("Brokers", BrokerEncode(v)))
  \o When(v >= 2, IF v < 9 THEN NStr("ClusterID") ELSE NCStr("ClusterID"))
  \o When(v >= 1, I32("ControllerID"))
  \o (IF v < 9 THEN Arr("Topics", TopicMetadataEncode(v))
               ELSE CArr("Topics", TopicMetadataEncode(v)))
  \o When(v >= 8, I32("ClusterAuthorizedOperations")) \o When(v >= 9, Tags)
MetadataResponseDecode(v) ==
  When(v >= 3, I32("ThrottleTimeMs"))
  \o (IF v < 9 THEN Arr("Brokers", BrokerDecode(v)) ELSE CArr("Brokers", BrokerDecode(v)))
  \o When(v >= 2, IF v < 9 THEN NStr("ClusterID") ELSE NCStr("ClusterID"))
  \o When(v >= 1, I32("ControllerID"))
  \o (IF v < 9 THEN Arr("Topics", TopicMetadataDecode(v))
               ELSE CArr("Topics", TopicMetadataDecode(v)))
  \o When(v >= 8, I32("ClusterAuthorizedOperations")) \o When(v >= 9, Tags)
MetadataResponse(v) ==
  Message(3, 7, IF v < 9 THEN 0 ELSE 1,
          Required(v, <<V0_8_2_0, V0_10_0_0, V0_10_1_0, V0_11_0_0, V0_11_0_0, V1_0_0_0,
                        V2_0_0_0, V2_1_0_0, V2_3_0_0, V2_4_0_0, V2_8_0_0>>, V2_8_0_0),
          MetadataResponseEncode(v), MetadataResponseDecode(v))

-----------------------------------------------------------------------------
\* The records of a partition are one field: an int32 length and that many bytes.
ProduceRequestEncode(v) ==
  When(v >= 3, NStr("TransactionalID")) \o I16("RequiredAcks") \o I32("Timeout")
  \o Arr("records", Str("topic") \o Arr("partitions", I32("partition") \o Bytes("records")))
ProduceRequestDecode(v) ==
  When(v >= 3, NStr("TransactionalID")) \o I16("RequiredAcks") \o I32("Timeout")
  \o ArrThen("records",
             Str("topic") \o Arr("partitions", I32("partition") \o Bytes("records")), <<>>)
ProduceRequest(v) ==
  Message(0, 7, 1, Required(v, <<V0_8_2_0, V0_9_0_0, V0_10_0_0, V0_11_0_0, V1_0_0_0, V1_0_0_0,
                                 V2_0_0_0, V2_1_0_0>>, V2_1_0_0),
          ProduceRequestEncode(v), ProduceRequestDecode(v))

ProduceResponseBlockEncode(v) ==
  I16("Err") \o I64("Offset") \o When(v >= 2, I64("Timestamp")) \o When(v >= 5, I64("StartOffset"))
ProduceResponseBlockDecode(v) ==
  I16("Err") \o I64("Offset") \o When(v >= 2, I64("Timestamp")) \o When(v >= 5, I64("StartOffset"))

ProduceResponseEncode(v) ==
  Arr("Blocks", Str("topic") \o Arr("partitions",
                                    I32("partition") \o ProduceResponseBlockEncode(v)))
  \o When(v >= 1, I32("ThrottleTime"))
ProduceResponseDecode(v) ==
  Arr("Blocks", Str("topic") \o Arr("partitions",
                                    I32("partition") \o ProduceResponseBlockDecode(v)))
  \o When(v >= 1, I32("ThrottleTime"))
ProduceResponse(v) ==
  Message(0, 7, 0, Required(v, <<V0_8_2_0, V0_9_0_0, V0_10_0_0, V0_11_0_0, V1_0_0_0, V1_0_0_0,
                                 V2_0_0_0, V2_1_0_0>>, V2_1_0_0),
          ProduceResponseEncode(v), ProduceResponseDecode(v))

-----------------------------------------------------------------------------
FetchRequestBlockEncode(v) ==
  When(v >= 9, I32("currentLeaderEpoch")) \o I64("fetchOffset")
  \o When(v >= 5, I64("logStartOffset")) \o I32("maxBytes")
FetchRequestBlockDecode(v) ==
  When(v >= 9, I32("currentLeaderEpoch")) \o I64("fetchOffset")
  \o When(v >= 5, I64("logStartOffset")) \o I32("maxBytes")

FetchRequestEncode(v) ==
  I32("ReplicaID") \o I32("MaxWaitTime") \o I32("MinBytes") \o When(v >= 3, I32("MaxBytes"))
  \o When(v >= 4, I8("Isolation")) \o When(v >= 7, I32("SessionID") \o I32("SessionEpoch"))
  \o Arr("blocks", Str("topic") \o Arr("partitions",
                                       I32("partition") \o FetchRequestBlockEncode(v)))
  \o When(v >= 7, Arr("forgotten", Str("topic") \o Arr("partitions", I32("partition"))))
  \o When(v >= 11, Str("RackID"))
\* The decoder returns as soon as it sees that there are no topics.
\* Faulty variant: the isolation level is expected one version too late.
IsolationLate(v) ==
  I32("ReplicaID") \o I32("MaxWaitTime") \o I32("MinBytes") \o When(v >= 3, I32("MaxBytes"))
  \o When(v > 4, I8("Isolation")) \o When(v >= 7, I32("SessionID") \o I32("SessionEpoch"))
  \o ArrThen("blocks",
             Str("topic") \o Arr("partitions", I32("partition") \o FetchRequestBlockDecode(v)),
             When(v >= 7, Arr("forgotten", Str("topic") \o Arr("partitions", I32("partition"))))
             \o When(v >= 11, Str("RackID")))
FetchRequestDecode(v) ==
  I32("ReplicaID") \o I32("MaxWaitTime") \o I32("MinBytes") \o When(v >= 3, I32("MaxBytes"))
  \o When(v >= 4, I8("Isolation")) \o When(v >= 7, I32("SessionID") \o I32("SessionEpoch"))
  \o ArrThen("blocks",
             Str("topic") \o Arr("partitions", I32("partition") \o FetchRequestBlockDecode(v)),
             When(v >= 7, Arr("forgotten", Str("topic") \o Arr("partitions", I32("partition"))))
             \o When(v >= 11, Str("RackID")))
FetchRequest(v) ==
  Message(1, 11, 1, Required(v, <<V0_8_2_0, V0_9_0_0, V0_10_0_0, V0_10_1_0, V0_11_0_0, V0_11_0_0,
                                  V1_0_0_0, V1_1_0_0, V2_0_0_0, V2_1_0_0, V2_1_0_0, V2_3_0_0>>,
                             V2_3_0_0),
          FetchRequestEncode(v), FetchRequestDecode(v))

AbortedTransactionEncode == I64("ProducerID") \o I64("FirstOffset")
AbortedTransactionDecode == I64("ProducerID") \o I64("FirstOffset")

FetchResponseBlockEncode(v) ==
  I16("Err") \o I64("HighWaterMarkOffset")
  \o When(v >= 4, I64("LastStableOffset") \o When(v >= 5, I64("LogStartOffset"))
                  \o Arr("AbortedTransactions", AbortedTransactionEncode))
  \o When(v >= 11, I32("PreferredReadReplica")) \o Bytes("RecordsSet")
FetchResponseBlockDecode(v) ==
  I16("Err") \o I64("HighWaterMarkOffset")
  \o When(v >= 4, I64("LastStableOffset") \o When(v >= 5, I64("LogStartOffset"))
                  \o NArr("AbortedTransactions", AbortedTransactionDecode))
  \o When(v >= 11, I32("PreferredReadReplica")) \o Bytes("RecordsSet")

FetchResponseEncode(v) ==
  When(v >= 1, I32("ThrottleTime")) \o When(v >= 7, I16("ErrorCode") \o I32("SessionID"))
  \o Arr("Blocks", Str("topic") \o Arr("partitions",
                                       I32("partition") \o FetchResponseBlockEncode(v)))
FetchResponseDecode(v) ==
  When(v >= 1, I32("ThrottleTime")) \o When(v >= 7, I16("ErrorCode") \o I32("SessionID"))
  \o Arr("Blocks", Str("topic") \o Arr("partitions",
                                       I32("partition") \o FetchResponseBlockDecode(v)))
FetchResponse(v) ==
  Message(1, 11, 0, Required(v, <<V0_8_2_0, V0_9_0_0, V0_10_0_0, V0_10_1_0, V0_11_0_0, V0_11_0_0,
                                  V1_0_0_0, V1_1_0_0, V2_0_0_0, V2_1_0_0, V2_1_0_0, V2_3_0_0>>,
                             V2_3_0_0),
          FetchResponseEncode(v), FetchResponseDecode(v))

-----------------------------------------------------------------------------
OffsetRequestBlockEncode(v) ==
  When(v >= 4, I32("currentLeaderEpoch")) \o I64("timestamp") \o When(v = 0, I32("maxNumOffsets"))
OffsetRequestBlockDecode(v) ==
  When(v >= 4, I32("currentLeaderEpoch")) \o I64("timestamp") \o When(v = 0, I32("maxNumOffsets"))

OffsetRequestEncode(v) ==
  I32("replicaID") \o When(v >= 2, Bool("IsolationLevel"))
  \o Arr("blocks", Str("topic") \o Arr("partitions",
                                       I32("partition") \o OffsetRequestBlockEncode(v)))
OffsetRequestDecode(v) ==
  I32("replicaID") \o When(v >= 2, Bool("IsolationLevel"))
  \o ArrThen("blocks", Str("topic") \o Arr("partitions",
                                           I32("partition") \o OffsetRequestBlockDecode(v)), <<>>)
OffsetRequest(v) ==
  Message(2, 4, 1, Required(v, <<V0_8_2_0, V0_10_1_0, V0_11_0_0, V2_0_0_0, V2_1_0_0>>, V2_0_0_0),
          OffsetRequestEncode(v), OffsetRequestDecode(v))

OffsetResponseBlockEncode(v) ==
  I16("Err") \o (IF v = 0 THEN Arr("Offsets", I64("Offsets"))
                 ELSE I64("Timestamp") \o I64("Offset") \o When(v >= 4, I32("LeaderEpoch")))
OffsetResponseBlockDecode(v) ==
  I16("Err") \o (IF v = 0 THEN Arr("Offsets", I64("Offsets"))
                 ELSE I64("Timestamp") \o I64("Offset") \o When(v >= 4, I32("LeaderEpoch")))

OffsetResponseEncode(v) ==
  When(v >= 2, I32("ThrottleTimeMs"))
  \o Arr("Blocks", Str("topic") \o Arr("partitions",
                                       I32("partition") \o OffsetResponseBlockEncode(v)))
OffsetResponseDecode(v) ==
  When(v >= 2, I32("ThrottleTimeMs"))
  \o Arr("Blocks", Str("topic") \o Arr("partitions",
                                       I32("partition") \o OffsetResponseBlockDecode(v)))
OffsetResponse(v) ==
  Message(2, 4, 0, Required(v, <<V0_8_2_0, V0_10_1_0, V0_11_0_0, V2_0_0_0, V2_1_0_0>>, V2_0_0_0),
          OffsetResponseEncode(v), OffsetResponseDecode(v))

-----------------------------------------------------------------------------
FindCoordinatorRequestEncode(v) == Str("CoordinatorKey") \o When(v >= 1, I8("CoordinatorType"))
FindCoordinatorRequestDecode(v) == Str("CoordinatorKey") \o When(v >= 1, I8("CoordinatorType"))
FindCoordinatorRequest(v) ==
  Message(10, 2, 1, Required(v, <<V0_8_2_0, V0_11_0_0, V2_0_0_0>>, V0_8_2_0),
          FindCoordinatorRequestEncode(v), FindCoordinatorRequestDecode(v))

FindCoordinatorResponseEncode(v) ==
  When(v >= 1, I32("ThrottleTime")) \o I16("Err") \o When(v >= 1, NStr("ErrMsg")) \o BrokerEncode(0)
FindCoordinatorResponseDecode(v) ==
  When(v >= 1, I32("ThrottleTime")) \o I16("Err") \o When(v >= 1, NStr("ErrMsg")) \o BrokerDecode(0)
FindCoordinatorResponse(v) ==
  Message(10, 2, 0, Required(v, <<V0_8_2_0, V0_11_0_0, V2_0_0_0>>, V0_8_2_0),
          FindCoordinatorResponseEncode(v), FindCoordinatorResponseDecode(v))

\* ConsumerMetadata is FindCoordinator for groups under its old name.  Its response
\* encoder never has a message for the error.
ConsumerMetadataRequestEncode(v) == FindCoordinatorRequestEncode(v)
ConsumerMetadataRequestDecode(v) == FindCoordinatorRequestDecode(v)
ConsumerMetadataRequest(v) ==
  Message(10, 2, 1, Required(v, <<V0_8_2_0, V0_11_0_0, V2_0_0_0>>, V0_8_2_0),
          ConsumerMetadataRequestEncode(v), ConsumerMetadataRequestDecode(v))

ConsumerMetadataResponseEncode(v) == FindCoordinatorResponseEncode(v)
ConsumerMetadataResponseDecode(v) == FindCoordinatorResponseDecode(v)
ConsumerMetadataResponse(v) ==
  Message(10, 2, 0, Required(v, <<V0_8_2_0, V0_11_0_0, V2_0_0_0>>, V0_8_2_0),
          ConsumerMetadataResponseEncode(v), ConsumerMetadataResponseDecode(v))
=============================================================================
