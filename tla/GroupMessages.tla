--------------------------- MODULE GroupMessages ----------------------------
(***************************************************************************)
(* The messages of consumer groups, their offsets and transactions.        *)
(***************************************************************************)
EXTENDS Wire

GroupProtocolEncode == Str("Name") \o Bytes("Metadata")
GroupProtocolDecode == Str("Name") \o Bytes("Metadata")

JoinGroupRequestEncode(v) ==
  Str("GroupId") \o I32("SessionTimeout") \o When(v >= 1, I32("RebalanceTimeout"))
  \o Str("MemberId") \o When(v >= 5, NStr("GroupInstanceId")) \o Str("ProtocolType")
  \o Arr("GroupProtocols", GroupProtocolEncode)
JoinGroupRequestDecode(v) ==
  Str("GroupId") \o I32("SessionTimeout") \o When(v >= 1, I32("RebalanceTimeout"))
  \o Str("MemberId") \o When(v >= 5, NStr("GroupInstanceId")) \o Str("ProtocolType")
  \o ArrThen("GroupProtocols", GroupProtocolDecode, <<>>)
JoinGroupRequest(v) ==
  Message(11, 5, 1, Required(v, <<V0_10_0_0, V0_10_1_0, V0_11_0_0, V2_0_0_0, V2_2_0_0, V2_3_0_0>>,
                             V2_3_0_0),
          JoinGroupRequestEncode(v), JoinGroupRequestDecode(v))

JoinGroupResponseEncode(v) ==
  When(v >= 2, I32("ThrottleTime")) \o I16("Err") \o I32("GenerationId") \o Str("GroupProtocol")
  \o Str("LeaderId") \o Str("MemberId")
  \o Arr("Members", Str("MemberId") \o When(v >= 5, NStr("GroupInstanceId")) \o Bytes("Metadata"))
JoinGroupResponseDecode(v) ==
  When(v >= 2, I32("ThrottleTime")) \o I16("Err") \o I32("GenerationId") \o Str("GroupProtocol")
  \o Str("LeaderId") \o Str("MemberId")
  \o ArrThen("Members", Str("MemberId") \o When(v >= 5, NStr("GroupInstanceId"))
                        \o Bytes("Metadata"), <<>>)
JoinGroupResponse(v) ==
  Message(11, 5, 0, Required(v, <<V0_10_0_0, V0_10_1_0, V0_11_0_0, V2_0_0_0, V2_2_0_0, V2_3_0_0>>,
                             V2_3_0_0),
          JoinGroupResponseEncode(v), JoinGroupResponseDecode(v))

SyncGroupRequestAssignmentEncode == Str("MemberId") \o Bytes("Assignment")
SyncGroupRequestAssignmentDecode == Str("MemberId") \o Bytes("Assignment")

SyncGroupRequestEncode(v) ==
  Str("GroupId") \o I32("GenerationId") \o Str("MemberId") \o When(v >= 3, NStr("GroupInstanceId"))
  \o Arr("GroupAssignments", SyncGroupRequestAssignmentEncode)
SyncGroupRequestDecode(v) ==
  Str("GroupId") \o I32("GenerationId") \o Str("MemberId") \o When(v >= 3, NStr("GroupInstanceId"))
  \o NArr("GroupAssignments", SyncGroupRequestAssignmentDecode)
SyncGroupRequest(v) ==
  Message(14, 3, 1, Required(v, <<V0_9_0_0, V0_11_0_0, V2_0_0_0, V2_3_0_0>>, V2_3_0_0),
          SyncGroupRequestEncode(v), SyncGroupRequestDecode(v))

SyncGroupResponseEncode(v) ==
  When(v >= 1, I32("ThrottleTime")) \o I16("Err") \o Bytes("MemberAssignment")
SyncGroupResponseDecode(v) ==
  When(v >= 1, I32("ThrottleTime")) \o I16("Err") \o Bytes("MemberAssignment")
SyncGroupResponse(v) ==
  Message(14, 3, 0, Required(v, <<V0_9_0_0, V0_11_0_0, V2_0_0_0, V2_3_0_0>>, V2_3_0_0),
          SyncGroupResponseEncode(v), SyncGroupResponseDecode(v))

HeartbeatRequestEncode(v) ==
  Str("GroupId") \o I32("GenerationId") \o Str("MemberId") \o When(v >= 3, NStr("GroupInstanceId"))
HeartbeatRequestDecode(v) ==
  Str("GroupId") \o I32("GenerationId") \o Str("MemberId") \o When(v >= 3, NStr("GroupInstanceId"))
HeartbeatRequest(v) ==
  Message(12, 3, 1, Required(v, <<V0_8_2_0, V0_11_0_0, V2_0_0_0, V2_3_0_0>>, V2_3_0_0),
          HeartbeatRequestEncode(v), HeartbeatRequestDecode(v))

HeartbeatResponseEncode(v) == When(v >= 1, I32("ThrottleTime")) \o I16("Err")
HeartbeatResponseDecode(v) == When(v >= 1, I32("ThrottleTime")) \o I16("Err")
HeartbeatResponse(v) ==
  Message(12, 3, 0, Required(v, <<V0_8_2_0, V0_11_0_0, V2_0_0_0, V2_3_0_0>>, V2_3_0_0),
          HeartbeatResponseEncode(v), HeartbeatResponseDecode(v))

LeaveGroupRequestEncode(v) ==
  Str("GroupId") \o When(v < 3, Str("MemberId"))
  \o When(v >= 3, Arr("Members", Str("MemberId") \o NStr("GroupInstanceId")))
LeaveGroupRequestDecode(v) ==
  Str("GroupId") \o When(v < 3, Str("MemberId"))
  \o When(v >= 3, Arr("Members", Str("MemberId") \o NStr("GroupInstanceId")))
LeaveGroupRequest(v) ==
  Message(13, 3, 1, Required(v, <<V0_9_0_0, V0_11_0_0, V2_0_0_0, V2_4_0_0>>, V2_4_0_0),
          LeaveGroupRequestEncode(v), LeaveGroupRequestDecode(v))

LeaveGroupResponseEncode(v) ==
  When(v >= 1, I32("ThrottleTime")) \o I16("Err")
  \o When(v >= 3, Arr("Members", Str("MemberId") \o NStr("GroupInstanceId") \o I16("Err")))
LeaveGroupResponseDecode(v) ==
  When(v >= 1, I32("ThrottleTime")) \o I16("Err")
  \o When(v >= 3, Arr("Members", Str("MemberId") \o NStr("GroupInstanceId") \o I16("Err")))
LeaveGroupResponse(v) ==
  Message(13, 3, 0, Required(v, <<V0_9_0_0, V0_11_0_0, V2_0_0_0, V2_4_0_0>>, V2_4_0_0),
          LeaveGroupResponseEncode(v), LeaveGroupResponseDecode(v))

-----------------------------------------------------------------------------
DescribeGroupsRequestEncode(v) ==
  Arr("Groups", Str("Groups")) \o When(v >= 3, Bool("IncludeAuthorizedOperations"))
DescribeGroupsRequestDecode(v) ==
  Arr("Groups", Str("Groups")) \o When(v >= 3, Bool("IncludeAuthorizedOperations"))
DescribeGroupsRequest(v) ==
  Message(15, 4, 1, Required(v, <<V0_9_0_0, V0_11_0_0, V2_0_0_0, V2_3_0_0, V2_4_0_0>>, V2_4_0_0),
          DescribeGroupsRequestEncode(v), DescribeGroupsRequestDecode(v))

GroupMemberDescriptionEncode(v) ==
  Str("MemberId") \o When(v >= 4, NStr("GroupInstanceId")) \o Str("ClientId") \o Str("ClientHost")
  \o Bytes("MemberMetadata") \o Bytes("MemberAssignment")
GroupMemberDescriptionDecode(v) ==
  Str("MemberId") \o When(v >= 4, NStr("GroupInstanceId")) \o Str("ClientId") \o Str("ClientHost")
  \o Bytes("MemberMetadata") \o Bytes("MemberAssignment")

GroupDescriptionEncode(v) ==
  I16("ErrorCode") \o Str("GroupId") \o Str("State") \o Str("ProtocolType") \o Str("Protocol")
  \o Arr("Members", GroupMemberDescriptionEncode(v)) \o When(v >= 3, I32("AuthorizedOperations"))
GroupDescriptionDecode(v) ==
  I16("ErrorCode") \o Str("GroupId") \o Str("State") \o Str("ProtocolType") \o Str("Protocol")
  \o NArr("Members", GroupMemberDescriptionDecode(v)) \o When(v >= 3, I32("AuthorizedOperations"))

DescribeGroupsResponseEncode(v) ==
  When(v >= 1, I32("ThrottleTimeMs")) \o Arr("Groups", GroupDescriptionEncode(v))
DescribeGroupsResponseDecode(v) ==
  When(v >= 1, I32("ThrottleTimeMs")) \o NArr("Groups", GroupDescriptionDecode(v))
DescribeGroupsResponse(v) ==
  Message(15, 4, 0, Required(v, <<V0_9_0_0, V0_11_0_0, V2_0_0_0, V2_3_0_0, V2_4_0_0>>, V2_4_0_0),
          DescribeGroupsResponseEncode(v), DescribeGroupsResponseDecode(v))

ListGroupsRequestEncode(v) ==
  When(v >= 4, CArr("StatesFilter", CStr("StatesFilter"))) \o When(v >= 3, Tags)
ListGroupsRequestDecode(v) ==
  When(v >= 4, NCArr("StatesFilter", CStr("StatesFilter"))) \o When(v >= 3, Tags)
ListGroupsRequest(v) ==
  Message(16, 4, IF v >= 3 THEN 2 ELSE 1,
          Required(v, <<V0_9_0_0, V0_11_0_0, V2_0_0_0, V2_4_0_0, V2_6_0_0>>, V2_6_0_0),
          ListGroupsRequestEncode(v), ListGroupsRequestDecode(v))

\* encode writes no tagged fields in any version; decode reads them from version 3.
ListGroupsResponseEncode(v) ==
  When(v >= 1, I32("ThrottleTime")) \o I16("Err")
  \o (IF v <= 2 THEN Arr("Groups", Str("groupId") \o Str("protocolType"))
      ELSE CArr("Groups", CStr("groupId") \o CStr("protocolType") \o When(v >= 4, CStr("GroupState"))))
ListGroupsResponseDecode(v) ==
  When(v >= 1, I32("ThrottleTime")) \o I16("Err")
  \o (IF v <= 2 THEN Arr("Groups", Str("groupId") \o Str("protocolType"))
      ELSE CArr("Groups", CStr("groupId") \o CStr("protocolType") \o When(v >= 4, CStr("GroupState"))
                          \o Tags))
  \o When(v >= 3, Tags)
ListGroupsResponse(v) ==
  Message(16, 4, IF v >= 3 THEN 1 ELSE 0,
          Required(v, <<V0_9_0_0, V0_11_0_0, V2_0_0_0, V2_4_0_0, V2_6_0_0>>, V2_6_0_0),
          ListGroupsResponseEncode(v), ListGroupsResponseDecode(v))

DeleteGroupsRequestEncode(v) == Arr("Groups", Str("Groups"))
DeleteGroupsRequestDecode(v) == Arr("Groups", Str("Groups"))
DeleteGroupsRequest(v) ==
  Message(42, 1, 1, Required(v, <<V1_1_0_0, V2_0_0_0>>, V2_0_0_0),
          DeleteGroupsRequestEncode(v), DeleteGroupsRequestDecode(v))

DeleteGroupsResponseEncode(v) ==
  I32("ThrottleTime") \o Arr("GroupErrorCodes", Str("groupID") \o I16("errorCode"))
DeleteGroupsResponseDecode(v) ==
  I32("ThrottleTime") \o ArrThen("GroupErrorCodes", Str("groupID") \o I16("errorCode"), <<>>)
DeleteGroupsResponse(v) ==
  Message(42, 1, 0, Required(v, <<V1_1_0_0, V2_0_0_0>>, V2_0_0_0),
          DeleteGroupsResponseEncode(v), DeleteGroupsResponseDecode(v))

-----------------------------------------------------------------------------
OffsetCommitRequestBlockEncode(v) ==
  I64("offset") \o When(v = 1, I64("timestamp")) \o When(v >= 6, I32("committedLeaderEpoch"))
  \o Str("metadata")
OffsetCommitRequestBlockDecode(v) ==
  I64("offset") \o When(v = 1, I64("timestamp")) \o When(v >= 6, I32("committedLeaderEpoch"))
  \o Str("metadata")

OffsetCommitRequestEncode(v) ==
  Str("ConsumerGroup") \o When(v >= 1, I32("ConsumerGroupGeneration") \o Str("ConsumerID"))
  \o When(v \in 2..4, I64("RetentionTime")) \o When(v >= 7, NStr("GroupInstanceId"))
  \o Arr("blocks", Str("topic") \o Arr("partitions",
                                       I32("partition") \o OffsetCommitRequestBlockEncode(v)))
OffsetCommitRequestDecode(v) ==
  Str("ConsumerGroup") \o When(v >= 1, I32("ConsumerGroupGeneration") \o Str("ConsumerID"))
  \o When(v \in 2..4, I64("RetentionTime")) \o When(v >= 7, NStr("GroupInstanceId"))
  \o ArrThen("blocks", Str("topic") \o Arr("partitions",
                            I32("partition") \o OffsetCommitRequestBlockDecode(v)), <<>>)
OffsetCommitRequest(v) ==
  Message(8, 7, 1, Required(v, <<V0_8_2_0, V0_8_2_0, V0_9_0_0, V0_11_0_0, V2_0_0_0, V2_1_0_0,
                                 V2_1_0_0, V2_3_0_0>>, V2_4_0_0),
          OffsetCommitRequestEncode(v), OffsetCommitRequestDecode(v))

OffsetCommitResponseEncode(v) ==
  When(v >= 3, I32("ThrottleTimeMs"))
  \o Arr("Errors", Str("topic") \o Arr("partitions", I32("partition") \o I16("kerror")))
OffsetCommitResponseDecode(v) ==
  When(v >= 3, I32("ThrottleTimeMs"))
  \o ArrThen("Errors", Str("topic") \o Arr("partitions", I32("partition") \o I16("kerror")), <<>>)
OffsetCommitResponse(v) ==
  Message(8, 7, 0, Required(v, <<V0_8_2_0, V0_8_2_0, V0_9_0_0, V0_11_0_0, V2_0_0_0, V2_1_0_0,
                                 V2_1_0_0, V2_3_0_0>>, V2_4_0_0),
          OffsetCommitResponseEncode(v), OffsetCommitResponseDecode(v))

\* No partitions at all (nil) asks for every offset of the group: null from version 2
\* on, and in the compact form of versions 6 and 7.
OffsetFetchRequestEncode(v) ==
  (IF v >= 6
   THEN CStr("ConsumerGroup")
        \o NCArr("partitions", CStr("topic") \o CArr("partition", I32("partition")) \o Tags)
   ELSE Str("ConsumerGroup")
        \o LET part == Str("topic") \o Arr("partition", I32("partition"))
           IN  IF v >= 2 THEN NArr("partitions", part) ELSE Arr("partitions", part))
  \o When(v >= 7, Bool("RequireStable")) \o When(v >= 6, Tags)
OffsetFetchRequestDecode(v) ==
  IF v >= 6
  THEN CStr("ConsumerGroup")
       \o NCArr("partitions", CStr("topic") \o CArr("partition", I32("partition")) \o Tags)
       \o When(v >= 7, Bool("RequireStable")) \o Tags
  ELSE Str("ConsumerGroup")
       \o ArrThen("partitions", Str("topic") \o Arr("partition", I32("partition")), <<>>)
OffsetFetchRequest(v) ==
  Message(9, 7, IF v >= 6 THEN 2 ELSE 1,
          Required(v, <<V0_8_2_0, V0_8_2_0, V0_10_2_0, V0_11_0_0, V2_0_0_0, V2_1_0_0, V2_4_0_0,
                        V2_5_0_0>>, V2_5_0_0),
          OffsetFetchRequestEncode(v), OffsetFetchRequestDecode(v))

OffsetFetchResponseBlockEncode(v) ==
  I64("Offset") \o When(v >= 5, I32("LeaderEpoch"))
  \o (IF v >= 6 THEN CStr("Metadata") ELSE Str("Metadata")) \o I16("Err") \o When(v >= 6, Tags)
OffsetFetchResponseBlockDecode(v) ==
  I64("Offset") \o When(v >= 5, I32("LeaderEpoch"))
  \o (IF v >= 6 THEN CStr("Metadata") ELSE Str("Metadata")) \o I16("Err") \o When(v >= 6, Tags)

OffsetFetchResponseEncode(v) ==
  LET block == I32("partition") \o OffsetFetchResponseBlockEncode(v)
  IN  When(v >= 3, I32("ThrottleTimeMs"))
      \o (IF v >= 6 THEN CArr("Blocks", CStr("topic") \o CArr("partitions", block) \o Tags)
                    ELSE Arr("Blocks", Str("topic") \o Arr("partitions", block)))
      \o When(v >= 2, I16("Err")) \o When(v >= 6, Tags)
OffsetFetchResponseDecode(v) ==
  LET block == I32("partition") \o OffsetFetchResponseBlockDecode(v)
  IN  When(v >= 3, I32("ThrottleTimeMs"))
      \o (IF v >= 6 THEN NCArr("Blocks", CStr("topic") \o NCArr("partitions", block) \o Tags)
                    ELSE NArr("Blocks", Str("topic") \o NArr("partitions", block)))
      \o When(v >= 2, I16("Err")) \o When(v >= 6, Tags)
OffsetFetchResponse(v) ==
  Message(9, 7, IF v >= 6 THEN 1 ELSE 0,
          Required(v, <<V0_8_2_0, V0_8_2_0, V0_10_2_0, V0_11_0_0, V2_0_0_0, V2_1_0_0, V2_4_0_0,
                        V2_5_0_0>>, V2_5_0_0),
          OffsetFetchResponseEncode(v), OffsetFetchResponseDecode(v))

DeleteOffsetsRequestEncode(v) ==
  Str("Group") \o Arr("partitions", Str("topic") \o Arr("partition", I32("partition")))
DeleteOffsetsRequestDecode(v) ==
  Str("Group") \o ArrThen("partitions", Str("topic") \o Arr("partition", I32("partition")), <<>>)
DeleteOffsetsRequest(v) ==
  Message(47, 0, 1, V2_4_0_0, DeleteOffsetsRequestEncode(v), DeleteOffsetsRequestDecode(v))

DeleteOffsetsResponseEncode(v) ==
  I16("ErrorCode") \o I32("ThrottleTime")
  \o Arr("Errors", Str("topic") \o Arr("partitions", I32("partition") \o I16("errorCode")))
DeleteOffsetsResponseDecode(v) ==
  I16("ErrorCode") \o I32("ThrottleTime")
  \o ArrThen("Errors", Str("topic") \o Arr("partitions", I32("partition") \o I16("errorCode")), <<>>)
DeleteOffsetsResponse(v) ==
  Message(47, 0, 0, V2_4_0_0, DeleteOffsetsResponseEncode(v), DeleteOffsetsResponseDecode(v))

-----------------------------------------------------------------------------
InitProducerIDRequestEncode(v) ==
  (IF v < 2 THEN NStr("TransactionalID") ELSE NCStr("TransactionalID"))
  \o I32("TransactionTimeout") \o When(v >= 3, I64("ProducerID") \o I16("ProducerEpoch"))
  \o When(v >= 2, Tags)
InitProducerIDRequestDecode(v) ==
  (IF v < 2 THEN NStr("TransactionalID") ELSE NCStr("TransactionalID"))
  \o I32("TransactionTimeout") \o When(v >= 3, I64("ProducerID") \o I16("ProducerEpoch"))
  \o When(v >= 2, Tags)
InitProducerIDRequest(v) ==
  Message(22, 4, IF v >= 2 THEN 2 ELSE 1,
          Required(v, <<V0_11_0_0, V2_0_0_0, V2_4_0_0, V2_5_0_0, V2_7_0_0>>, V2_7_0_0),
          InitProducerIDRequestEncode(v), InitProducerIDRequestDecode(v))

InitProducerIDResponseEncode(v) ==
  I32("ThrottleTime") \o I16("Err") \o I64("ProducerID") \o I16("ProducerEpoch") \o When(v >= 2, Tags)
InitProducerIDResponseDecode(v) ==
  I32("ThrottleTime") \o I16("Err") \o I64("ProducerID") \o I16("ProducerEpoch") \o When(v >= 2, Tags)
InitProducerIDResponse(v) ==
  Message(22, 4, IF v >= 2 THEN 1 ELSE 0,
          Required(v, <<V0_11_0_0, V2_0_0_0, V2_4_0_0, V2_5_0_0, V2_7_0_0>>, V0_11_0_0),
          InitProducerIDResponseEncode(v), InitProducerIDResponseDecode(v))

AddPartitionsToTxnRequestEncode(v) ==
  Str("TransactionalID") \o I64("ProducerID") \o I16("ProducerEpoch")
  \o Arr("TopicPartitions", Str("topic") \o Arr("partitions", I32("partition")))
AddPartitionsToTxnRequestDecode(v) ==
  Str("TransactionalID") \o I64("ProducerID") \o I16("ProducerEpoch")
  \o Arr("TopicPartitions", Str("topic") \o Arr("partitions", I32("partition")))
AddPartitionsToTxnRequest(v) ==
  Message(24, 2, 1, Required(v, <<V0_11_0_0, V2_0_0_0, V2_7_0_0>>, V0_11_0_0),
          AddPartitionsToTxnRequestEncode(v), AddPartitionsToTxnRequestDecode(v))

PartitionErrorEncode == I32("Partition") \o I16("Err")
PartitionErrorDecode == I32("Partition") \o I16("Err")

AddPartitionsToTxnResponseEncode(v) ==
  I32("ThrottleTime") \o Arr("Errors", Str("topic") \o Arr("partitions", PartitionErrorEncode))
AddPartitionsToTxnResponseDecode(v) ==
  I32("ThrottleTime") \o Arr("Errors", Str("topic") \o Arr("partitions", PartitionErrorDecode))
AddPartitionsToTxnResponse(v) ==
  Message(24, 2, 0, Required(v, <<V0_11_0_0, V2_0_0_0, V2_7_0_0>>, V0_11_0_0),
          AddPartitionsToTxnResponseEncode(v), AddPartitionsToTxnResponseDecode(v))

AddOffsetsToTxnRequestEncode(v) ==
  Str("TransactionalID") \o I64("ProducerID") \o I16("ProducerEpoch") \o Str("GroupID")
AddOffsetsToTxnRequestDecode(v) ==
  Str("TransactionalID") \o I64("ProducerID") \o I16("ProducerEpoch") \o Str("GroupID")
AddOffsetsToTxnRequest(v) ==
  Message(25, 2, 1, Required(v, <<V0_11_0_0, V2_0_0_0, V2_7_0_0>>, V2_7_0_0),
          AddOffsetsToTxnRequestEncode(v), AddOffsetsToTxnRequestDecode(v))

AddOffsetsToTxnResponseEncode(v) == I32("ThrottleTime") \o I16("Err")
AddOffsetsToTxnResponseDecode(v) == I32("ThrottleTime") \o I16("Err")
AddOffsetsToTxnResponse(v) ==
  Message(25, 2, 0, Required(v, <<V0_11_0_0, V2_0_0_0, V2_7_0_0>>, V2_7_0_0),
          AddOffsetsToTxnResponseEncode(v), AddOffsetsToTxnResponseDecode(v))

EndTxnRequestEncode(v) ==
  Str("TransactionalID") \o I64("ProducerID") \o I16("ProducerEpoch") \o Bool("TransactionResult")
EndTxnRequestDecode(v) ==
  Str("TransactionalID") \o I64("ProducerID") \o I16("ProducerEpoch") \o Bool("TransactionResult")
EndTxnRequest(v) ==
  Message(26, 2, 1, Required(v, <<V0_11_0_0, V2_0_0_0, V2_7_0_0>>, V0_11_0_0),
          EndTxnRequestEncode(v), EndTxnRequestDecode(v))

EndTxnResponseEncode(v) == I32("ThrottleTime") \o I16("Err")
EndTxnResponseDecode(v) == I32("ThrottleTime") \o I16("Err")
EndTxnResponse(v) ==
  Message(26, 2, 0, Required(v, <<V0_11_0_0, V2_0_0_0, V2_7_0_0>>, V0_11_0_0),
          EndTxnResponseEncode(v), EndTxnResponseDecode(v))

PartitionOffsetMetadataEncode(v) ==
  I32("Partition") \o I64("Offset") \o When(v >= 2, I32("LeaderEpoch")) \o NStr("Metadata")
PartitionOffsetMetadataDecode(v) ==
  I32("Partition") \o I64("Offset") \o When(v >= 2, I32("LeaderEpoch")) \o NStr("Metadata")

TxnOffsetCommitRequestEncode(v) ==
  Str("TransactionalID") \o Str("GroupID") \o I64("ProducerID") \o I16("ProducerEpoch")
  \o Arr("Topics", Str("topic") \o Arr("partitions", PartitionOffsetMetadataEncode(v)))
TxnOffsetCommitRequestDecode(v) ==
  Str("TransactionalID") \o Str("GroupID") \o I64("ProducerID") \o I16("ProducerEpoch")
  \o Arr("Topics", Str("topic") \o Arr("partitions", PartitionOffsetMetadataDecode(v)))
TxnOffsetCommitRequest(v) ==
  Message(28, 2, 1, Required(v, <<V0_11_0_0, V2_0_0_0, V2_1_0_0>>, V2_1_0_0),
          TxnOffsetCommitRequestEncode(v), TxnOffsetCommitRequestDecode(v))

TxnOffsetCommitResponseEncode(v) ==
  I32("ThrottleTime") \o Arr("Topics", Str("topic") \o Arr("partitions", PartitionErrorEncode))
TxnOffsetCommitResponseDecode(v) ==
  I32("ThrottleTime") \o Arr("Topics", Str("topic") \o Arr("partitions", PartitionErrorDecode))
TxnOffsetCommitResponse(v) ==
  Message(28, 2, 0, Required(v, <<V0_11_0_0, V2_0_0_0, V2_1_0_0>>, V2_1_0_0),
          TxnOffsetCommitResponseEncode(v), TxnOffsetCommitResponseDecode(v))
=============================================================================
